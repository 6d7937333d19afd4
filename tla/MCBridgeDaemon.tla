--------------------------- MODULE MCBridgeDaemon ---------------------------
EXTENDS BridgeDaemon, TLC

\* Neither the commands nor the daemons are told apart.
Symmetry == Permutations(Commands) \cup Permutations(Daemons)
=============================================================================
