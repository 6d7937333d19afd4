------------------------------ MODULE MCEnvTest ------------------------------
(* Everybody is like everybody else of his kind. *)
EXTENDS EnvTest, TLC

MCSymmetry == Permutations(Scenarios) \cup Permutations(Commands)
              \cup Permutations(Workers) \cup Permutations(Ports)
=============================================================================
