----------------------------- MODULE MCSecrets ------------------------------
EXTENDS Secrets, TLC
\* Shells, key pairs and plaintexts are interchangeable.
MCSymmetry ==
    Permutations(Commands) \cup Permutations(Keys) \cup Permutations(Texts)
=============================================================================
