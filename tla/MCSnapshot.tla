----------------------------- MODULE MCSnapshot -----------------------------
(* Two names, alike; two directories set aside by create and one by unpack. *)
EXTENDS Snapshot, TLC

Symmetry == Permutations(Names) \cup Permutations(Backups)
=============================================================================
