-------------------------- MODULE ExclusiveSection --------------------------
(***************************************************************************)
(* What a caller of the project locks is promised: at most one process at  *)
(* a time is inside the section the locks guard, a process enters an empty *)
(* section only, and leaves it by releasing or by dying.                   *)
(***************************************************************************)
CONSTANTS Procs,   \* processes running dwe in one project
          NoProc   \* "nobody"

VARIABLE owner     \* the process inside the section, or NoProc

Init == owner = NoProc

Enter(p) ==
    /\ owner = NoProc
    /\ owner' = p

Leave(p) ==
    /\ owner = p
    /\ owner' = NoProc

Next == \E p \in Procs : Enter(p) \/ Leave(p)

Spec == Init /\ [][Next]_owner
=============================================================================
