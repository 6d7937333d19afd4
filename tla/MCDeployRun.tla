---------------------------- MODULE MCDeployRun ----------------------------
(* Two services, a with two steps and b, after a, with one; the project has *)
(* render-env before them and up after them.                                *)
EXTENDS DeployRun

MCPlan == <<"env", "a1", "a2", "b1", "up">>

MCOwner == [st \in ToSet(MCPlan) |->
    CASE st \in {"env", "up"} -> "project"
      [] st \in {"a1", "a2"} -> "a"
      [] OTHER -> "b"]

\* Without the project's last step, whose check keeps a full deploy running.
MCShortPlan == <<"env", "a1", "a2", "b1">>

MCShortOwner == [st \in ToSet(MCShortPlan) |-> MCOwner[st]]

MCAfter == [s \in {"a", "b"} |-> IF s = "b" THEN {"a"} ELSE {}]
=============================================================================
