--------------------------- MODULE MCServiceToggle ---------------------------
(* Two optional services: a is enabled by a deploy or a restart and disabled *)
(* by a restart, b is enabled by a deploy.                                   *)
EXTENDS ServiceToggle

MCOwner == [st \in {} |-> st]

MCRequires ==
    [s \in {"a", "b"} |->
        IF s = "a" THEN [enable |-> "deploy-or-restart", disable |-> "restart"]
        ELSE [enable |-> "deploy", disable |-> "none"]]

\* One session toggles, the other does everything.
MCCommands ==
    [p \in {"p", "q"} |->
        IF p = "p" THEN {<<"toggle", {"a"}>>, <<"toggle", {"a", "b"}>>}
        ELSE {<<"toggle", {"b"}>>, <<"deploy", {}>>, <<"deploy", {"a"}>>,
              <<"run", {}>>, <<"restart", {}>>, <<"reset", {"a"}>>}]
=============================================================================
