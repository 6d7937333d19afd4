------------------------------- MODULE Journal -------------------------------
(***************************************************************************)
(* The deploy journal .dwe/deploy/state.yml as a value, and the functions  *)
(* of internal/core/workflow/deploy/journal on it.  The project and every  *)
(* service are scopes with an entry of the same shape; a service that is   *)
(* not in the file has the zero entry, which no reader tells from absence. *)
(* Step records are kept per step, not per phase: a phase is failed when   *)
(* one of its steps is.                                                    *)
(***************************************************************************)
EXTENDS FiniteSets, Sequences

CONSTANTS Services,     \* names of the tracked services
          Steps,        \* steps of the deploy plan
          OwnerOf,      \* step -> the scope that journals it
          Templated,    \* steps whose body is rendered from the configuration
          Versions      \* contents a configuration file can have

Project == "project"

Scopes == Services \cup {Project}

ASSUME JournalAssumption ==
    /\ Project \notin Services
    /\ {"vars", "plan"} \cap Services = {}
    /\ OwnerOf \in [Steps -> Scopes]
    /\ Templated \subseteq Steps

(***************************************************************************)
(* A configuration: each service's service.yml and deploy.yml, the project *)
(* deploy.yml ("plan") and the vars: block.  The hashes are injective, so  *)
(* what is hashed stands for its hash.                                     *)
(***************************************************************************)
Parts == Services \cup {"vars", "plan"}

Configs == [Parts -> Versions]

NoHash == [p \in {} |-> p]

\* ServiceConfigHash covers the service's files and vars, ProjectConfigHash
\* the files of all tracked services, the project's deploy.yml and vars.
ConfigHash(c, scope) ==
    IF scope = Project THEN c ELSE [p \in {scope, "vars"} |-> c[p]]

\* The action hash sees type, cmd and with: after rendering.
ActionHash(c, st) ==
    IF st \in Templated THEN ConfigHash(c, OwnerOf[st]) ELSE NoHash

-----------------------------------------------------------------------------
ScopeStatuses == {"none", "deployed", "failed", "partial", "not_deployed"}

RunStatuses == {"none", "in_progress", "ok", "failed"}

StepStatuses == {"none", "ok", "failed", "skipped"}

Hashes ==
    {NoHash} \cup {ConfigHash(c, s) : c \in Configs, s \in Scopes}

NoRecord == [status |-> "none", action |-> NoHash]

NoPending == [restart |-> FALSE, deploy |-> {}]

EmptyJournal ==
    [status  |-> [s \in Scopes |-> "none"],
     hash    |-> [s \in Scopes |-> NoHash],
     last    |-> [s \in Scopes |-> "none"],
     step    |-> [st \in Steps |-> NoRecord],
     pending |-> NoPending]

Records == [status : StepStatuses, action : Hashes]

Journals ==
    [status : [Scopes -> ScopeStatuses],
     hash : [Scopes -> Hashes],
     last : [Scopes -> RunStatuses],
     step : [Steps -> Records],
     pending : [restart : BOOLEAN, deploy : SUBSET Services]]

StepsOf(scope) == {st \in Steps : OwnerOf[st] = scope}

PhaseFailed(j, scope) ==
    \E st \in StepsOf(scope) : j.step[st].status = "failed"

-----------------------------------------------------------------------------
\* Recompute: the project's status from the services', then every run that
\* is still marked in_progress becomes a failed one.
ProjectStatus(j) ==
    LET statuses == {j.status[s] : s \in Services}
        deployed == statuses \cap {"deployed", "partial"} # {}
    IN  CASE statuses \cap {"failed", "partial"} # {} -> "failed"
          [] statuses \cap {"failed", "partial"} = {} /\ "not_deployed" \in statuses ->
                IF deployed THEN "partial" ELSE "not_deployed"
          [] OTHER ->
                IF deployed \/ j.last[Project] = "ok"
                THEN "deployed" ELSE "not_deployed"

Recompute(j) ==
    [j EXCEPT
        !.status[Project] = ProjectStatus(j),
        !.last = [s \in Scopes |->
                    IF j.last[s] = "in_progress" THEN "failed" ELSE j.last[s]]]

\* Mutant of Skippable: a failed record will do.
SkippableFailed(rec, action, forces) ==
    /\ rec.status \in {"ok", "failed"}
    /\ rec.action = action
    /\ ~forces

\* Decide: a journaled step is skipped only when it succeeded, its action is
\* the same, and nothing forces it to run.
Skippable(rec, action, forces) ==
    /\ rec.status = "ok"
    /\ rec.action = action
    /\ ~forces

-----------------------------------------------------------------------------
\* pending.go, with at most one operation per kind.
AddPending(j, restart, svcs) ==
    [j EXCEPT !.pending.restart = @ \/ restart,
              !.pending.deploy = @ \cup svcs]

ClearPendingRestart(j) == [j EXCEPT !.pending.restart = FALSE]

ClearPendingServices(j, svcs) == [j EXCEPT !.pending.deploy = @ \ svcs]

\* ReplaceServiceWithPending: the service leaves the journal and becomes a
\* pending deploy; without services and project phases the project is zeroed.
ForgetService(j, s) ==
    [j EXCEPT !.status[s] = "none", !.hash[s] = NoHash, !.last[s] = "none",
              !.step = [st \in Steps |->
                          IF OwnerOf[st] = s THEN NoRecord ELSE j.step[st]]]

HasService(j, s) == j.last[s] # "none" \/ \E st \in StepsOf(s) : j.step[st] # NoRecord

ReplaceServiceWithPending(j, s) ==
    LET without == ForgetService(j, s)
        nothing == /\ \A t \in Services : ~HasService(without, t)
                   /\ \A st \in StepsOf(Project) : without.step[st] = NoRecord
    IN  AddPending(IF nothing THEN [EmptyJournal EXCEPT !.pending = j.pending]
                   ELSE Recompute(without),
                   FALSE, {s})
=============================================================================
