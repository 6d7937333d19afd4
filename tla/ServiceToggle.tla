---------------------------- MODULE ServiceToggle ----------------------------
(***************************************************************************)
(* `dwe services enable|disable` (cli/service) with the commands that      *)
(* share local.yml and the journal's pending operations with it: deploy,   *)
(* run, stop, restart and the reset of a service, in several sessions.     *)
(* Every command reads the configuration, and a toggle the journal, before *)
(* it has the project locks; an apply takes them once per step and again   *)
(* to clear what it applied.                                               *)
(*                                                                         *)
(* A locked section nobody can look into is one action.  lock is the owner *)
(* that ExclusiveSection promises; whoever finds it taken gives up.        *)
(* wanted and owed are ghosts: the services as the toggles that succeeded  *)
(* left them, and the work that toggles and resets left to be done.        *)
(***************************************************************************)
EXTENDS Journal, Naturals

CONSTANTS Sessions,     \* terminals, each with one command at a time
          Commands,     \* session -> the commands that are typed there, each a
                        \* kind with the services it names
          Requires      \* service -> direction -> on_enable/on_disable requires:

NoSession == "nobody"

Directions == {"enable", "disable"}

\* A deploy that names no service deploys all that are enabled; run, stop and
\* restart name none.
CommandKinds == {"toggle", "deploy", "force", "run", "stop", "restart", "reset"}

ASSUME ToggleAssumption ==
    /\ NoSession \notin Sessions
    /\ Commands \in [Sessions -> SUBSET (CommandKinds \X SUBSET Services)]
    /\ Requires \in [Services -> [Directions -> {"none", "restart", "deploy",
                                                 "deploy-or-restart"}]]

VARIABLES
    enabled,    \* local.yml: the services that are enabled
    disk,       \* state.yml
    lock,       \* the session that has the project locks
    pc,         \* session -> where its command is
    loc,        \* session -> the locals of its command
    wanted,
    owed

vars == <<enabled, disk, lock, pc, loc, wanted, owed>>

ghosts == <<wanted, owed>>

NoCommand ==
    [cmd |-> "none",
     svcs |-> {}, on |-> {}, deployed |-> {}, ever |-> FALSE, before |-> {},
     deploys |-> {}, restart |-> FALSE, left |-> <<>>,
     cfg |-> {}, mem |-> EmptyJournal]

NothingOwed == [s \in Services |-> "no"]

\* The journal of a project in which the services svcs were deployed.
DeployedJournal(svcs) ==
    Recompute([EmptyJournal EXCEPT
        !.status = [s \in Scopes |-> IF s \in svcs THEN "deployed" ELSE "none"],
        !.last = [s \in Scopes |-> IF s \in svcs \cup {Project} THEN "ok" ELSE "none"]])

Places ==
    {"idle", "mutate", "pend", "deployLock", "deploying", "stop", "run",
     "runLock", "tail", "tailSave", "clear"}

TypeOK ==
    /\ enabled \subseteq Services
    /\ disk \in Journals
    /\ lock \in Sessions \cup {NoSession}
    /\ pc \in [Sessions -> Places]
    /\ \A p \in Sessions :
          /\ loc[p].cmd \in {"none", "toggle", "deploy", "force", "run", "stop", "restart"}
          /\ loc[p].on \subseteq loc[p].svcs
          /\ UNION {loc[p].svcs, loc[p].deployed, loc[p].before, loc[p].deploys, loc[p].cfg}
                \subseteq Services
          /\ {loc[p].ever, loc[p].restart} \subseteq BOOLEAN
          /\ loc[p].left \in {<<>>, <<"deploy">>, <<"restart">>, <<"deploy", "restart">>}
          /\ loc[p].mem \in Journals
          /\ lock = p <=> pc[p] \in {"pend", "deploying"}
    /\ wanted \subseteq Services
    /\ \A kind \in {"deploy", "restart"} :
          owed[kind] \in [Services -> {"no", "owed", "raced"}]

\* A project that was never deployed, and one that was.
Init ==
    /\ enabled \in SUBSET Services
    /\ disk \in {EmptyJournal, DeployedJournal(enabled)}
    /\ lock = NoSession
    /\ pc = [p \in Sessions |-> "idle"]
    /\ loc = [p \in Sessions |-> NoCommand]
    /\ wanted = enabled
    /\ owed = [kind \in {"deploy", "restart"} |-> NothingOwed]

-----------------------------------------------------------------------------
(***************************************************************************)
(* Helpers                                                                 *)
(***************************************************************************)
Goto(p, place) == pc' = [pc EXCEPT ![p] = place]

End(p) ==
    /\ Goto(p, "idle")
    /\ loc' = [loc EXCEPT ![p] = NoCommand]

\* loadJournalSnapshot: any trace of a deploy counts.
EverDeployed(j) ==
    \/ j.last[Project] # "none"
    \/ \E s \in Scopes : j.status[s] \notin {"none", "not_deployed"}

DeployedServices(j) == {s \in Services : j.status[s] = "deployed"}

\* buildContributors with ToggleRequires.Resolve, for the command of p.
Contribution(p, s) ==
    LET requires == Requires[s][IF s \in loc[p].on THEN "enable" ELSE "disable"]
    IN  IF requires # "deploy-or-restart" THEN requires
        ELSE IF s \in loc[p].deployed THEN "restart" ELSE "deploy"

DeployContributors(p) == {s \in loc[p].svcs : Contribution(p, s) = "deploy"}

RestartContributors(p) == {s \in loc[p].svcs : Contribution(p, s) = "restart"}

\* on_disable may not require a deploy.
PlanIsValid(p) ==
    \A s \in loc[p].svcs \ loc[p].on :
        Requires[s]["disable"] \notin {"deploy", "deploy-or-restart"}

\* ApplySteps: the deploy comes before the restart.
ApplySteps(deploys, restart) ==
    (IF deploys # {} THEN <<"deploy">> ELSE <<>>) \o (IF restart THEN <<"restart">> ELSE <<>>)

\* Where executeTogglePlan goes with the steps left; a restart begins with
\* its stop leg, and after the last step the pending operations are cleared.
Continuation(left) ==
    IF left = <<>> THEN "clear" ELSE IF Head(left) = "deploy" THEN "deployLock" ELSE "stop"

\* An apply step is done: on to the next one, or the end of the command.
StepDone(p) ==
    IF loc[p].cmd = "toggle"
    THEN LET left == Tail(loc[p].left)
         IN  /\ Goto(p, Continuation(left))
             /\ loc' = [loc EXCEPT ![p] =
                          [@ EXCEPT !.left = left, !.cfg = {}, !.mem = EmptyJournal]]
    ELSE End(p)

-----------------------------------------------------------------------------
(***************************************************************************)
(* What is owed.  Work is owed from the commit of a toggle or reset until  *)
(* it is done.  It is raced when another session is at a point from which  *)
(* it clears the pending operation without doing the work: it loaded the   *)
(* configuration or the journal before, or it has done its steps already   *)
(* and is about to clear.                                                  *)
(***************************************************************************)
PastRestart(q) ==
    \/ pc[q] \in {"runLock", "tail", "tailSave"}
    \/ pc[q] = "clear" /\ loc[q].restart

PastDeploy(q, s) ==
    \/ pc[q] = "tailSave"
    \/ pc[q] \in {"stop", "run", "runLock", "clear"} /\ s \in loc[q].deploys

OweDeploy(p, svcs) ==
    [s \in Services |->
        IF s \notin svcs THEN owed["deploy"][s]
        ELSE IF \E q \in Sessions \ {p} : PastDeploy(q, s) THEN "raced" ELSE "owed"]

\* A service that changes again, or is rolled back, races with the runs that
\* saw it as it was.
OweRestart(p, svcs) ==
    [s \in Services |->
        LET now == IF \E q \in Sessions \ {p} : PastRestart(q) THEN "raced" ELSE "owed"
        IN  IF s \in svcs \/ (s \in loc[p].svcs /\ owed["restart"][s] = "owed")
            THEN now ELSE owed["restart"][s]]

\* Work that is done is owed no more.
Done(svcs, kind) ==
    [owed EXCEPT ![kind] = [s \in Services |-> IF s \in svcs THEN "no" ELSE @[s]]]

-----------------------------------------------------------------------------
(***************************************************************************)
(* The toggle: runSingleServiceToggle and its batch form                   *)
(***************************************************************************)
\* The configuration and the journal are read before the locks are taken.
BeginToggle(p, svcs) ==
    /\ pc[p] = "idle"
    /\ <<"toggle", svcs>> \in Commands[p]
    /\ loc' = [loc EXCEPT ![p] =
                 [NoCommand EXCEPT !.cmd = "toggle",
                                   !.svcs = svcs,
                                   !.on = svcs \ enabled,
                                   !.deployed = DeployedServices(disk) \cap svcs,
                                   !.ever = EverDeployed(disk)]]
    /\ Goto(p, "mutate")
    /\ UNCHANGED <<enabled, disk, lock, ghosts>>

Toggled(services, p) == (services \ loc[p].svcs) \cup loc[p].on

\* Mutant of WriteLocal: without the locks.
WriteLocalUnlocked(p) ==
    /\ pc[p] = "mutate"
    /\ lock' = p
    /\ enabled' = Toggled(enabled, p)
    /\ loc' = [loc EXCEPT ![p].before = enabled]
    /\ Goto(p, "pend")
    /\ UNCHANGED <<disk, ghosts>>

\* local.yml is read again under the locks, and only the toggled keys change.
WriteLocal(p) ==
    /\ pc[p] = "mutate"
    /\ lock = NoSession
    /\ lock' = p
    /\ enabled' = Toggled(enabled, p)
    /\ loc' = [loc EXCEPT ![p].before = enabled]
    /\ Goto(p, "pend")
    /\ UNCHANGED <<disk, ghosts>>

\* AddPendingOps, if the project was ever deployed, and the end of the lock.
\* Then decideToggleApply and its prompt: the apply begins, or the work stays
\* pending (GiveUp before the first step).
CommitToggle(p) ==
    /\ pc[p] = "pend"
    /\ PlanIsValid(p)
    /\ LET deploys == DeployContributors(p)
           restart == RestartContributors(p) # {}
           left == ApplySteps(deploys, restart)
       IN  /\ disk' = IF loc[p].ever THEN AddPending(disk, restart, deploys) ELSE disk
           /\ owed' = IF loc[p].ever
                      THEN [deploy |-> OweDeploy(p, deploys),
                            restart |-> OweRestart(p, RestartContributors(p))]
                      ELSE [owed EXCEPT !["restart"] = OweRestart(p, {})]
           /\ IF left = <<>> THEN End(p)
              ELSE /\ Goto(p, Continuation(left))
                   /\ loc' = [loc EXCEPT ![p] =
                                [NoCommand EXCEPT !.cmd = "toggle",
                                                  !.deploys = deploys,
                                                  !.restart = restart,
                                                  !.left = left]]
    /\ lock' = NoSession
    /\ wanted' = Toggled(wanted, p)
    /\ UNCHANGED enabled

\* The new configuration does not load, the plan is invalid, or a write fails.
RollBack(p) ==
    /\ pc[p] = "pend"
    /\ enabled' = loc[p].before
    /\ lock' = NoSession
    /\ End(p)
    /\ owed' = [owed EXCEPT !["restart"] = OweRestart(p, {})]
    /\ UNCHANGED <<disk, wanted>>

\* Mutant of ClearApplied: a clear takes every pending restart along.
ClearAppliedAll(p) ==
    /\ pc[p] = "clear"
    /\ lock = NoSession
    /\ disk' = ClearPendingRestart(ClearPendingServices(disk, loc[p].deploys))
    /\ End(p)
    /\ UNCHANGED <<enabled, lock, ghosts>>

\* buildPendingClears under fresh locks, once all steps succeeded.
ClearApplied(p) ==
    /\ pc[p] = "clear"
    /\ lock = NoSession
    /\ LET cleared == ClearPendingServices(disk, loc[p].deploys)
       IN  disk' = IF loc[p].restart THEN ClearPendingRestart(cleared) ELSE cleared
    /\ End(p)
    /\ UNCHANGED <<enabled, lock, ghosts>>

-----------------------------------------------------------------------------
(***************************************************************************)
(* `dwe deploy run`, of some services or, with none named, of all enabled  *)
(***************************************************************************)
\* The configuration is loaded, and preflight runs, before the locks are
\* taken; it tells which services a deploy that names none is about.
BeginDeploy(p, cmd, svcs) ==
    /\ pc[p] = "idle"
    /\ <<cmd, svcs>> \in Commands[p]
    /\ Goto(p, "deployLock")
    /\ loc' = [loc EXCEPT ![p] =
                 [NoCommand EXCEPT !.cmd = cmd,
                                   !.svcs = svcs,
                                   !.cfg = IF svcs = {} THEN enabled ELSE {}]]
    /\ UNCHANGED <<enabled, disk, lock, ghosts>>

FullDeploy(p) == loc[p].cmd # "toggle" /\ loc[p].svcs = {}

\* The services of the plan.
DeployScope(p) ==
    CASE loc[p].cmd = "toggle" -> loc[p].deploys
      [] FullDeploy(p) -> loc[p].cfg
      [] OTHER -> loc[p].svcs

\* The early gate answers: the services are deployed, nothing is executed and
\* nothing cleared.  Whether the hashes match is DeployRun's subject.
DeployUpToDate(p) ==
    /\ pc[p] = "deployLock"
    /\ lock = NoSession
    /\ loc[p].cmd # "force"
    /\ DeployScope(p) \subseteq DeployedServices(disk)
    /\ StepDone(p)
    /\ owed' = Done(DeployScope(p), "deploy")
    /\ UNCHANGED <<enabled, disk, lock, wanted>>

\* The recorder's copy of the journal, which --force empties.  The marks of a
\* deploy in progress are left to DeployRun, but for the project's.
StartDeploy(p) ==
    /\ pc[p] = "deployLock"
    /\ lock = NoSession
    /\ lock' = p
    /\ LET base == IF loc[p].cmd = "force" THEN EmptyJournal ELSE disk
           marked == [base EXCEPT !.last[Project] = IF FullDeploy(p) THEN "in_progress" ELSE @]
       IN  /\ disk' = marked
           /\ loc' = [loc EXCEPT ![p].mem = marked]
    /\ Goto(p, "deploying")
    /\ UNCHANGED <<enabled, ghosts>>

\* OnPipelineFinish: services were deployed or failed, the pipeline succeeded
\* or not; only a full deploy marks the project.
Recorded(p, deployed, failed, success) ==
    LET outcome == IF success THEN "ok" ELSE "failed"
    IN  Recompute([loc[p].mem EXCEPT
            !.status = [s \in Scopes |-> IF s \in deployed THEN "deployed"
                                         ELSE IF s \in failed THEN "failed" ELSE @[s]],
            !.last = [s \in Scopes |-> IF s \in deployed THEN "ok"
                                       ELSE IF s \in failed THEN "failed"
                                       ELSE IF s = Project /\ FullDeploy(p) THEN outcome
                                       ELSE @[s]]])

\* Mutant of FinishDeploy: a full deploy clears the whole operation.
FinishDeployClearing(p) ==
    /\ pc[p] = "deploying"
    /\ disk' = LET j == Recorded(p, DeployScope(p), {}, TRUE)
               IN  IF loc[p].cmd = "toggle" THEN j
                   ELSE ClearPendingServices(j, IF FullDeploy(p) THEN Services ELSE loc[p].svcs)
    /\ lock' = NoSession
    /\ StepDone(p)
    /\ owed' = Done(DeployScope(p), "deploy")
    /\ UNCHANGED <<enabled, wanted>>

\* Success; clearDeployedPending, unless an apply is to clear at its end.
FinishDeploy(p) ==
    /\ pc[p] = "deploying"
    /\ disk' = LET j == Recorded(p, DeployScope(p), {}, TRUE)
               IN  IF loc[p].cmd = "toggle" THEN j ELSE ClearPendingServices(j, DeployScope(p))
    /\ lock' = NoSession
    /\ StepDone(p)
    /\ owed' = Done(DeployScope(p), "deploy")
    /\ UNCHANGED <<enabled, wanted>>

\* A step of a service fails, or one of the project's, after some services
\* were deployed.
FailDeploy(p) ==
    /\ pc[p] = "deploying"
    /\ \E failed \in SUBSET DeployScope(p) :
          /\ Cardinality(failed) <= 1
          /\ \E deployed \in SUBSET (DeployScope(p) \ failed) :
                disk' = Recorded(p, deployed, failed, FALSE)
    /\ lock' = NoSession
    /\ End(p)
    /\ UNCHANGED <<enabled, ghosts>>

-----------------------------------------------------------------------------
(***************************************************************************)
(* `dwe run`, `dwe stop`, `dwe restart` and `dwe reset run --service`      *)
(***************************************************************************)
BeginLifecycle(p, cmd) ==
    /\ pc[p] = "idle"
    /\ <<cmd, {}>> \in Commands[p]
    /\ Goto(p, IF cmd = "run" THEN "run" ELSE "stop")
    /\ loc' = [loc EXCEPT ![p] = [NoCommand EXCEPT !.cmd = cmd]]
    /\ UNCHANGED <<enabled, disk, lock, ghosts>>

\* RunStop: with the stack down no restart is owed.
RunStop(p) ==
    /\ pc[p] = "stop"
    /\ lock = NoSession
    /\ disk' = ClearPendingRestart(disk)
    /\ owed' = Done(Services, "restart")
    /\ IF loc[p].cmd = "stop" THEN End(p) ELSE Goto(p, "run") /\ UNCHANGED loc
    /\ UNCHANGED <<enabled, lock, wanted>>

\* RunRun reads the configuration before preflight and the locks.
LoadForRun(p) ==
    /\ pc[p] = "run"
    /\ Goto(p, "runLock")
    /\ loc' = [loc EXCEPT ![p].cfg = enabled]
    /\ UNCHANGED <<enabled, disk, lock, ghosts>>

\* The gate, the phases, which bring up what was loaded, and the clear.
RunUp(p) ==
    /\ pc[p] = "runLock"
    /\ lock = NoSession
    /\ loc[p].cfg \subseteq DeployedServices(disk)
    /\ disk' = ClearPendingRestart(disk)
    /\ owed' = Done({s \in Services : s \in loc[p].cfg <=> s \in enabled}, "restart")
    /\ CASE loc[p].cmd = "run" -> End(p)
         [] loc[p].cmd = "restart" ->
               Goto(p, "tail") /\ loc' = [loc EXCEPT ![p].cfg = {}]
         [] OTHER -> StepDone(p)
    /\ UNCHANGED <<enabled, lock, wanted>>

\* RunRestart clears once more, after both legs gave their locks back.
LoadUnlocked(p) ==
    /\ pc[p] = "tail"
    /\ IF disk.pending = NoPending THEN End(p)
       ELSE Goto(p, "tailSave") /\ loc' = [loc EXCEPT ![p].mem = disk]
    /\ UNCHANGED <<enabled, disk, lock, ghosts>>

SaveUnlocked(p) ==
    /\ pc[p] = "tailSave"
    /\ disk' = ClearPendingRestart(loc[p].mem)
    /\ End(p)
    /\ UNCHANGED <<enabled, lock, ghosts>>

\* The end of a service's reset, the only part of it that the journal sees.
ResetService(p, s) ==
    /\ pc[p] = "idle"
    /\ <<"reset", {s}>> \in Commands[p]
    /\ lock = NoSession
    /\ disk' = ReplaceServiceWithPending(disk, s)
    /\ owed' = [owed EXCEPT !["deploy"] = OweDeploy(p, {s})]
    /\ UNCHANGED <<enabled, lock, pc, loc, wanted>>

-----------------------------------------------------------------------------
\* The locks are taken, preflight or a phase fails, the gate refuses: nothing
\* more of the command happens.
GiveUp(p) ==
    /\ pc[p] \in {"mutate", "deployLock", "stop", "run", "runLock", "clear"}
    /\ End(p)
    /\ UNCHANGED <<enabled, disk, lock, ghosts>>

\* A killed toggle leaves local.yml as it is, and nothing pending.  Kills of a
\* deploy in its pipeline are DeployRun's subject.
Crash(p) ==
    /\ pc[p] \notin {"idle", "deploying"}
    /\ End(p)
    /\ lock' = IF lock = p THEN NoSession ELSE lock
    /\ IF pc[p] = "pend"
       THEN wanted' = enabled /\ owed' = [owed EXCEPT !["restart"] = OweRestart(p, {})]
       ELSE UNCHANGED ghosts
    /\ UNCHANGED <<enabled, disk>>

Next ==
    \E p \in Sessions :
        \/ \E svcs \in SUBSET Services : BeginToggle(p, svcs)
        \/ WriteLocal(p)
        \/ CommitToggle(p)
        \/ RollBack(p)
        \/ ClearApplied(p)
        \/ \E cmd \in {"deploy", "force"}, svcs \in SUBSET Services : BeginDeploy(p, cmd, svcs)
        \/ DeployUpToDate(p)
        \/ StartDeploy(p)
        \/ FinishDeploy(p)
        \/ FailDeploy(p)
        \/ \E cmd \in {"run", "stop", "restart"} : BeginLifecycle(p, cmd)
        \/ RunStop(p)
        \/ LoadForRun(p)
        \/ RunUp(p)
        \/ LoadUnlocked(p)
        \/ SaveUnlocked(p)
        \/ \E s \in Services : ResetService(p, s)
        \/ GiveUp(p)
        \/ Crash(p)

Spec == Init /\ [][Next]_vars

-----------------------------------------------------------------------------
(***************************************************************************)
(* Properties                                                              *)
(***************************************************************************)
(* state-and-locks.md:140, "a different operator's pending entry [...] must *)
(* not be erased": a deploy that a toggle or a reset owes is pending until  *)
(* a deploy of the service succeeds, and a restart that a toggle owes until *)
(* the stack is down or up as toggled (schema.md:73-86), whatever the other *)
(* sessions do.                                                             *)
OwedWorkPending ==
    \A s \in Services :
        /\ owed["deploy"][s] = "owed" => s \in disk.pending.deploy
        /\ owed["restart"][s] = "owed" => disk.pending.restart

(* Toggles of several sessions add up: outside the locks local.yml is what  *)
(* the toggles that succeeded made it, whatever failed and was rolled back. *)
TogglesKept ==
    lock = NoSession => enabled = wanted
=============================================================================
