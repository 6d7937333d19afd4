------------------------------ MODULE DeployRun ------------------------------
(***************************************************************************)
(* `dwe deploy run` from the decision to run to the exit: the gates of     *)
(* cli/deploy, the step loop of execution/pipeline and the recorder that   *)
(* journals it, against crashes, failing steps, edits of the configuration *)
(* and the other commands that write the journal.  One process at a time:  *)
(* ProjectLocks is why.                                                    *)
(*                                                                         *)
(* done and settled are ghosts: what each step's body really achieved, and *)
(* whether anything happened since the last successful full deploy.        *)
(***************************************************************************)
EXTENDS Journal, Naturals, SequencesExt

CONSTANTS FullPlan,     \* the steps of a full deploy, in order
          EnvStep,      \* the implicit first step, render-env
          Conditional,  \* steps with a when:
          Checked,      \* steps with a check: or an assertion as their body
          Producers,    \* steps with files_gate state: missing
          Consumers,    \* steps with files_gate state: readable
          Lenient,      \* steps with continue_on_error
          After,        \* service -> the services its deploy.yml comes after
          Editable,     \* the parts of the configuration a user edits
          Env           \* what may happen besides full deploys that work

\* A plan names no step twice, and the steps of a service follow each other.
ASSUME DeployAssumption ==
    /\ FullPlan \in Seq(Steps) \ {<<>>}
    /\ Steps = ToSet(FullPlan)
    /\ \A i, j \in 1..Len(FullPlan) : FullPlan[i] = FullPlan[j] => i = j
    /\ \A i, j, k \in 1..Len(FullPlan) :
          i < j /\ j < k /\ OwnerOf[FullPlan[i]] = OwnerOf[FullPlan[k]] =>
             OwnerOf[FullPlan[j]] = OwnerOf[FullPlan[i]] \/ OwnerOf[FullPlan[i]] = Project
    /\ EnvStep = FullPlan[1] /\ OwnerOf[EnvStep] = Project
    /\ EnvStep \notin Conditional \cup Checked \cup Producers \cup Consumers \cup Lenient
    /\ Producers \cap Consumers = {}
    /\ After \in [Services -> SUBSET Services]
    /\ Editable \subseteq Parts

VARIABLES
    config,     \* the configuration files
    truth,      \* the conditional steps whose when: holds
    disk,       \* state.yml
    pc,         \* where the deploy process is
    run,        \* the locals of RunHelper and of the recorder
    exit,       \* how the last deploy ended
    done,       \* step -> what its body achieved
    settled     \* "yes": nothing happened since the last successful full deploy

vars == <<config, truth, disk, pc, run, exit, done, settled>>

Gated == Producers \cup Consumers

Requests == {"plain", "resume", "force", "tty"}

\* The services of a run; the empty set is a full deploy.
RunScopes ==
    {{}} \cup (IF "service_run" \in Env THEN SUBSET Services ELSE {})

\* ResolvePlan; ResolveServicePlan and ResolveServicesPlanSubset keep the
\* implicit first step and the order.
Plan(scope) ==
    {st \in Steps : scope = {} \/ st = EnvStep \/ OwnerOf[st] \in scope}

\* The place in FullPlan of the next step of the run.
NextPlace(scope, i) ==
    LET later == {k \in i + 1 .. Len(FullPlan) : FullPlan[k] \in Plan(scope)}
    IN  IF later = {} THEN Len(FullPlan) + 1 ELSE Min(later)

NoRun == [cfg |-> NoHash, scope |-> {}, force |-> FALSE, mem |-> EmptyJournal,
          idx |-> 1, seen |-> {}, unsaved |-> FALSE]

Never == [state |-> "never", under |-> NoHash]
Torn == [state |-> "torn", under |-> NoHash]
DoneUnder(c, st) == [state |-> "done", under |-> ConfigHash(c, OwnerOf[st])]

Runs ==
    [cfg : Configs \cup {NoHash}, scope : SUBSET Services, force : BOOLEAN,
     mem : Journals, idx : 1..(Len(FullPlan) + 1), seen : SUBSET Services,
     unsaved : BOOLEAN]

Outcomes == [state : {"never", "torn", "done"}, under : Hashes]

TypeOK ==
    /\ config \in Configs
    /\ truth \subseteq Conditional
    /\ disk \in Journals
    /\ pc \in {"idle", "step", "body", "abort", "clear", "reset"}
    /\ run \in Runs
    /\ exit \in {"none", "ok", "failed", "unsaved", "uptodate", "refused"}
    /\ done \in [Steps -> Outcomes]
    /\ settled \in {"no", "trying", "yes"}

Init ==
    /\ config \in Configs
    /\ \A p, q \in Parts : config[p] = config[q]
    /\ truth = Conditional
    /\ disk = EmptyJournal
    /\ pc = "idle"
    /\ run = NoRun
    /\ exit = "none"
    /\ done = [st \in Steps |-> Never]
    /\ settled = "no"

-----------------------------------------------------------------------------
(***************************************************************************)
(* The gates of RunHelper                                                  *)
(***************************************************************************)

\* computeScopeState, for a full run, one service and several services.
ScopeStatus(j, scope) ==
    IF scope = {} THEN j.status[Project]
    ELSE IF \A s \in scope : j.status[s] = "deployed" THEN "deployed"
    ELSE IF \E s \in scope : j.status[s] = "failed" THEN "failed"
    ELSE IF \E s \in scope : j.status[s] = "deployed" THEN "deployed" ELSE "none"

HashesMatch(j, c, scope) ==
    \A s \in (IF scope = {} THEN {Project} ELSE scope) : j.hash[s] = ConfigHash(c, s)

LastRuns(j, scope) ==
    {j.last[s] : s \in (IF scope = {} THEN {Project} ELSE scope)}

\* hasAlwaysRunSteps
ForcedSteps(scope) == Plan(scope) \cap (Checked \cup Gated) # {}

\* A full run also wants every tracked service deployed as configured.
AllTrackedDeployed(j, c, scope) ==
    scope = {} =>
        \A s \in Services : j.status[s] = "deployed" /\ j.hash[s] = ConfigHash(c, s)

\* Mutant of UpToDate: the early gate compares the services' hashes only.
UpToDateServices(j, c, scope) ==
    /\ ScopeStatus(j, scope) = "deployed"
    /\ AllTrackedDeployed(j, c, scope)
    /\ ~ForcedSteps(scope)
    /\ "failed" \notin LastRuns(j, scope)

UpToDate(j, c, scope) ==
    /\ ScopeStatus(j, scope) = "deployed"
    /\ AllTrackedDeployed(j, c, scope)
    /\ ~ForcedSteps(scope)
    /\ HashesMatch(j, c, scope)
    /\ "failed" \notin LastRuns(j, scope)

ConfigChanged(j, c, scope) ==
    ScopeStatus(j, scope) = "deployed" /\ ~HashesMatch(j, c, scope)

PrevIncomplete(j, scope) ==
    \/ ScopeStatus(j, scope) \in {"failed", "partial"}
    \/ LastRuns(j, scope) \cap {"in_progress", "failed"} # {}

\* collectMissingDeps: after: services that are neither in the run nor deployed.
MissingDeps(j, scope) ==
    {d \in UNION {After[s] : s \in scope} \ scope : j.status[d] # "deployed"}

\* Mutant of Decisions: --resume is for a run that failed, not for one that was killed.
DecisionsFailedOnly(j, c, scope, request) ==
    CASE request = "force" -> {"force"}
      [] request # "force" /\ UpToDate(j, c, scope) -> {"uptodate"}
      [] OTHER ->
            IF \/ PrevIncomplete(j, scope) /\ request # "resume"
               \/ "in_progress" \in LastRuns(j, scope)
            THEN {"refused"} ELSE {"go"}

\* The outcomes of the gates: at a prompt the user picks any of them.
Decisions(j, c, scope, request) ==
    CASE request = "force" -> {"force"}
      [] request # "force" /\ UpToDate(j, c, scope) -> {"uptodate"}
      [] request = "tty" /\ ~UpToDate(j, c, scope) ->
            IF ConfigChanged(j, c, scope) \/ PrevIncomplete(j, scope)
            THEN {"go", "force", "refused"}
            ELSE IF MissingDeps(j, scope) # {} THEN {"go", "refused"} ELSE {"go"}
      [] OTHER ->
            IF PrevIncomplete(j, scope) /\ request # "resume" THEN {"refused"} ELSE {"go"}

\* Steps journaled under another configuration are dropped from memory.
ClearStale(j, c) ==
    [j EXCEPT !.step = [st \in Steps |->
        IF j.hash[OwnerOf[st]] = ConfigHash(c, OwnerOf[st]) THEN j.step[st] ELSE NoRecord]]

\* OnPipelineStart: the project's last run is the full runs' only.
PipelineStart(j, scope) ==
    IF scope = {} THEN [j EXCEPT !.last[Project] = "in_progress"] ELSE j

Start(scope, force) ==
    /\ run' = [NoRun EXCEPT
                 !.cfg = config,
                 !.scope = scope,
                 !.force = force,
                 !.mem = PipelineStart(IF force THEN EmptyJournal
                                       ELSE ClearStale(disk, config), scope)]
    /\ pc' = "step"
    /\ settled' = IF scope = {} /\ (settled = "no" \/ force) THEN "trying"
                  ELSE IF force THEN "no" ELSE settled
    /\ UNCHANGED <<config, truth, disk, exit, done>>

Refuse(why) ==
    /\ exit' = why
    /\ UNCHANGED <<config, truth, disk, pc, run, done, settled>>

RunHelper(scope, request) ==
    /\ pc = "idle"
    /\ \E d \in Decisions(disk, config, scope, request) :
          IF d \in {"uptodate", "refused"} THEN Refuse(d) ELSE Start(scope, d = "force")

-----------------------------------------------------------------------------
(***************************************************************************)
(* The step loop: RunWithOptions and executeStepBody                       *)
(***************************************************************************)
MoreSteps == run.idx <= Len(FullPlan)

Step == FullPlan[run.idx]

Advanced == [run EXCEPT !.idx = NextPlace(run.scope, @)]

Owner == OwnerOf[Step]

AtStep == pc = "step" /\ MoreSteps

\* flush: the recorder remembers a failed write and the deploy goes on.
Flushes == {TRUE} \cup (IF "save_error" \in Env THEN {FALSE} ELSE {})

Save(j, r) ==
    \E saved \in Flushes :
        /\ disk' = IF saved THEN j ELSE disk
        /\ run' = [r EXCEPT !.mem = j, !.unsaved = @ \/ ~saved]

Record(status) ==
    [run.mem EXCEPT !.step[Step] =
        [status |-> status, action |-> ActionHash(run.cfg, Step)]]

\* Mutant of Seen: the recorder stamps every service of the run.
SeenScope == run.seen \cup (IF run.scope = {} THEN Services ELSE run.scope)

\* OnStepSkip and OnStepStart make the recorder stamp the service at the end.
Seen == IF Owner = Project THEN run.seen ELSE run.seen \cup {Owner}

WhenFalse == Step \in Conditional \ truth

\* OnStepSkip with a reason other than "state".
SkipRecorded ==
    /\ Save(Record("skipped"), [Advanced EXCEPT !.seen = Seen])
    /\ UNCHANGED <<config, truth, pc, exit, done, settled>>

SkipWhen ==
    /\ AtStep
    /\ WhenFalse
    /\ SkipRecorded

\* A condition that cannot be evaluated ends the run without a record.
WhenError ==
    /\ "when_error" \in Env
    /\ AtStep
    /\ Step \in Conditional
    /\ pc' = "abort"
    /\ settled' = "no"
    /\ UNCHANGED <<config, truth, disk, run, exit, done>>

\* makeSkipDecider: --force, a scope whose hash changed, then the journal.
JournalSkips ==
    /\ ~run.force
    /\ run.mem.hash[Owner] = ConfigHash(run.cfg, Owner)
    /\ Skippable(run.mem.step[Step], ActionHash(run.cfg, Step), Step \in Checked)

\* A missing-gate asks the files only, the others ask the journal first.
SkipsByState == ~WhenFalse /\ Step \notin Producers /\ JournalSkips

\* Mutant of SkipState: the record is overwritten with "skipped".
SkipStateRecorded ==
    /\ AtStep
    /\ SkipsByState
    /\ SkipRecorded

SkipState ==
    /\ AtStep
    /\ SkipsByState
    /\ run' = Advanced
    /\ UNCHANGED <<config, truth, disk, pc, exit, done, settled>>

ReachesGate == AtStep /\ ~WhenFalse /\ ~SkipsByState

SkipGate ==
    /\ ReachesGate
    /\ Step \in Gated
    /\ SkipRecorded

\* failGateStep: recorded without OnStepStart, and never lenient.
GateError ==
    /\ "gate_error" \in Env
    /\ ReachesGate
    /\ Step \in Gated
    /\ Save(Record("failed"), run)
    /\ pc' = "abort"
    /\ settled' = "no"
    /\ UNCHANGED <<config, truth, exit, done>>

\* Mutants of MarkInProgress: the mark stays in memory; the service is not
\* remembered for the end of the run.
MarkInMemory ==
    /\ run' = [run EXCEPT !.seen = Seen,
                          !.mem.last[Owner] = IF Owner = Project THEN @ ELSE "in_progress"]
    /\ UNCHANGED disk

MarkUnseen ==
    IF Owner = Project \/ run.mem.last[Owner] = "in_progress"
    THEN UNCHANGED <<run, disk>>
    ELSE Save([run.mem EXCEPT !.last[Owner] = "in_progress"], run)

\* OnStepStart: the first body of a service marks the service in_progress.
MarkInProgress ==
    IF Owner = Project \/ run.mem.last[Owner] = "in_progress"
    THEN run' = [run EXCEPT !.seen = Seen] /\ UNCHANGED disk
    ELSE Save([run.mem EXCEPT !.last[Owner] = "in_progress"], [run EXCEPT !.seen = Seen])

StartBody ==
    /\ ReachesGate
    /\ MarkInProgress
    /\ pc' = "body"
    /\ done' = [done EXCEPT ![Step] = Torn]
    /\ UNCHANGED <<config, truth, exit, settled>>

\* The body, the post-step hook and the check succeed.
BodyOk ==
    /\ pc = "body"
    /\ done' = [done EXCEPT ![Step] = DoneUnder(run.cfg, Step)]
    /\ Save(Record("ok"), Advanced)
    /\ pc' = "step"
    /\ UNCHANGED <<config, truth, exit, settled>>

BodyFail ==
    /\ "fail" \in Env
    /\ pc = "body"
    /\ IF Step \in Lenient
       THEN Save(Record("failed"), Advanced) /\ pc' = "step"
       ELSE Save(Record("failed"), run) /\ pc' = "abort"
    /\ settled' = "no"
    /\ UNCHANGED <<config, truth, exit, done>>

-----------------------------------------------------------------------------
(***************************************************************************)
(* The end of a run: OnPipelineFinish, the exit, clearDeployedPending      *)
(***************************************************************************)
Stamped == run.seen \cup (IF run.scope = {} THEN {Project} ELSE {})

\* Mutant of ServicePassed: a service passes once it was reached.
ServiceReached(s) == TRUE

ServicePassed(s) == ~PhaseFailed(run.mem, s)

\* Mutant of Finished: the hashes are of the configuration at the end.
FinishedRehashed(success) ==
    Recompute([run.mem EXCEPT
        !.hash = [s \in Scopes |->
            IF s \in Stamped THEN ConfigHash(config, s) ELSE @[s]],
        !.last = [s \in Scopes |->
            IF s \notin Stamped THEN @[s]
            ELSE IF (s = Project /\ success) \/ (s # Project /\ ServicePassed(s))
                 THEN "ok" ELSE "failed"],
        !.status = [s \in Scopes |->
            IF s \notin run.seen THEN @[s]
            ELSE IF ServicePassed(s) THEN "deployed" ELSE "failed"]])

Finished(success) ==
    Recompute([run.mem EXCEPT
        !.hash = [s \in Scopes |->
            IF s \in Stamped THEN ConfigHash(run.cfg, s) ELSE @[s]],
        !.last = [s \in Scopes |->
            IF s \notin Stamped THEN @[s]
            ELSE IF (s = Project /\ success) \/ (s # Project /\ ServicePassed(s))
                 THEN "ok" ELSE "failed"],
        !.status = [s \in Scopes |->
            IF s \notin run.seen THEN @[s]
            ELSE IF ServicePassed(s) THEN "deployed" ELSE "failed"]])

\* Mutant of Finish: nobody asks the recorder for its error.
FinishUnasked(success) ==
    \E saved \in Flushes :
        /\ disk' = IF saved THEN Finished(success) ELSE disk
        /\ exit' = IF success THEN "ok" ELSE "failed"
        /\ pc' = IF success THEN "clear" ELSE "idle"
        /\ run' = IF success THEN [NoRun EXCEPT !.scope = run.scope,
                                               !.cfg = run.cfg] ELSE NoRun
        /\ settled' = IF settled # "trying" THEN settled ELSE IF success THEN "yes" ELSE "no"
        /\ UNCHANGED <<config, truth, done>>

Finish(success) ==
    \E saved \in Flushes :
        LET ok == success /\ saved /\ ~run.unsaved
        IN  /\ disk' = IF saved THEN Finished(success) ELSE disk
            /\ exit' = IF ok THEN "ok" ELSE IF success THEN "unsaved" ELSE "failed"
            /\ pc' = IF ok THEN "clear" ELSE "idle"
            /\ run' = IF ok THEN [NoRun EXCEPT !.scope = run.scope,
                                               !.cfg = run.cfg] ELSE NoRun
            /\ settled' = IF settled # "trying" THEN settled ELSE IF ok THEN "yes" ELSE "no"
            /\ UNCHANGED <<config, truth, done>>

\* Mutant of PipelineFinish: an aborted pipeline is finished as a success.
PipelineFinishDeferred ==
    /\ (pc = "step" /\ ~MoreSteps) \/ pc = "abort"
    /\ Finish(TRUE)

PipelineFinish ==
    \/ pc = "step" /\ ~MoreSteps /\ Finish(TRUE)
    \/ pc = "abort" /\ Finish(FALSE)

\* clearDeployedPending loads the journal again; a failed write only warns.
ClearDeployedPending ==
    /\ pc = "clear"
    /\ \/ disk' = ClearPendingServices(disk,
                     IF run.scope = {} THEN {OwnerOf[st] : st \in Steps} ELSE run.scope)
       \/ "save_error" \in Env /\ UNCHANGED disk
    /\ pc' = "idle"
    /\ run' = NoRun
    /\ UNCHANGED <<config, truth, exit, done, settled>>

-----------------------------------------------------------------------------
(***************************************************************************)
(* The environment, and the other commands on the journal                  *)
(***************************************************************************)
Crash ==
    /\ "crash" \in Env
    /\ pc # "idle"
    /\ pc = "reset" => "torn_reset" \in Env
    /\ pc' = "idle"
    /\ run' = NoRun
    /\ exit' = "none"
    /\ settled' = "no"
    /\ UNCHANGED <<config, truth, disk, done>>

Edit ==
    /\ \E p \in Editable, v \in Versions :
          config[p] # v /\ config' = [config EXCEPT ![p] = v]
    /\ settled' = "no"
    /\ UNCHANGED <<truth, disk, pc, run, exit, done>>

ConditionChange ==
    /\ "condition" \in Env
    /\ \E st \in Conditional :
          truth' = IF st \in truth THEN truth \ {st} ELSE truth \cup {st}
    /\ settled' = "no"
    /\ UNCHANGED <<config, disk, pc, run, exit, done>>

\* `dwe deploy state repair`
StateRepair ==
    /\ "repair" \in Env
    /\ pc = "idle"
    /\ disk # EmptyJournal
    /\ disk' = Recompute(disk)
    /\ settled' = "no"
    /\ UNCHANGED <<config, truth, pc, run, exit, done>>

\* `dwe deploy state clear`
StateClear ==
    /\ "clear" \in Env
    /\ pc = "idle"
    /\ disk' = EmptyJournal
    /\ settled' = "no"
    /\ UNCHANGED <<config, truth, pc, run, exit, done>>

\* The pipeline of `dwe reset run`, for the project or one service, undoes
\* what the deploy did.  The journal comes last.
ResetBegin(scope) ==
    /\ "reset" \in Env
    /\ pc = "idle"
    /\ pc' = "reset"
    /\ run' = [NoRun EXCEPT !.scope = scope]
    /\ done' = [st \in Steps |->
                  IF scope = {} \/ OwnerOf[st] \in scope THEN Never ELSE done[st]]
    /\ settled' = "no"
    /\ UNCHANGED <<config, truth, disk, exit>>

ResetFinish ==
    /\ pc = "reset"
    /\ disk' = IF run.scope = {} THEN EmptyJournal
               ELSE ReplaceServiceWithPending(disk, CHOOSE s \in run.scope : TRUE)
    /\ pc' = "idle"
    /\ run' = NoRun
    /\ UNCHANGED <<config, truth, exit, done, settled>>

\* A later step of the reset fails, or the write of the journal does.
ResetFail ==
    /\ "torn_reset" \in Env
    /\ pc = "reset"
    /\ pc' = "idle"
    /\ run' = NoRun
    /\ UNCHANGED <<config, truth, disk, exit, done, settled>>

ResetOutcomes == {TRUE} \cup (IF "torn_reset" \in Env THEN {FALSE} ELSE {})

ResetEnds == \E recorded \in ResetOutcomes : IF recorded THEN ResetFinish ELSE ResetFail

-----------------------------------------------------------------------------
RequestsMade == IF "force" \in Env THEN Requests ELSE Requests \ {"force", "tty"}

\* What a running command does when nothing goes wrong.
Progress ==
    \/ SkipWhen
    \/ SkipState
    \/ SkipGate
    \/ StartBody
    \/ BodyOk
    \/ PipelineFinish
    \/ ClearDeployedPending
    \/ ResetEnds

Mishap ==
    \/ WhenError
    \/ GateError
    \/ BodyFail
    \/ Crash
    \/ Edit
    \/ ConditionChange
    \/ StateRepair
    \/ StateClear
    \/ ResetBegin({})
    \/ \E s \in Services : ResetBegin({s})

Next ==
    \/ \E scope \in RunScopes, request \in RequestsMade : RunHelper(scope, request)
    \/ Progress
    \/ Mishap

Spec == Init /\ [][Next]_vars

(***************************************************************************)
(* Fairness, for what a resumed deploy reaches: the process of a deploy    *)
(* goes on, which supposes that the bodies of the steps end, and somebody  *)
(* calls `dwe deploy run --resume` whenever no deploy runs.                *)
(***************************************************************************)
FairSpec == Spec /\ WF_vars(Progress) /\ WF_vars(RunHelper({}, "resume"))

-----------------------------------------------------------------------------
(***************************************************************************)
(* Properties                                                              *)
(***************************************************************************)
\* The early gate of a service run answers for the services' own steps.
InScope(scope) == IF scope = {} THEN Steps ELSE UNION {StepsOf(s) : s \in scope}

\* The step's body ran to its end under the configuration c and no other
\* execution of it began since.
Effective(c, st) == done[st] = DoneUnder(c, st)

(* hashing.md:103, "a changed service config cannot lead to skips": a step  *)
(* skipped for its journal record has done its work as now configured.      *)
SkipSound ==
    AtStep /\ SkipsByState => Effective(run.cfg, Step)

(* reset.go:280, a journal that says deployed after the services were torn  *)
(* down "would allow dwe run to pass its gate", and deploy.go:724 likewise: *)
(* "already up-to-date" is true: when the early gate would answer so, every *)
(* step of the run's scope is done as now configured or was skipped by a    *)
(* condition.                                                               *)
UpToDateSound ==
    pc = "idle" =>
        \A scope \in RunScopes :
            UpToDate(disk, config, scope) =>
                \A st \in InScope(scope) \ Lenient :
                    disk.step[st].status = "skipped" \/ Effective(config, st)

(* A service the journal calls deployed, with a finished last run, has all  *)
(* its steps done under the hash it is journaled with; a reset, which undoes *)
(* the steps first, excepted until it ends.                                 *)
DeployedMeansDone ==
    pc # "reset" =>
        \A st \in Steps \ Lenient :
            LET s == OwnerOf[st]
            IN  s # Project /\ disk.status[s] = "deployed" /\ disk.last[s] = "ok" =>
                    \/ disk.step[st].status = "skipped"
                    \/ done[st] = [state |-> "done", under |-> disk.hash[s]]

(* Exit code 0 is a promise: every step of the plan is done or skipped for  *)
(* a reason other than the journal, and the file on disk says so.           *)
OkMeansDeployed ==
    pc = "clear" =>
        \A st \in Plan(run.scope) \ Lenient :
            \/ disk.step[st].status = "skipped"
            \/ disk.step[st].status = "ok" /\ Effective(run.cfg, st)

(* A crash inside a service's step is visible to the next run: while the    *)
(* body runs, the service's last run is in_progress on disk.                *)
ServiceCrashVisible ==
    pc = "body" /\ Owner # Project => disk.last[Owner] = "in_progress"

(* Whatever the journal is believed in is true: what a step is skipped for, *)
(* what the early gate answers, what exit code 0 says, and that a service's *)
(* last run came to its end.                                                *)
JournalSound ==
    /\ SkipSound
    /\ UpToDateSound
    /\ OkMeansDeployed
    /\ ServiceCrashVisible

(* Deploying again changes nothing: when nothing happened since the last    *)
(* successful full deploy, no body runs but those of the steps the journal  *)
(* never answers for.                                                       *)
Idempotent ==
    pc = "body" /\ settled = "yes" => Step \in Checked \cup Gated

(* The project and every step's record at their good end.                   *)
Deployed ==
    /\ disk.status[Project] = "deployed"
    /\ \A st \in Steps : disk.step[st].status \in {"ok", "skipped"}

(* deploy.go:761, failed and partial runs are there to be resumed: once     *)
(* failures, edits, resets, repairs and --force stop, `--resume` leads to a *)
(* deployed project, and no gate refuses for ever.  This is about runs that *)
(* end by themselves and write their journal.  It fails with kills or       *)
(* failed writes: see ResumePicksUp.                                        *)
Resumes == <>[][~Mishap /\ ~run'.force]_vars => <>[]Deployed

(* state-and-locks.md:117, after a kill "`dwe deploy run --resume` picks up *)
(* at the first non-`ok` step": when the kills, failures and failed writes  *)
(* stop, every step comes to a good record, every service has been taken    *)
(* through its end, and the command ends well again and again.  It does not *)
(* say that the services are deployed: one whose last step was journaled    *)
(* when the run was killed, or its last write failed, stays `failed`,       *)
(* because all its steps are skipped (file_recorder.go:248).                *)
ResumePicksUp ==
    <>[][~Mishap]_vars /\ <>[](~run.unsaved /\ exit # "unsaved") =>
        /\ <>[]( /\ \A st \in Steps : disk.step[st].status \in {"ok", "skipped"}
                 /\ \A s \in Services : disk.status[s] \in {"deployed", "failed"})
        /\ []<>(exit \in {"ok", "uptodate"})
=============================================================================
