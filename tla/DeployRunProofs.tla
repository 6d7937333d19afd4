--------------------------- MODULE DeployRunProofs ---------------------------
(***************************************************************************)
(* Proofs about a deploy run, for any plan, services, configurations and   *)
(* kinds of steps.                                                         *)
(***************************************************************************)
EXTENDS DeployRun, WellFoundedInduction, TLAPS

Places == 1..Len(FullPlan)

Deploying == pc \in {"step", "body", "abort"}

-----------------------------------------------------------------------------
(* What holds of every run.                                                *)

\* A record of this run is of a service that will be stamped, the others were
\* kept for their configuration.
StampInv ==
    Deploying =>
        \A st \in Steps :
            \/ run.mem.step[st].status # "ok"
            \/ run.mem.hash[OwnerOf[st]] = ConfigHash(run.cfg, OwnerOf[st])
            \/ OwnerOf[st] \in run.seen \cup {Project}

RunInv ==
    /\ Deploying => /\ run.cfg \in Configs /\ run.scope \in RunScopes
                    /\ run.force => "force" \in Env
    /\ pc = "body" => MoreSteps /\ Owner \in run.seen \cup {Project}
    /\ pc = "reset" => run.scope = {} \/ \E s \in Services : run.scope = {s}

-----------------------------------------------------------------------------
(* Deploying again.                                                        *)

\* The journal j answers for the step, or is not asked.
Answered(j, st) ==
    \/ st \in Checked \cup Gated \cup (Conditional \ truth)
    \/ /\ j.hash[OwnerOf[st]] = ConfigHash(config, OwnerOf[st])
       /\ Skippable(j.step[st], ActionHash(config, st), FALSE)

\* Likewise once the run has ended well.
WillAnswer(st) ==
    \/ st \in Checked \cup Gated \cup (Conditional \ truth)
    \/ Skippable(run.mem.step[st], ActionHash(config, st), FALSE)

SettledInv ==
    settled = "yes" =>
        /\ pc # "reset"
        /\ \A st \in Steps : Answered(disk, st)
        /\ Deploying => /\ run.cfg = config /\ ~run.force
                        /\ \A st \in Steps : Answered(run.mem, st)
        /\ pc = "body" => Step \in Checked \cup Gated

TryingInv ==
    settled = "trying" =>
        /\ pc \in {"step", "body"}
        /\ run.scope = {} /\ run.cfg = config
        /\ \A k \in Places : k < run.idx => WillAnswer(FullPlan[k])

AgainInv == TypeOK /\ StampInv /\ RunInv /\ SettledInv /\ TryingInv

-----------------------------------------------------------------------------
(* Exit code 0.                                                            *)

\* The file can be left behind by a crash or a failed write.
LeftBehind == Env \cap {"crash", "save_error"} # {}

(* Where the journal can be believed: a reset ends, nobody forces a run     *)
(* that can leave the file behind, and the configuration changes only where *)
(* every run is a full one and ends with its journal written.               *)
Orderly ==
    /\ "torn_reset" \notin Env
    /\ "force" \in Env => ~LeftBehind
    /\ Editable # {} => ~LeftBehind /\ "service_run" \notin Env

\* A record the next run will believe.
Believed(st) ==
    /\ st \notin Checked \cup Producers
    /\ disk.step[st].status = "ok"
    /\ Editable = {} => disk.hash[OwnerOf[st]] = ConfigHash(config, OwnerOf[st])

BeingReset(st) == pc = "reset" /\ (run.scope = {} \/ OwnerOf[st] \in run.scope)

DiskInv ==
    LeftBehind \/ ~Deploying =>
        \A st \in Steps :
            Believed(st) /\ ~BeingReset(st) =>
                done[st] = [state |-> "done", under |-> disk.hash[OwnerOf[st]]]

MemInv ==
    Deploying =>
        \A st \in Steps \ (Checked \cup Producers) :
            run.mem.step[st].status = "ok" /\ ~(pc = "body" /\ st = Step) =>
                Effective(run.cfg, st)

\* Without edits a successful record has the action of today.
ActionInv ==
    Editable = {} =>
        /\ Deploying => run.cfg = config
        /\ \A st \in Steps :
              /\ disk.step[st].status = "ok" => disk.step[st].action = ActionHash(config, st)
              /\ Deploying /\ run.mem.step[st].status = "ok" =>
                    run.mem.step[st].action = ActionHash(config, st)

\* What the run has not come to is in the file as the run has it.
AheadInv ==
    LeftBehind /\ Deploying =>
        /\ run.mem.hash = disk.hash
        /\ pc # "abort" =>
              \A k \in Places :
                LET st == FullPlan[k]
                IN  k >= run.idx
                    /\ run.mem.hash[OwnerOf[st]] = ConfigHash(run.cfg, OwnerOf[st]) =>
                        run.mem.step[st] = disk.step[st]

PassedInv ==
    pc \in {"step", "body"} =>
        \A k \in Places :
            LET st == FullPlan[k]
            IN  k < run.idx /\ st \in Plan(run.scope) \ Lenient =>
                    \/ run.mem.step[st].status = "skipped"
                    \/ run.mem.step[st].status = "ok" /\ Effective(run.cfg, st)

OkInv ==
    /\ TypeOK /\ StampInv /\ RunInv
    /\ DiskInv /\ MemInv /\ ActionInv /\ AheadInv /\ PassedInv
    /\ OkMeansDeployed

-----------------------------------------------------------------------------
(* A crash in a service's step.                                            *)

MarkInv ==
    pc \in {"step", "body"} =>
        /\ \A s \in Services :
              run.mem.last[s] = "in_progress" => disk.last[s] = "in_progress"
        /\ pc = "body" /\ Owner # Project => run.mem.last[Owner] = "in_progress"

CrashInv == TypeOK /\ StampInv /\ RunInv /\ MarkInv

-----------------------------------------------------------------------------
(* A journal that full runs write, each to its end.                        *)

(* Where every deploy is a full one that comes to its end and can write its *)
(* journal, its conditions and gates can be evaluated, and a reset ends.    *)
FullRunsOnly == Env \subseteq {"fail", "force", "reset", "clear", "repair", "condition"}

\* The project's last run came to its end; before it nothing is deployed.
LastOf(j) ==
    /\ j.last[Project] \in {"none", "ok", "failed"}
    /\ j.last[Project] = "none" => \A s \in Scopes : j.status[s] \notin {"deployed", "partial"}

\* After a run that ended well, the services not reset since are whole.
Whole(j) ==
    j.last[Project] = "ok" =>
        \A st \in Steps \ Lenient :
            OwnerOf[st] = Project \/ j.status[OwnerOf[st]] = "deployed" =>
                j.step[st].status \in {"skipped", "ok"}

FullInv == ~Deploying => LastOf(disk) /\ Whole(disk)

-----------------------------------------------------------------------------
(* What the journal says of a service.                                     *)

(* Where the configuration stays as it is, and a run that stops early has a *)
(* failed step on record.                                                   *)
EndsRecorded ==
    /\ Orderly
    /\ Editable = {}
    /\ Env \cap {"gate_error", "when_error", "save_error"} = {}

Says(j, s) == j.status[s] = "deployed" /\ j.last[s] = "ok"

\* The step is as the journal j says of its service.
AsSaid(j, st) ==
    Says(j, OwnerOf[st]) =>
        \/ j.step[st].status = "skipped"
        \/ done[st] = [state |-> "done", under |-> j.hash[OwnerOf[st]]]

OfServices == {st \in Steps \ Lenient : OwnerOf[st] # Project}

SaidInv ==
    /\ \A st \in OfServices : BeingReset(st) \/ AsSaid(disk, st)
    /\ Deploying => \A st \in OfServices : AsSaid(run.mem, st)

\* A service is deployed under the configuration there is.
HashedInv ==
    \A s \in Services :
        /\ disk.status[s] = "deployed" => disk.hash[s] = ConfigHash(config, s)
        /\ Deploying /\ run.mem.status[s] = "deployed" =>
              run.mem.hash[s] = ConfigHash(config, s)

\* The services to be stamped are of the run, which has come to them.
SeenInv ==
    Deploying =>
        /\ MoreSteps => Step \in Plan(run.scope)
        /\ \A s \in run.seen :
              \E k \in Places : /\ k <= run.idx /\ OwnerOf[FullPlan[k]] = s
                                /\ FullPlan[k] \in Plan(run.scope)

\* A run stops early at a failed step, and what is before it is passed.
AbortInv ==
    pc = "abort" =>
        /\ MoreSteps /\ run.mem.step[Step].status = "failed"
        /\ \A k \in Places :
              LET st == FullPlan[k]
              IN  k < run.idx /\ st \in Plan(run.scope) \ Lenient =>
                      \/ run.mem.step[st].status = "skipped"
                      \/ run.mem.step[st].status = "ok" /\ Effective(run.cfg, st)

SaidAll == CrashInv /\ ActionInv /\ PassedInv /\ HashedInv /\ SeenInv /\ AbortInv /\ SaidInv

-----------------------------------------------------------------------------
(* "Already up-to-date" with kills.                                        *)

(* Where a full run always has something to ask, so that the gate answers   *)
(* for services only, and a step stays skipped by its condition.            *)
NeverQuiet ==
    /\ EndsRecorded
    /\ "condition" \notin Env
    /\ Steps \cap (Checked \cup Gated) # {}

\* The steps of services that the journal alone answers for.
Trusted == OfServices \ (Checked \cup Gated)

\* A deployed service has a record of every step, and a service that is
\* journaled under today's configuration has a status.
Known(j) ==
    /\ \A st \in Trusted :
          /\ j.status[OwnerOf[st]] = "deployed" => j.step[st].status \in {"ok", "skipped"}
          /\ j.step[st].status = "skipped" => st \in Conditional \ truth
    /\ \A s \in Services :
          j.hash[s] = ConfigHash(config, s) => j.status[s] \in {"deployed", "failed"}

\* No body of such a step runs while its service is deployed.
KnownInv ==
    /\ Known(disk)
    /\ Deploying => Known(run.mem)
    /\ Deploying /\ run.force => \A s \in Services : run.mem.status[s] # "deployed"
    /\ pc = "body" /\ Step \in Trusted => run.mem.status[Owner] # "deployed"

-----------------------------------------------------------------------------
(* The operators of the model.                                             *)

LEMMA MinIsLeast ==
    ASSUME NEW S \in SUBSET Nat, S # {}
    PROVE  Min(S) \in S /\ \A y \in S : Min(S) <= y
PROOF
  <1>1. PICK x \in S : \A y \in S : ~ (<<y, x>> \in OpToRel(<, Nat))
    BY NatLessThanWellFounded, WFMin
  <1>2. ASSUME NEW y \in S, y < x PROVE FALSE
    <2>1. <<y, x>> \in OpToRel(<, Nat)
      BY <1>2, Zenon DEF OpToRel
    <2> QED
      BY <1>1, <2>1
  <1>3. \A y \in S : x <= y
    BY <1>2
  <1> QED
    BY <1>3 DEF Min

\* The next place of a run is ahead, and what is between is not of the run.
LEMMA NextPlaceIsNext ==
    ASSUME NEW scope, NEW i \in Places
    PROVE  /\ NextPlace(scope, i) \in Places \cup {Len(FullPlan) + 1}
           /\ i < NextPlace(scope, i)
           /\ NextPlace(scope, i) \in Places => FullPlan[NextPlace(scope, i)] \in Plan(scope)
           /\ \A k \in Places : i < k /\ FullPlan[k] \in Plan(scope) =>
                 NextPlace(scope, i) <= k
PROOF
  <1>1. Len(FullPlan) \in Nat
    BY DeployAssumption
  <1> DEFINE later == {k \in i + 1 .. Len(FullPlan) : FullPlan[k] \in Plan(scope)}
  <1>2. CASE later = {}
    BY <1>1, <1>2 DEF NextPlace, Places
  <1>3. CASE later # {}
    <2>1. later \in SUBSET Nat
      BY <1>1 DEF Places
    <2>2. Min(later) \in later /\ \A y \in later : Min(later) <= y
      BY <2>1, <1>3, MinIsLeast
    <2> QED
      BY <1>1, <1>3, <2>2 DEF NextPlace, Places
  <1> QED
    BY <1>2, <1>3

LEMMA PlanFacts ==
    /\ Len(FullPlan) \in Nat \ {0} /\ Places \subseteq Nat
    /\ Steps = {FullPlan[k] : k \in Places}
    /\ \A k, l \in Places : FullPlan[k] = FullPlan[l] => k = l
    /\ OwnerOf \in [Steps -> Scopes]
    /\ Project \in Scopes /\ Project \notin Services /\ Services \subseteq Scopes
    /\ EnvStep \in Steps /\ OwnerOf[EnvStep] = Project
PROOF
  <1>1. FullPlan \in Seq(Steps) /\ FullPlan # <<>> /\ Steps = ToSet(FullPlan)
    BY DeployAssumption
  <1>2. Len(FullPlan) \in Nat \ {0} /\ DOMAIN FullPlan = Places
    BY <1>1 DEF Places
  <1>3. Steps = {FullPlan[k] : k \in Places}
    BY <1>1, <1>2 DEF ToSet
  <1>4. EnvStep \in Steps
    BY <1>3, <1>2, DeployAssumption DEF Places
  <1>5. \A k, l \in Places : FullPlan[k] = FullPlan[l] => k = l
    BY DeployAssumption DEF Places
  <1> QED
    BY <1>2, <1>3, <1>4, <1>5, JournalAssumption, DeployAssumption DEF Scopes, Places

LEMMA HashTypes ==
    /\ NoHash \in Hashes
    /\ \A c \in Configs, s \in Scopes : ConfigHash(c, s) \in Hashes
    /\ \A c \in Configs, st \in Steps : ActionHash(c, st) \in Hashes
PROOF
  <1>1. \A st \in Steps : OwnerOf[st] \in Scopes
    BY PlanFacts
  <1> QED
    BY <1>1 DEF Hashes, ActionHash

LEMMA EmptyType == EmptyJournal \in Journals
BY HashTypes DEF EmptyJournal, Journals, ScopeStatuses, RunStatuses, Records, StepStatuses,
   NoRecord, NoPending

LEMMA RecomputeKeeps ==
    ASSUME NEW j \in Journals
    PROVE  /\ Recompute(j) \in Journals
           /\ Recompute(j).step = j.step
           /\ Recompute(j).hash = j.hash
           /\ Recompute(j).pending = j.pending
PROOF
  <1>1. ProjectStatus(j) \in ScopeStatuses
    BY DEF ProjectStatus, ScopeStatuses
  <1>2. [s \in Scopes |-> IF j.last[s] = "in_progress" THEN "failed" ELSE j.last[s]]
            \in [Scopes -> RunStatuses]
    BY DEF Journals, RunStatuses
  <1> QED
    BY <1>1, <1>2 DEF Recompute, Journals

LEMMA ClearStaleKeeps ==
    ASSUME NEW j \in Journals, NEW c \in Configs
    PROVE  /\ ClearStale(j, c) \in Journals
           /\ ClearStale(j, c).hash = j.hash
           /\ ClearStale(j, c).last = j.last
           /\ ClearStale(j, c).status = j.status
           /\ \A st \in Steps : ClearStale(j, c).step[st] =
                 IF j.hash[OwnerOf[st]] = ConfigHash(c, OwnerOf[st])
                 THEN j.step[st] ELSE NoRecord
PROOF
  <1>1. NoRecord \in Records
    BY HashTypes DEF NoRecord, Records, StepStatuses
  <1> QED
    BY <1>1 DEF ClearStale, Journals

LEMMA PipelineStartKeeps ==
    ASSUME NEW j \in Journals, NEW scope
    PROVE  /\ PipelineStart(j, scope) \in Journals
           /\ PipelineStart(j, scope).hash = j.hash
           /\ PipelineStart(j, scope).step = j.step
           /\ PipelineStart(j, scope).status = j.status
           /\ \A s \in Services : PipelineStart(j, scope).last[s] = j.last[s]
BY PlanFacts DEF PipelineStart, Journals, RunStatuses

LEMMA ReplaceKeeps ==
    ASSUME NEW j \in Journals, NEW s \in Services
    PROVE  LET r == ReplaceServiceWithPending(j, s)
           IN  /\ r \in Journals
               /\ \A st \in Steps : r.step[st].status = "ok" =>
                     /\ OwnerOf[st] # s
                     /\ r.step[st] = j.step[st]
                     /\ r.hash[OwnerOf[st]] = j.hash[OwnerOf[st]]
PROOF
  <1> DEFINE f == ForgetService(j, s)
  <1>1. NoRecord \in Records /\ NoRecord.status # "ok"
    BY HashTypes DEF NoRecord, Records, StepStatuses
  <1>2. /\ f \in Journals
        /\ \A st \in Steps : f.step[st] = IF OwnerOf[st] = s THEN NoRecord ELSE j.step[st]
        /\ \A t \in Scopes : t # s => f.hash[t] = j.hash[t]
    BY <1>1, HashTypes, PlanFacts DEF ForgetService, Journals, ScopeStatuses, RunStatuses
  <1>3. /\ Recompute(f) \in Journals
        /\ Recompute(f).step = f.step /\ Recompute(f).hash = f.hash
    BY <1>2, RecomputeKeeps
  <1> DEFINE e == [EmptyJournal EXCEPT !.pending = j.pending]
  <1>4. e \in Journals /\ \A st \in Steps : e.step[st].status # "ok"
    BY EmptyType, <1>1 DEF Journals, EmptyJournal
  <1>5. \A k \in Journals : LET a == AddPending(k, FALSE, {s})
                            IN a \in Journals /\ a.step = k.step /\ a.hash = k.hash
    BY DEF AddPending, Journals
  <1>6. \E k \in {e, Recompute(f)} :
            ReplaceServiceWithPending(j, s) = AddPending(k, FALSE, {s})
    BY DEF ReplaceServiceWithPending
  <1>7. PICK k \in {e, Recompute(f)} :
            ReplaceServiceWithPending(j, s) = AddPending(k, FALSE, {s})
    BY <1>6
  <1> DEFINE r == ReplaceServiceWithPending(j, s)
  <1>8. r \in Journals /\ r.step = k.step /\ r.hash = k.hash
    BY <1>3, <1>4, <1>5, <1>7
  <1> HIDE DEF f, e, r
  <1>9. \A st \in Steps : k.step[st].status = "ok" =>
            OwnerOf[st] # s /\ k.step[st] = j.step[st] /\ k.hash[OwnerOf[st]] = j.hash[OwnerOf[st]]
    <2>1. CASE k = e
      BY <2>1, <1>4
    <2>2. CASE k = Recompute(f)
      BY <2>2, <1>1, <1>2, <1>3, PlanFacts
    <2> QED
      BY <2>1, <2>2
  <1>10. \A st \in Steps : r.step[st].status = "ok" =>
            OwnerOf[st] # s /\ r.step[st] = j.step[st] /\ r.hash[OwnerOf[st]] = j.hash[OwnerOf[st]]
    BY <1>8, <1>9
  <1> QED
    BY <1>8, <1>10 DEF r

-----------------------------------------------------------------------------
(* What the actions do.                                                    *)

\* The step's record in the run's journal, and in the file or not.
Written(status) ==
    /\ run'.mem.hash = run.mem.hash
    /\ run'.mem.last = run.mem.last
    /\ run'.mem.status = run.mem.status
    /\ \A st \in Steps : run'.mem.step[st] =
          IF st = Step THEN [status |-> status, action |-> ActionHash(run.cfg, Step)]
          ELSE run.mem.step[st]
    /\ disk' = run'.mem \/ ("save_error" \in Env /\ disk' = disk)

SameRun ==
    /\ run'.cfg = run.cfg
    /\ run'.scope = run.scope
    /\ run'.force = run.force

GoesOn == run'.idx = NextPlace(run.scope, run.idx)

LEMMA StepFacts ==
    ASSUME TypeOK, MoreSteps
    PROVE  /\ run.idx \in Places
           /\ Step \in Steps /\ Owner \in Scopes
           /\ Owner # Project => Owner \in Services
           /\ Seen \subseteq Services
           /\ Seen = run.seen \/ Seen = run.seen \cup {Owner}
           /\ Owner \in Seen \cup {Project}
PROOF
  <1>1. run.idx \in Places
    BY PlanFacts DEF TypeOK, Runs, MoreSteps, Places
  <1>2. Step \in Steps /\ Owner \in Scopes
    BY <1>1, PlanFacts DEF Step, Owner
  <1>3. Owner # Project => Owner \in Services
    BY <1>2 DEF Scopes
  <1>4. run.seen \subseteq Services
    BY DEF TypeOK, Runs
  <1> QED
    BY <1>1, <1>2, <1>3, <1>4 DEF Seen

LEMMA RecordKeeps ==
    ASSUME TypeOK, MoreSteps, run.cfg \in Configs, NEW status \in StepStatuses
    PROVE  LET j == Record(status)
           IN  /\ j \in Journals
               /\ j.hash = run.mem.hash
               /\ j.last = run.mem.last
               /\ j.status = run.mem.status
               /\ \A st \in Steps : j.step[st] =
                     IF st = Step
                     THEN [status |-> status, action |-> ActionHash(run.cfg, Step)]
                     ELSE run.mem.step[st]
PROOF
  <1>1. Step \in Steps /\ run.mem \in Journals
    BY StepFacts DEF TypeOK, Runs
  <1>2. [status |-> status, action |-> ActionHash(run.cfg, Step)] \in Records
    BY <1>1, HashTypes DEF Records
  <1> QED
    BY <1>1, <1>2 DEF Record, Journals

LEMMA AdvancedIs ==
    ASSUME TypeOK, MoreSteps
    PROVE  /\ Advanced \in Runs
           /\ Advanced = [run EXCEPT !.idx = NextPlace(run.scope, run.idx)]
           /\ [Advanced EXCEPT !.seen = Seen] \in Runs
PROOF
  <1>1. run \in Runs
    BY DEF TypeOK
  <1>2. NextPlace(run.scope, run.idx) \in 1..(Len(FullPlan) + 1)
    BY StepFacts, NextPlaceIsNext, PlanFacts DEF Places
  <1>3. Advanced = [run EXCEPT !.idx = NextPlace(run.scope, run.idx)]
    BY <1>1 DEF Advanced, Runs
  <1>4. Seen \subseteq Services
    BY StepFacts
  <1> QED
    BY <1>1, <1>2, <1>3, <1>4 DEF Runs

LEMMA SaveIs ==
    ASSUME TypeOK, NEW j \in Journals, NEW r \in Runs, Save(j, r)
    PROVE  /\ run' \in Runs /\ disk' \in Journals
           /\ run'.mem = j
           /\ disk' = j \/ ("save_error" \in Env /\ disk' = disk)
           /\ run'.cfg = r.cfg /\ run'.scope = r.scope /\ run'.force = r.force
           /\ run'.idx = r.idx /\ run'.seen = r.seen
PROOF
  <1>1. PICK saved \in Flushes :
            /\ disk' = IF saved THEN j ELSE disk
            /\ run' = [r EXCEPT !.mem = j, !.unsaved = @ \/ ~saved]
    BY DEF Save
  <1>2. saved \/ "save_error" \in Env
    BY DEF Flushes
  <1>3. (r.unsaved \/ ~saved) \in BOOLEAN
    OBVIOUS
  <1> QED
    BY <1>1, <1>2, <1>3 DEF Runs, TypeOK

LEMMA SkipRecordedIs ==
    ASSUME TypeOK, MoreSteps, run.cfg \in Configs, SkipRecorded
    PROVE  /\ run' \in Runs /\ disk' \in Journals
           /\ SameRun /\ GoesOn /\ Written("skipped")
           /\ run'.seen = Seen
           /\ UNCHANGED <<config, truth, pc, exit, done, settled>>
PROOF
  <1> DEFINE r == [Advanced EXCEPT !.seen = Seen]
  <1>1. Record("skipped") \in Journals
    BY RecordKeeps DEF StepStatuses
  <1>2. /\ r \in Runs /\ r.seen = Seen
        /\ r.cfg = run.cfg /\ r.scope = run.scope /\ r.force = run.force
        /\ r.idx = NextPlace(run.scope, run.idx)
    BY AdvancedIs DEF Runs, TypeOK
  <1>3. Save(Record("skipped"), r)
    BY DEF SkipRecorded
  <1> HIDE DEF r
  <1> QED
    BY <1>1, <1>2, <1>3, SaveIs, RecordKeeps DEF SkipRecorded, SameRun, GoesOn, Written,
       StepStatuses

LEMMA SkipStateIs ==
    ASSUME TypeOK, SkipState
    PROVE  /\ run' \in Runs
           /\ SameRun /\ GoesOn
           /\ run'.mem = run.mem /\ run'.seen = run.seen
           /\ UNCHANGED <<config, truth, disk, pc, exit, done, settled>>
BY AdvancedIs DEF SkipState, AtStep, SameRun, GoesOn, Runs, TypeOK

LEMMA GateErrorIs ==
    ASSUME TypeOK, RunInv, GateError
    PROVE  /\ run' \in Runs /\ disk' \in Journals
           /\ SameRun /\ Written("failed")
           /\ run'.seen = run.seen
           /\ pc' = "abort" /\ settled' = "no"
           /\ UNCHANGED <<config, truth, exit, done>>
PROOF
  <1>1. MoreSteps /\ run.cfg \in Configs /\ run \in Runs /\ "failed" \in StepStatuses
    BY DEF GateError, ReachesGate, AtStep, RunInv, Deploying, TypeOK, StepStatuses
  <1> QED
    BY <1>1, RecordKeeps, SaveIs DEF GateError, SameRun, Written

LEMMA StartBodyIs ==
    ASSUME TypeOK, StartBody
    PROVE  /\ run' \in Runs /\ disk' \in Journals
           /\ SameRun /\ run'.idx = run.idx
           /\ run'.seen = Seen
           /\ run'.mem.hash = run.mem.hash /\ run'.mem.step = run.mem.step
           /\ run'.mem.status = run.mem.status
           /\ IF Owner = Project \/ run.mem.last[Owner] = "in_progress"
              THEN disk' = disk /\ run'.mem = run.mem
              ELSE /\ disk' = run'.mem \/ ("save_error" \in Env /\ disk' = disk)
                   /\ run'.mem.last = [run.mem.last EXCEPT ![Owner] = "in_progress"]
           /\ pc' = "body" /\ done' = [done EXCEPT ![Step] = Torn]
           /\ UNCHANGED <<config, truth, exit, settled>>
PROOF
  <1>1. MoreSteps /\ Step \in Steps /\ Owner \in Scopes /\ Seen \subseteq Services
    BY StepFacts DEF StartBody, ReachesGate, AtStep
  <1>2. run \in Runs /\ disk \in Journals
    BY DEF TypeOK
  <1> DEFINE r == [run EXCEPT !.seen = Seen]
             j == [run.mem EXCEPT !.last[Owner] = "in_progress"]
  <1>3. /\ r \in Runs /\ r.seen = Seen /\ r.mem = run.mem /\ r.idx = run.idx
        /\ r.cfg = run.cfg /\ r.scope = run.scope /\ r.force = run.force
    BY <1>1, <1>2 DEF Runs
  <1>4. /\ j \in Journals /\ j.hash = run.mem.hash /\ j.step = run.mem.step
        /\ j.status = run.mem.status
        /\ j.last = [run.mem.last EXCEPT ![Owner] = "in_progress"]
    BY <1>1, <1>2 DEF Runs, Journals, RunStatuses
  <1>5. CASE Owner = Project \/ run.mem.last[Owner] = "in_progress"
    <2>1. run' = r /\ disk' = disk
      BY <1>5 DEF StartBody, MarkInProgress
    <2> HIDE DEF r
    <2> QED
      BY <2>1, <1>2, <1>3, <1>5 DEF StartBody, SameRun
  <1>6. CASE ~(Owner = Project \/ run.mem.last[Owner] = "in_progress")
    <2>1. Save(j, r)
      BY <1>6 DEF StartBody, MarkInProgress
    <2> HIDE DEF r, j
    <2> QED
      BY <2>1, <1>3, <1>4, <1>6, SaveIs DEF StartBody, SameRun
  <1> QED
    BY <1>5, <1>6

LEMMA BodyOkIs ==
    ASSUME TypeOK, RunInv, BodyOk
    PROVE  /\ run' \in Runs /\ disk' \in Journals
           /\ SameRun /\ GoesOn /\ Written("ok")
           /\ run'.seen = run.seen
           /\ pc' = "step" /\ done' = [done EXCEPT ![Step] = DoneUnder(run.cfg, Step)]
           /\ UNCHANGED <<config, truth, exit, settled>>
PROOF
  <1>1. MoreSteps /\ run.cfg \in Configs /\ run \in Runs /\ "ok" \in StepStatuses
    BY DEF BodyOk, RunInv, Deploying, TypeOK, StepStatuses
  <1>2. /\ Advanced \in Runs /\ Advanced.seen = run.seen
        /\ Advanced.cfg = run.cfg /\ Advanced.scope = run.scope
        /\ Advanced.force = run.force /\ Advanced.idx = NextPlace(run.scope, run.idx)
    BY <1>1, AdvancedIs DEF Runs
  <1>3. Record("ok") \in Journals
    BY <1>1, RecordKeeps
  <1> QED
    BY <1>1, <1>2, <1>3, RecordKeeps, SaveIs DEF BodyOk, SameRun, GoesOn, Written

LEMMA BodyFailIs ==
    ASSUME TypeOK, RunInv, BodyFail
    PROVE  /\ run' \in Runs /\ disk' \in Journals
           /\ SameRun /\ Written("failed")
           /\ run'.seen = run.seen
           /\ IF Step \in Lenient THEN pc' = "step" /\ GoesOn
              ELSE pc' = "abort" /\ run'.idx = run.idx
           /\ settled' = "no"
           /\ UNCHANGED <<config, truth, exit, done>>
PROOF
  <1>1. MoreSteps /\ run.cfg \in Configs /\ run \in Runs /\ "failed" \in StepStatuses
    BY DEF BodyFail, RunInv, Deploying, TypeOK, StepStatuses
  <1>2. /\ Advanced \in Runs /\ Advanced.seen = run.seen
        /\ Advanced.cfg = run.cfg /\ Advanced.scope = run.scope
        /\ Advanced.force = run.force /\ Advanced.idx = NextPlace(run.scope, run.idx)
    BY <1>1, AdvancedIs DEF Runs
  <1>3. Record("failed") \in Journals
    BY <1>1, RecordKeeps
  <1>4. CASE Step \in Lenient
    BY <1>1, <1>2, <1>3, <1>4, RecordKeeps, SaveIs DEF BodyFail, SameRun, GoesOn, Written
  <1>5. CASE Step \notin Lenient
    BY <1>1, <1>3, <1>5, RecordKeeps, SaveIs DEF BodyFail, SameRun, Written
  <1> QED
    BY <1>4, <1>5

LEMMA FinishedIs ==
    ASSUME TypeOK, run.cfg \in Configs, NEW success \in BOOLEAN
    PROVE  LET j == Finished(success)
           IN  /\ j \in Journals
               /\ j.step = run.mem.step
               /\ \A s \in Scopes :
                     j.hash[s] = IF s \in Stamped THEN ConfigHash(run.cfg, s)
                                 ELSE run.mem.hash[s]
PROOF
  <1>1. run.mem \in Journals
    BY DEF TypeOK, Runs
  <1> DEFINE hash == [s \in Scopes |-> IF s \in Stamped THEN ConfigHash(run.cfg, s)
                                       ELSE run.mem.hash[s]]
             last == [s \in Scopes |->
                IF s \notin Stamped THEN run.mem.last[s]
                ELSE IF (s = Project /\ success) \/ (s # Project /\ ServicePassed(s))
                     THEN "ok" ELSE "failed"]
             status == [s \in Scopes |->
                IF s \notin run.seen THEN run.mem.status[s]
                ELSE IF ServicePassed(s) THEN "deployed" ELSE "failed"]
             j == [run.mem EXCEPT !.hash = hash, !.last = last, !.status = status]
  <1>2. hash \in [Scopes -> Hashes]
    BY <1>1, HashTypes DEF Journals
  <1>3. last \in [Scopes -> RunStatuses]
    BY <1>1 DEF Journals, RunStatuses
  <1>4. status \in [Scopes -> ScopeStatuses]
    BY <1>1 DEF Journals, ScopeStatuses
  <1>5. Finished(success) = Recompute(j)
    BY <1>1 DEF Finished, Journals
  <1> HIDE DEF last, status
  <1>6. j \in Journals /\ j.step = run.mem.step /\ j.hash = hash
    BY <1>1, <1>2, <1>3, <1>4 DEF Journals
  <1> HIDE DEF j
  <1> QED
    BY <1>5, <1>6, RecomputeKeeps

LEMMA NoRunType == NoRun \in Runs /\ \A c \in Configs, scope \in SUBSET Services :
                       [NoRun EXCEPT !.scope = scope, !.cfg = c] \in Runs
PROOF
  <1>1. NoRun \in Runs
    BY EmptyType, PlanFacts DEF NoRun, Runs
  <1> QED
    BY <1>1 DEF Runs

LEMMA FinishIs ==
    ASSUME TypeOK, run.cfg \in Configs, NEW success \in BOOLEAN, Finish(success)
    PROVE  /\ run' \in Runs
           /\ disk' = Finished(success) \/ ("save_error" \in Env /\ disk' = disk)
           /\ pc' \in {"clear", "idle"}
           /\ pc' = "clear" => /\ success /\ disk' = Finished(success)
                               /\ run'.scope = run.scope /\ run'.cfg = run.cfg
           /\ settled' \in {"yes", "no"} \/ settled' = settled
           /\ settled' # "trying"
           /\ settled' = "yes" /\ settled # "yes" =>
                 settled = "trying" /\ success /\ disk' = Finished(success)
           /\ exit' \in {"ok", "unsaved", "failed"}
           /\ UNCHANGED <<config, truth, done>>
PROOF
  <1>1. PICK saved \in Flushes :
        LET ok == success /\ saved /\ ~run.unsaved
        IN  /\ disk' = IF saved THEN Finished(success) ELSE disk
            /\ exit' = IF ok THEN "ok" ELSE IF success THEN "unsaved" ELSE "failed"
            /\ pc' = IF ok THEN "clear" ELSE "idle"
            /\ run' = IF ok THEN [NoRun EXCEPT !.scope = run.scope,
                                               !.cfg = run.cfg] ELSE NoRun
            /\ settled' = IF settled # "trying" THEN settled ELSE IF ok THEN "yes" ELSE "no"
            /\ UNCHANGED <<config, truth, done>>
    BY DEF Finish
  <1>2. saved \/ "save_error" \in Env
    BY DEF Flushes
  <1>3. run.scope \in SUBSET Services /\ settled \in {"no", "trying", "yes"}
    BY DEF TypeOK, Runs
  <1> DEFINE ok == success /\ saved /\ ~run.unsaved
             r == [NoRun EXCEPT !.scope = run.scope, !.cfg = run.cfg]
  <1>4. r \in Runs /\ NoRun \in Runs /\ r.scope = run.scope /\ r.cfg = run.cfg
    BY <1>3, NoRunType DEF NoRun, Runs
  <1>5. CASE ok
    BY <1>1, <1>3, <1>4, <1>5
  <1>6. CASE ~ok
    BY <1>1, <1>2, <1>3, <1>4, <1>6
  <1> QED
    BY <1>5, <1>6

LEMMA ClearDeployedPendingIs ==
    ASSUME TypeOK, ClearDeployedPending
    PROVE  /\ disk' \in Journals /\ disk'.step = disk.step /\ disk'.hash = disk.hash
           /\ pc' = "idle" /\ run' = NoRun
           /\ UNCHANGED <<config, truth, exit, done, settled>>
BY DEF ClearDeployedPending, ClearPendingServices, TypeOK, Journals

LEMMA StartIs ==
    ASSUME TypeOK, NEW scope \in RunScopes, NEW force \in BOOLEAN, Start(scope, force)
    PROVE  /\ run' \in Runs
           /\ run'.cfg = config /\ run'.scope = scope /\ run'.force = force
           /\ run'.idx = 1 /\ run'.seen = {}
           /\ ~force => /\ run'.mem.hash = disk.hash
                        /\ run'.mem.status = disk.status
                        /\ \A s \in Services : run'.mem.last[s] = disk.last[s]
           /\ force => \A s \in Services : /\ run'.mem.last[s] = "none"
                                           /\ run'.mem.status[s] = "none"
                                           /\ run'.mem.hash[s] = NoHash
           /\ \A st \in Steps : run'.mem.step[st] =
                 IF ~force /\ disk.hash[OwnerOf[st]] = ConfigHash(config, OwnerOf[st])
                 THEN disk.step[st] ELSE NoRecord
           /\ pc' = "step"
           /\ settled' = IF scope = {} /\ (settled = "no" \/ force) THEN "trying"
                         ELSE IF force THEN "no" ELSE settled
           /\ UNCHANGED <<config, truth, disk, exit, done>>
PROOF
  <1> DEFINE j == IF force THEN EmptyJournal ELSE ClearStale(disk, config)
             m == PipelineStart(j, scope)
  <1>1. disk \in Journals /\ config \in Configs /\ scope \in SUBSET Services
    BY DEF TypeOK, RunScopes
  <1>2. /\ j \in Journals
        /\ ~force => j.hash = disk.hash /\ j.last = disk.last /\ j.status = disk.status
        /\ force => \A s \in Services :
              j.last[s] = "none" /\ j.status[s] = "none" /\ j.hash[s] = NoHash
        /\ \A st \in Steps : j.step[st] =
              IF ~force /\ disk.hash[OwnerOf[st]] = ConfigHash(config, OwnerOf[st])
              THEN disk.step[st] ELSE NoRecord
    <2>1. CASE force
      BY <2>1, EmptyType, PlanFacts DEF EmptyJournal
    <2>2. CASE ~force
      BY <2>2, <1>1, ClearStaleKeeps
    <2> QED
      BY <2>1, <2>2
  <1>3. /\ m \in Journals /\ m.hash = j.hash /\ m.step = j.step /\ m.status = j.status
        /\ \A s \in Services : m.last[s] = j.last[s]
    <2> HIDE DEF j
    <2> QED
      BY <1>2, PipelineStartKeeps
  <1>4. /\ run' = [NoRun EXCEPT !.cfg = config, !.scope = scope, !.force = force, !.mem = m]
        /\ pc' = "step"
        /\ settled' = IF scope = {} /\ (settled = "no" \/ force) THEN "trying"
                      ELSE IF force THEN "no" ELSE settled
        /\ UNCHANGED <<config, truth, disk, exit, done>>
    BY DEF Start
  <1> HIDE DEF m, j
  <1>5. /\ run' \in Runs /\ run'.mem = m
        /\ run'.cfg = config /\ run'.scope = scope /\ run'.force = force
        /\ run'.idx = 1 /\ run'.seen = {}
    BY <1>1, <1>3, <1>4, NoRunType DEF NoRun, Runs
  <1> QED
    BY <1>2, <1>3, <1>4, <1>5

LEMMA RunHelperIs ==
    ASSUME NEW scope \in RunScopes, NEW request \in RequestsMade, RunHelper(scope, request)
    PROVE  /\ pc = "idle"
           /\ \/ /\ exit' \in {"uptodate", "refused"}
                 /\ UNCHANGED <<config, truth, disk, pc, run, done, settled>>
              \/ \E force \in BOOLEAN :
                    Start(scope, force) /\ (force => "force" \in Env)
PROOF
  <1>1. PICK d \in Decisions(disk, config, scope, request) :
            IF d \in {"uptodate", "refused"} THEN Refuse(d) ELSE Start(scope, d = "force")
    BY DEF RunHelper
  <1>2. d = "force" => "force" \in Env
    <2>1. d = "force" => request \in {"force", "tty"}
      BY DEF Decisions
    <2> QED
      BY <2>1 DEF RequestsMade, Requests
  <1>3. CASE d \in {"uptodate", "refused"}
    BY <1>1, <1>3 DEF RunHelper, Refuse
  <1>4. CASE d \notin {"uptodate", "refused"}
    <2>1. Start(scope, d = "force") /\ (d = "force") \in BOOLEAN
      BY <1>1, <1>4
    <2> QED
      BY <2>1, <1>2 DEF RunHelper
  <1> QED
    BY <1>3, <1>4

LEMMA ResetFinishIs ==
    ASSUME TypeOK, RunInv, ResetFinish
    PROVE  /\ disk' \in Journals
           /\ \A st \in Steps : disk'.step[st].status = "ok" =>
                 /\ run.scope # {} /\ OwnerOf[st] \notin run.scope
                 /\ disk'.step[st] = disk.step[st]
                 /\ disk'.hash[OwnerOf[st]] = disk.hash[OwnerOf[st]]
           /\ pc' = "idle" /\ run' = NoRun
           /\ UNCHANGED <<config, truth, exit, done, settled>>
PROOF
  <1>1. CASE run.scope = {}
    <2>1. disk' = EmptyJournal
      BY <1>1 DEF ResetFinish
    <2>2. \A st \in Steps : disk'.step[st].status = "none"
      BY <2>1 DEF EmptyJournal, NoRecord
    <2> QED
      BY <2>1, <2>2, EmptyType DEF ResetFinish
  <1>2. CASE run.scope # {}
    <2>1. PICK s \in Services : run.scope = {s}
      BY <1>2 DEF RunInv, ResetFinish
    <2>2. disk' = ReplaceServiceWithPending(disk, s)
      BY <1>2, <2>1 DEF ResetFinish
    <2> QED
      BY <1>2, <2>1, <2>2, ReplaceKeeps DEF ResetFinish, TypeOK
  <1> QED
    BY <1>1, <1>2

LEMMA OutcomeTypes ==
    /\ Never \in Outcomes /\ Torn \in Outcomes
    /\ \A c \in Configs, st \in Steps : DoneUnder(c, st) \in Outcomes
BY HashTypes, PlanFacts DEF Never, Torn, DoneUnder, Outcomes

-----------------------------------------------------------------------------
LEMMA BaseStep ==
    ASSUME TypeOK, StampInv, RunInv, [Next]_vars
    PROVE  TypeOK' /\ StampInv' /\ RunInv'
PROOF
  <1>1. CASE \E scope \in RunScopes, request \in RequestsMade : RunHelper(scope, request)
    <2>1. PICK scope \in RunScopes, request \in RequestsMade : RunHelper(scope, request)
      BY <1>1
    <2>2. pc = "idle" /\ scope \in SUBSET Services
      BY <2>1, RunHelperIs DEF RunScopes
    <2>3. CASE /\ exit' \in {"uptodate", "refused"}
               /\ UNCHANGED <<config, truth, disk, pc, run, done, settled>>
      <3>1. TypeOK'
        BY <2>2, <2>3 DEF TypeOK
      <3>2. StampInv'
        BY <2>2, <2>3 DEF StampInv, Deploying, SameRun, Written, TypeOK
      <3>3. RunInv'
        BY <2>2, <2>3 DEF RunInv, Deploying, SameRun, Written, TypeOK, Owner, Step,
           MoreSteps
      <3> QED
        BY <3>1, <3>2, <3>3
    <2>4. CASE \E force \in BOOLEAN : Start(scope, force) /\ (force => "force" \in Env)
      <3>1. PICK force \in BOOLEAN : Start(scope, force) /\ (force => "force" \in Env)
        BY <2>4
      <3>2. /\ run' \in Runs
            /\ run'.cfg = config /\ run'.scope = scope /\ run'.force = force
            /\ run'.idx = 1 /\ run'.seen = {}
            /\ ~force => /\ run'.mem.hash = disk.hash
                         /\ run'.mem.status = disk.status
                         /\ \A s \in Services : run'.mem.last[s] = disk.last[s]
            /\ force => \A s \in Services : /\ run'.mem.last[s] = "none"
                                            /\ run'.mem.status[s] = "none"
            /\ \A st \in Steps : run'.mem.step[st] =
                  IF ~force /\ disk.hash[OwnerOf[st]] = ConfigHash(config, OwnerOf[st])
                  THEN disk.step[st] ELSE NoRecord
            /\ pc' = "step"
            /\ settled' = IF scope = {} /\ (settled = "no" \/ force) THEN "trying"
                          ELSE IF force THEN "no" ELSE settled
            /\ UNCHANGED <<config, truth, disk, exit, done>>
        BY <3>1, StartIs
      <3>3. TypeOK'
        BY <2>2, <3>1, <3>2 DEF TypeOK, NoRecord
      <3>4. StampInv'
        BY <2>2, <3>1, <3>2 DEF StampInv, Deploying, SameRun, Written, TypeOK, NoRecord
      <3>5. RunInv'
        BY <2>2, <3>1, <3>2 DEF RunInv, Deploying, SameRun, Written, TypeOK, Owner, Step,
           MoreSteps, NoRecord
      <3> QED
        BY <3>3, <3>4, <3>5
    <2> QED
      BY <2>1, <2>3, <2>4, RunHelperIs
  <1>2. CASE SkipWhen
    <2>1. AtStep /\ WhenFalse /\ MoreSteps /\ pc = "step" /\ Deploying /\ run.cfg \in Configs
      BY <1>2 DEF SkipWhen, AtStep, Deploying, RunInv
    <2>2. /\ run' \in Runs /\ disk' \in Journals
          /\ SameRun /\ GoesOn /\ Written("skipped") /\ run'.seen = Seen
          /\ UNCHANGED <<config, truth, pc, exit, done, settled>>
      BY <1>2, <2>1, SkipRecordedIs DEF SkipWhen
    <2>3. TypeOK'
      BY <2>1, <2>2 DEF TypeOK
    <2>4. StampInv'
      BY <2>1, <2>2, StepFacts DEF StampInv, Deploying, SameRun, Written
    <2>5. RunInv'
      BY <2>1, <2>2 DEF RunInv, Deploying, SameRun, Written, TypeOK, Owner, Step, MoreSteps
    <2> QED
      BY <2>3, <2>4, <2>5
  <1>3. CASE SkipState
    <2>1. AtStep /\ SkipsByState /\ MoreSteps /\ pc = "step" /\ Deploying /\ run.cfg \in Configs
      BY <1>3 DEF SkipState, AtStep, Deploying, RunInv
    <2>2. /\ run' \in Runs /\ SameRun /\ GoesOn
          /\ run'.mem = run.mem /\ run'.seen = run.seen
          /\ UNCHANGED <<config, truth, disk, pc, exit, done, settled>>
      BY <1>3, SkipStateIs
    <2>3. TypeOK'
      BY <2>1, <2>2 DEF TypeOK
    <2>4. StampInv'
      BY <2>1, <2>2 DEF StampInv, Deploying, SameRun, Written, TypeOK
    <2>5. RunInv'
      BY <2>1, <2>2 DEF RunInv, Deploying, SameRun, Written, TypeOK, Owner, Step, MoreSteps
    <2> QED
      BY <2>3, <2>4, <2>5
  <1>4. CASE SkipGate
    <2>1. ReachesGate /\ Step \in Gated /\ MoreSteps /\ pc = "step" /\ Deploying /\ run.cfg \in Configs
      BY <1>4 DEF SkipGate, ReachesGate, AtStep, Deploying, RunInv
    <2>2. /\ run' \in Runs /\ disk' \in Journals
          /\ SameRun /\ GoesOn /\ Written("skipped") /\ run'.seen = Seen
          /\ UNCHANGED <<config, truth, pc, exit, done, settled>>
      BY <1>4, <2>1, SkipRecordedIs DEF SkipGate
    <2>3. TypeOK'
      BY <2>1, <2>2 DEF TypeOK
    <2>4. StampInv'
      BY <2>1, <2>2, StepFacts DEF StampInv, Deploying, SameRun, Written
    <2>5. RunInv'
      BY <2>1, <2>2 DEF RunInv, Deploying, SameRun, Written, TypeOK, Owner, Step, MoreSteps
    <2> QED
      BY <2>3, <2>4, <2>5
  <1>5. CASE StartBody
    <2>1. ReachesGate /\ MoreSteps /\ pc = "step" /\ Deploying /\ run.cfg \in Configs
      BY <1>5 DEF StartBody, ReachesGate, AtStep, Deploying, RunInv
    <2>2. /\ run' \in Runs /\ disk' \in Journals
          /\ SameRun /\ run'.idx = run.idx /\ run'.seen = Seen
          /\ run'.mem.hash = run.mem.hash /\ run'.mem.step = run.mem.step
          /\ run'.mem.status = run.mem.status
          /\ IF Owner = Project \/ run.mem.last[Owner] = "in_progress"
             THEN disk' = disk /\ run'.mem = run.mem
             ELSE /\ disk' = run'.mem \/ ("save_error" \in Env /\ disk' = disk)
                  /\ run'.mem.last = [run.mem.last EXCEPT ![Owner] = "in_progress"]
          /\ pc' = "body" /\ done' = [done EXCEPT ![Step] = Torn]
          /\ UNCHANGED <<config, truth, exit, settled>>
      BY <1>5, StartBodyIs
    <2>3. TypeOK'
      BY <2>1, <2>2, OutcomeTypes DEF TypeOK
    <2>4. StampInv'
      BY <2>1, <2>2, StepFacts DEF StampInv, Deploying, SameRun
    <2>5. RunInv'
      <3>1. Owner' = Owner /\ MoreSteps'
        BY <2>1, <2>2 DEF Owner, Step, MoreSteps
      <3> QED
        BY <2>1, <2>2, <3>1, StepFacts DEF RunInv, Deploying, SameRun
    <2> QED
      BY <2>3, <2>4, <2>5
  <1>6. CASE BodyOk
    <2>1. pc = "body" /\ MoreSteps /\ Deploying /\ run.cfg \in Configs
      BY <1>6 DEF BodyOk, Deploying, RunInv
    <2>2. /\ run' \in Runs /\ disk' \in Journals
          /\ SameRun /\ GoesOn /\ Written("ok") /\ run'.seen = run.seen
          /\ pc' = "step" /\ done' = [done EXCEPT ![Step] = DoneUnder(run.cfg, Step)]
          /\ UNCHANGED <<config, truth, exit, settled>>
      BY <1>6, BodyOkIs
    <2>3. TypeOK'
      BY <2>1, <2>2, StepFacts, OutcomeTypes DEF TypeOK
    <2>4. StampInv'
      BY <2>1, <2>2, StepFacts DEF StampInv, RunInv, Owner, Deploying, SameRun, Written
    <2>5. RunInv'
      BY <2>1, <2>2 DEF RunInv, Deploying, SameRun, Written, TypeOK, Owner, Step, MoreSteps
    <2> QED
      BY <2>3, <2>4, <2>5
  <1>7. CASE BodyFail
    <2>1. pc = "body" /\ MoreSteps /\ Deploying /\ run.cfg \in Configs
      BY <1>7 DEF BodyFail, Deploying, RunInv
    <2>2. /\ run' \in Runs /\ disk' \in Journals
          /\ SameRun /\ Written("failed") /\ run'.seen = run.seen
          /\ IF Step \in Lenient THEN pc' = "step" /\ GoesOn
             ELSE pc' = "abort" /\ run'.idx = run.idx
          /\ settled' = "no"
          /\ UNCHANGED <<config, truth, exit, done>>
      BY <1>7, BodyFailIs
    <2>3. TypeOK'
      BY <2>1, <2>2 DEF TypeOK
    <2>4. StampInv'
      BY <2>1, <2>2 DEF StampInv, Deploying, SameRun, Written, TypeOK
    <2>5. RunInv'
      BY <2>1, <2>2 DEF RunInv, Deploying, SameRun, Written, TypeOK, Owner, Step, MoreSteps
    <2> QED
      BY <2>3, <2>4, <2>5
  <1>8. CASE GateError
    <2>1. pc = "step" /\ ReachesGate /\ Step \in Gated /\ MoreSteps /\ Deploying /\ run.cfg \in Configs
      BY <1>8 DEF GateError, ReachesGate, AtStep, Deploying, RunInv
    <2>2. /\ run' \in Runs /\ disk' \in Journals
          /\ SameRun /\ Written("failed") /\ run'.seen = run.seen
          /\ pc' = "abort" /\ settled' = "no"
          /\ UNCHANGED <<config, truth, exit, done>>
      BY <1>8, GateErrorIs
    <2>3. TypeOK'
      BY <2>1, <2>2 DEF TypeOK
    <2>4. StampInv'
      BY <2>1, <2>2 DEF StampInv, Deploying, SameRun, Written, TypeOK
    <2>5. RunInv'
      BY <2>1, <2>2 DEF RunInv, Deploying, SameRun, Written, TypeOK, Owner, Step, MoreSteps
    <2> QED
      BY <2>3, <2>4, <2>5
  <1>9. CASE WhenError
    <2>1. /\ pc = "step" /\ Deploying
          /\ pc' = "abort" /\ settled' = "no"
          /\ UNCHANGED <<config, truth, disk, run, exit, done>>
      BY <1>9 DEF WhenError, AtStep, Deploying
    <2>2. TypeOK'
      BY <2>1 DEF TypeOK
    <2>3. StampInv'
      BY <2>1 DEF StampInv, Deploying, SameRun, Written, TypeOK
    <2>4. RunInv'
      BY <2>1 DEF RunInv, Deploying, SameRun, Written, TypeOK, Owner, Step, MoreSteps
    <2> QED
      BY <2>2, <2>3, <2>4
  <1>10. CASE PipelineFinish
    <2>1. Deploying /\ run.cfg \in Configs
      BY <1>10 DEF PipelineFinish, Deploying, RunInv
    <2>2. PICK success \in BOOLEAN :
          Finish(success) /\ (success => pc = "step" /\ ~MoreSteps) /\ (~success => pc = "abort")
      BY <1>10 DEF PipelineFinish
    <2>3. /\ run' \in Runs
          /\ disk' = Finished(success) \/ ("save_error" \in Env /\ disk' = disk)
          /\ pc' \in {"clear", "idle"}
          /\ pc' = "clear" => /\ success /\ disk' = Finished(success)
                              /\ run'.scope = run.scope /\ run'.cfg = run.cfg
          /\ settled' \in {"yes", "no"} \/ settled' = settled
          /\ settled' # "trying"
          /\ settled' = "yes" /\ settled # "yes" =>
                settled = "trying" /\ success /\ disk' = Finished(success)
          /\ exit' \in {"ok", "unsaved", "failed"}
          /\ UNCHANGED <<config, truth, done>>
      BY <1>10, <2>1, <2>2, FinishIs
    <2>4. /\ Finished(success) \in Journals
          /\ Finished(success).step = run.mem.step
          /\ \A s \in Scopes : Finished(success).hash[s] =
                IF s \in Stamped THEN ConfigHash(run.cfg, s) ELSE run.mem.hash[s]
      BY <1>10, <2>1, FinishedIs
    <2>5. TypeOK'
      BY <2>1, <2>2, <2>3, <2>4 DEF TypeOK
    <2>6. StampInv'
      BY <2>1, <2>2, <2>3, <2>4 DEF StampInv, Deploying, SameRun, Written, TypeOK
    <2>7. RunInv'
      BY <2>1, <2>2, <2>3, <2>4 DEF RunInv, Deploying, SameRun, Written, TypeOK, Owner,
         Step, MoreSteps
    <2> QED
      BY <2>5, <2>6, <2>7
  <1>11. CASE ClearDeployedPending
    <2>1. /\ pc = "clear"
          /\ disk' \in Journals /\ disk'.step = disk.step /\ disk'.hash = disk.hash
          /\ pc' = "idle" /\ run' = NoRun
          /\ UNCHANGED <<config, truth, exit, done, settled>>
      BY <1>11, ClearDeployedPendingIs DEF ClearDeployedPending
    <2>2. TypeOK'
      BY <2>1, NoRunType DEF TypeOK
    <2>3. StampInv'
      BY <2>1 DEF StampInv, Deploying, SameRun, Written, TypeOK
    <2>4. RunInv'
      BY <2>1 DEF RunInv, Deploying, SameRun, Written, TypeOK, Owner, Step, MoreSteps
    <2> QED
      BY <2>2, <2>3, <2>4
  <1>12. CASE ResetFinish
    <2>1. /\ pc = "reset" /\ disk' \in Journals
          /\ \A st \in Steps : disk'.step[st].status = "ok" =>
                /\ run.scope # {} /\ OwnerOf[st] \notin run.scope
                /\ disk'.step[st] = disk.step[st]
                /\ disk'.hash[OwnerOf[st]] = disk.hash[OwnerOf[st]]
          /\ pc' = "idle" /\ run' = NoRun
          /\ UNCHANGED <<config, truth, exit, done, settled>>
      BY <1>12, ResetFinishIs DEF ResetFinish
    <2>2. TypeOK'
      BY <2>1, NoRunType DEF TypeOK
    <2>3. StampInv'
      BY <2>1 DEF StampInv, Deploying, SameRun, Written, TypeOK
    <2>4. RunInv'
      BY <2>1 DEF RunInv, Deploying, SameRun, Written, TypeOK, Owner, Step, MoreSteps
    <2> QED
      BY <2>2, <2>3, <2>4
  <1>13. CASE Crash
    <2>1. /\ "crash" \in Env /\ pc # "idle" /\ (pc = "reset" => "torn_reset" \in Env)
          /\ pc' = "idle" /\ run' = NoRun /\ exit' = "none" /\ settled' = "no"
          /\ UNCHANGED <<config, truth, disk, done>>
      BY <1>13 DEF Crash
    <2>2. TypeOK'
      BY <2>1, NoRunType DEF TypeOK
    <2>3. StampInv'
      BY <2>1 DEF StampInv, Deploying, SameRun, Written, TypeOK
    <2>4. RunInv'
      BY <2>1 DEF RunInv, Deploying, SameRun, Written, TypeOK, Owner, Step, MoreSteps
    <2> QED
      BY <2>2, <2>3, <2>4
  <1>14. CASE Edit
    <2>1. /\ Editable # {} /\ config' \in Configs /\ settled' = "no"
          /\ UNCHANGED <<truth, disk, pc, run, exit, done>>
      BY <1>14, DeployAssumption DEF Edit, TypeOK, Configs
    <2>2. TypeOK'
      BY <2>1 DEF TypeOK
    <2>3. StampInv'
      BY <2>1 DEF StampInv, Deploying, SameRun, Written, TypeOK
    <2>4. RunInv'
      BY <2>1 DEF RunInv, Deploying, SameRun, Written, TypeOK, Owner, Step, MoreSteps
    <2> QED
      BY <2>2, <2>3, <2>4
  <1>15. CASE ConditionChange
    <2>1. /\ truth' \subseteq Conditional /\ settled' = "no"
          /\ UNCHANGED <<config, disk, pc, run, exit, done>>
      BY <1>15 DEF ConditionChange, TypeOK
    <2>2. TypeOK'
      BY <2>1 DEF TypeOK
    <2>3. StampInv'
      BY <2>1 DEF StampInv, Deploying, SameRun, Written, TypeOK
    <2>4. RunInv'
      BY <2>1 DEF RunInv, Deploying, SameRun, Written, TypeOK, Owner, Step, MoreSteps
    <2> QED
      BY <2>2, <2>3, <2>4
  <1>16. CASE StateRepair
    <2>1. /\ pc = "idle" /\ settled' = "no"
          /\ disk' \in Journals /\ disk'.step = disk.step /\ disk'.hash = disk.hash
          /\ UNCHANGED <<config, truth, pc, run, exit, done>>
      BY <1>16, RecomputeKeeps DEF StateRepair, TypeOK
    <2>2. TypeOK'
      BY <2>1 DEF TypeOK
    <2>3. StampInv'
      BY <2>1 DEF StampInv, Deploying, SameRun, Written, TypeOK
    <2>4. RunInv'
      BY <2>1 DEF RunInv, Deploying, SameRun, Written, TypeOK, Owner, Step, MoreSteps
    <2> QED
      BY <2>2, <2>3, <2>4
  <1>17. CASE StateClear
    <2>1. /\ pc = "idle" /\ settled' = "no"
          /\ disk' \in Journals /\ \A st \in Steps : disk'.step[st].status = "none"
          /\ UNCHANGED <<config, truth, pc, run, exit, done>>
      BY <1>17, EmptyType DEF StateClear, EmptyJournal, NoRecord
    <2>2. TypeOK'
      BY <2>1 DEF TypeOK
    <2>3. StampInv'
      BY <2>1 DEF StampInv, Deploying, SameRun, Written, TypeOK
    <2>4. RunInv'
      BY <2>1 DEF RunInv, Deploying, SameRun, Written, TypeOK, Owner, Step, MoreSteps
    <2> QED
      BY <2>2, <2>3, <2>4
  <1>18. CASE \E scope \in SUBSET Services : (scope = {} \/ \E s \in Services : scope = {s}) /\ ResetBegin(scope)
    <2>1. PICK scope \in SUBSET Services :
          (scope = {} \/ \E s \in Services : scope = {s}) /\ ResetBegin(scope)
      BY <1>18
    <2>2. /\ pc = "idle" /\ pc' = "reset" /\ settled' = "no"
          /\ run' = [NoRun EXCEPT !.scope = scope]
          /\ done' = [st \in Steps |-> IF scope = {} \/ OwnerOf[st] \in scope THEN Never ELSE done[st]]
          /\ UNCHANGED <<config, truth, disk, exit>>
      BY <1>18, <2>1 DEF ResetBegin
    <2>3. run' \in Runs /\ run'.scope = scope
      BY <1>18, <2>2, NoRunType DEF NoRun, Runs
    <2>4. TypeOK'
      BY <2>2, <2>3, OutcomeTypes DEF TypeOK
    <2>5. StampInv'
      BY <2>1, <2>2, <2>3 DEF StampInv, Deploying, SameRun, Written, TypeOK
    <2>6. RunInv'
      BY <2>1, <2>2, <2>3 DEF RunInv, Deploying, SameRun, Written, TypeOK, Owner, Step,
         MoreSteps
    <2> QED
      BY <2>4, <2>5, <2>6
  <1>19. CASE ResetFail
    <2>1. /\ "torn_reset" \in Env /\ pc = "reset" /\ pc' = "idle" /\ run' = NoRun
          /\ UNCHANGED <<config, truth, disk, exit, done, settled>>
      BY <1>19 DEF ResetFail
    <2>2. TypeOK'
      BY <2>1, NoRunType DEF TypeOK
    <2>3. StampInv'
      BY <2>1 DEF StampInv, Deploying, SameRun, Written, TypeOK
    <2>4. RunInv'
      BY <2>1 DEF RunInv, Deploying, SameRun, Written, TypeOK, Owner, Step, MoreSteps
    <2> QED
      BY <2>2, <2>3, <2>4
  <1>20. CASE UNCHANGED vars
    <2>1. UNCHANGED <<config, truth, disk, pc, run, exit, done, settled>>
      BY <1>20 DEF vars
    <2>2. TypeOK'
      BY <2>1 DEF TypeOK
    <2>3. StampInv'
      BY <2>1 DEF StampInv, Deploying, SameRun, Written, TypeOK
    <2>4. RunInv'
      BY <2>1 DEF RunInv, Deploying, SameRun, Written, TypeOK, Owner, Step, MoreSteps
    <2> QED
      BY <2>2, <2>3, <2>4
  <1> QED
    BY <1>1, <1>2, <1>3, <1>4, <1>5, <1>6, <1>7, <1>8, <1>9, <1>10, <1>11, <1>12, <1>13,
       <1>14, <1>15, <1>16, <1>17, <1>18, <1>19, <1>20 DEF Next, Progress, Mishap, ResetEnds,
         ResetOutcomes

-----------------------------------------------------------------------------
\* Going on, a run passes its step and no other of its plan.
LEMMA GoingOn ==
    ASSUME TypeOK, MoreSteps
    PROVE  /\ \A k \in Places : k # run.idx => FullPlan[k] # Step
           /\ GoesOn => run'.idx \in Nat /\ \A k \in Places :
                 /\ k < run'.idx /\ FullPlan[k] \in Plan(run.scope) => k <= run.idx
                 /\ k >= run'.idx => k > run.idx
PROOF
  <1>1. run.idx \in Places /\ Places \subseteq Nat
    BY StepFacts, PlanFacts
  <1>2. \A k \in Places : k # run.idx => FullPlan[k] # Step
    BY <1>1, PlanFacts DEF Step
  <1>3. CASE GoesOn
    <2>1. run'.idx \in Nat /\ run.idx < run'.idx
      BY <1>1, <1>3, NextPlaceIsNext, PlanFacts DEF GoesOn, Places
    <2>2. \A k \in Places : run.idx < k /\ FullPlan[k] \in Plan(run.scope) => run'.idx <= k
      BY <1>1, <1>3, NextPlaceIsNext DEF GoesOn
    <2>3. ASSUME NEW k \in Places
          PROVE  /\ k < run'.idx /\ FullPlan[k] \in Plan(run.scope) => k <= run.idx
                 /\ k >= run'.idx => k > run.idx
      <3>1. k \in Nat /\ run.idx \in Nat /\ run'.idx \in Nat /\ run.idx < run'.idx
        BY <1>1, <2>1
      <3>2. CASE k >= run'.idx
        BY <3>1, <3>2
      <3>3. CASE FullPlan[k] \in Plan(run.scope)
        <4>1. run.idx < k => run'.idx <= k
          BY <2>2, <3>3
        <4> QED
          BY <3>1, <4>1
      <3> QED
        BY <3>1, <3>2, <3>3
    <2> QED
      BY <1>2, <2>1, <2>3
  <1> QED
    BY <1>2, <1>3

LEMMA FullRun == Plan({}) = Steps
BY DEF Plan

LEMMA AgainStep ==
    ASSUME TypeOK, StampInv, RunInv, SettledInv, TryingInv, [Next]_vars
    PROVE  SettledInv' /\ TryingInv'
PROOF
  <1>1. CASE \E scope \in RunScopes, request \in RequestsMade : RunHelper(scope, request)
    <2>1. PICK scope \in RunScopes, request \in RequestsMade : RunHelper(scope, request)
      BY <1>1
    <2>2. pc = "idle" /\ scope \in SUBSET Services
      BY <2>1, RunHelperIs DEF RunScopes
    <2>3. CASE /\ exit' \in {"uptodate", "refused"}
               /\ UNCHANGED <<config, truth, disk, pc, run, done, settled>>
      <3>1. SettledInv'
        BY <2>2, <2>3 DEF SettledInv, Answered, Deploying
      <3>2. TryingInv'
        BY <2>2, <2>3 DEF TryingInv, WillAnswer, Deploying
      <3> QED
        BY <3>1, <3>2
    <2>4. CASE \E force \in BOOLEAN : Start(scope, force) /\ (force => "force" \in Env)
      <3>1. PICK force \in BOOLEAN : Start(scope, force) /\ (force => "force" \in Env)
        BY <2>4
      <3>2. /\ run' \in Runs
            /\ run'.cfg = config /\ run'.scope = scope /\ run'.force = force
            /\ run'.idx = 1 /\ run'.seen = {}
            /\ ~force => /\ run'.mem.hash = disk.hash
                         /\ run'.mem.status = disk.status
                         /\ \A s \in Services : run'.mem.last[s] = disk.last[s]
            /\ force => \A s \in Services : /\ run'.mem.last[s] = "none"
                                            /\ run'.mem.status[s] = "none"
            /\ \A st \in Steps : run'.mem.step[st] =
                  IF ~force /\ disk.hash[OwnerOf[st]] = ConfigHash(config, OwnerOf[st])
                  THEN disk.step[st] ELSE NoRecord
            /\ pc' = "step"
            /\ settled' = IF scope = {} /\ (settled = "no" \/ force) THEN "trying"
                          ELSE IF force THEN "no" ELSE settled
            /\ UNCHANGED <<config, truth, disk, exit, done>>
        BY <3>1, StartIs
      <3>3. SettledInv'
        <4>1. CASE settled' = "yes"
          <5>1. settled = "yes" /\ ~force
            BY <3>1, <3>2, <4>1 DEF TypeOK
          <5>2. \A st \in Steps : Answered(disk, st) /\ Answered(disk, st)'
            BY <3>2, <5>1 DEF SettledInv, Answered
          <5>3. \A st \in Steps : Answered(run.mem, st)'
            BY <3>2, <5>1, <5>2 DEF Answered
          <5> QED
            BY <3>2, <5>1, <5>2, <5>3 DEF SettledInv
        <4> QED
          BY <4>1 DEF SettledInv
      <3>4. TryingInv'
        BY <2>2, <3>2, PlanFacts DEF TryingInv, Places
      <3> QED
        BY <3>3, <3>4
    <2> QED
      BY <2>1, <2>3, <2>4, RunHelperIs
  <1>2. CASE SkipWhen
    <2>1. AtStep /\ WhenFalse /\ MoreSteps /\ pc = "step" /\ Deploying /\ run.cfg \in Configs
      BY <1>2 DEF SkipWhen, AtStep, Deploying, RunInv
    <2>2. /\ run' \in Runs /\ disk' \in Journals
          /\ SameRun /\ GoesOn /\ Written("skipped") /\ run'.seen = Seen
          /\ UNCHANGED <<config, truth, pc, exit, done, settled>>
      BY <1>2, <2>1, SkipRecordedIs DEF SkipWhen
    <2>3. SettledInv'
      <3>1. CASE settled' = "yes"
        <4>1. /\ run.cfg = config /\ ~run.force
              /\ \A st \in Steps : Answered(disk, st) /\ Answered(run.mem, st)
          BY <2>1, <2>2, <3>1 DEF SettledInv
        <4>2. Step \in Conditional \ truth
          BY <2>1, <2>2, <3>1 DEF WhenFalse
        <4>3. \A st \in Steps : Answered(disk, st)' \/ disk' # disk
          BY <2>2, <4>1 DEF Answered
        <4>4. \A st \in Steps : Answered(run.mem, st)'
          BY <2>2, <4>1, <4>2 DEF Answered, Written
        <4>5. \A st \in Steps : Answered(disk, st)' \/ disk' # run'.mem
          BY <4>4 DEF Answered
        <4> QED
          BY <2>1, <2>2, <4>1, <4>3, <4>4, <4>5 DEF SettledInv, Written, SameRun
      <3> QED
        BY <3>1 DEF SettledInv
    <2>4. TryingInv'
      <3>1. CASE settled' = "trying"
        <4>1. /\ run.scope = {} /\ run.cfg = config
              /\ \A k \in Places : k < run.idx => WillAnswer(FullPlan[k])
          BY <2>1, <2>2, <3>1 DEF TryingInv
        <4>2. \A st \in Steps : st = Step => WillAnswer(st)'
          BY <2>1, <2>2, <4>1, StepFacts DEF WillAnswer, WhenFalse
        <4>3. \A k \in Places : FullPlan[k] \in Steps /\ (k # run.idx => FullPlan[k] # Step)
          BY <2>1, GoingOn, PlanFacts
        <4>4. \A k \in Places : k < run'.idx => k <= run.idx
          BY <2>1, <2>2, <4>1, <4>3, GoingOn, FullRun, PlanFacts
        <4>5. \A st \in Steps : WillAnswer(st) /\ st # Step => WillAnswer(st)'
          BY <2>2 DEF WillAnswer, Written
        <4>6. run.idx \in Nat /\ run'.idx \in Nat /\ Places \subseteq Nat
          BY <2>1, <2>2, GoingOn, StepFacts, PlanFacts
        <4>7. \A k \in Places : k < run'.idx => WillAnswer(FullPlan[k])'
          <5> TAKE k \in Places
          <5>1. CASE k = run.idx
            BY <4>2, <4>3, <5>1 DEF Step
          <5>2. CASE k # run.idx
            <6>1. k < run'.idx => k < run.idx
              BY <4>4, <4>6, <5>2
            <6>2. FullPlan[k] \in Steps /\ FullPlan[k] # Step
              BY <4>3, <5>2
            <6> QED
              BY <4>1, <4>5, <6>1, <6>2
          <5> QED
            BY <5>1, <5>2
        <4> QED
          BY <2>1, <2>2, <4>1, <4>7 DEF TryingInv, SameRun
      <3> QED
        BY <3>1 DEF TryingInv
    <2> QED
      BY <2>3, <2>4
  <1>3. CASE SkipState
    <2>1. AtStep /\ SkipsByState /\ MoreSteps /\ pc = "step" /\ Deploying /\ run.cfg \in Configs
      BY <1>3 DEF SkipState, AtStep, Deploying, RunInv
    <2>2. /\ run' \in Runs /\ SameRun /\ GoesOn
          /\ run'.mem = run.mem /\ run'.seen = run.seen
          /\ UNCHANGED <<config, truth, disk, pc, exit, done, settled>>
      BY <1>3, SkipStateIs
    <2>3. SettledInv'
      BY <2>1, <2>2 DEF SettledInv, Answered, Deploying, SameRun
    <2>4. TryingInv'
      <3>1. CASE settled' = "trying"
        <4>1. /\ run.scope = {} /\ run.cfg = config
              /\ \A k \in Places : k < run.idx => WillAnswer(FullPlan[k])
          BY <2>1, <2>2, <3>1 DEF TryingInv
        <4>2. \A st \in Steps : st = Step => WillAnswer(st)'
          BY <2>1, <2>2, <4>1, StepFacts DEF WillAnswer, SkipsByState, JournalSkips,
             Skippable
        <4>3. \A k \in Places : FullPlan[k] \in Steps /\ (k # run.idx => FullPlan[k] # Step)
          BY <2>1, GoingOn, PlanFacts
        <4>4. \A k \in Places : k < run'.idx => k <= run.idx
          BY <2>1, <2>2, <4>1, <4>3, GoingOn, FullRun, PlanFacts
        <4>5. \A st \in Steps : WillAnswer(st) /\ st # Step => WillAnswer(st)'
          BY <2>2 DEF WillAnswer, Written
        <4>6. run.idx \in Nat /\ run'.idx \in Nat /\ Places \subseteq Nat
          BY <2>1, <2>2, GoingOn, StepFacts, PlanFacts
        <4>7. \A k \in Places : k < run'.idx => WillAnswer(FullPlan[k])'
          <5> TAKE k \in Places
          <5>1. CASE k = run.idx
            BY <4>2, <4>3, <5>1 DEF Step
          <5>2. CASE k # run.idx
            <6>1. k < run'.idx => k < run.idx
              BY <4>4, <4>6, <5>2
            <6>2. FullPlan[k] \in Steps /\ FullPlan[k] # Step
              BY <4>3, <5>2
            <6> QED
              BY <4>1, <4>5, <6>1, <6>2
          <5> QED
            BY <5>1, <5>2
        <4> QED
          BY <2>1, <2>2, <4>1, <4>7 DEF TryingInv, SameRun
      <3> QED
        BY <3>1 DEF TryingInv
    <2> QED
      BY <2>3, <2>4
  <1>4. CASE SkipGate
    <2>1. ReachesGate /\ Step \in Gated /\ MoreSteps /\ pc = "step" /\ Deploying /\ run.cfg \in Configs
      BY <1>4 DEF SkipGate, ReachesGate, AtStep, Deploying, RunInv
    <2>2. /\ run' \in Runs /\ disk' \in Journals
          /\ SameRun /\ GoesOn /\ Written("skipped") /\ run'.seen = Seen
          /\ UNCHANGED <<config, truth, pc, exit, done, settled>>
      BY <1>4, <2>1, SkipRecordedIs DEF SkipGate
    <2>3. SettledInv'
      <3>1. CASE settled' = "yes"
        <4>1. /\ run.cfg = config /\ ~run.force
              /\ \A st \in Steps : Answered(disk, st) /\ Answered(run.mem, st)
          BY <2>1, <2>2, <3>1 DEF SettledInv
        <4>2. Step \in Gated
          BY <2>1, <2>2, <3>1 DEF Gated
        <4>3. \A st \in Steps : Answered(disk, st)' \/ disk' # disk
          BY <2>2, <4>1 DEF Answered
        <4>4. \A st \in Steps : Answered(run.mem, st)'
          BY <2>2, <4>1, <4>2 DEF Answered, Written
        <4>5. \A st \in Steps : Answered(disk, st)' \/ disk' # run'.mem
          BY <4>4 DEF Answered
        <4> QED
          BY <2>1, <2>2, <4>1, <4>3, <4>4, <4>5 DEF SettledInv, Written, SameRun
      <3> QED
        BY <3>1 DEF SettledInv
    <2>4. TryingInv'
      <3>1. CASE settled' = "trying"
        <4>1. /\ run.scope = {} /\ run.cfg = config
              /\ \A k \in Places : k < run.idx => WillAnswer(FullPlan[k])
          BY <2>1, <2>2, <3>1 DEF TryingInv
        <4>2. \A st \in Steps : st = Step => WillAnswer(st)'
          BY <2>1, <2>2, <4>1, StepFacts DEF WillAnswer, Gated
        <4>3. \A k \in Places : FullPlan[k] \in Steps /\ (k # run.idx => FullPlan[k] # Step)
          BY <2>1, GoingOn, PlanFacts
        <4>4. \A k \in Places : k < run'.idx => k <= run.idx
          BY <2>1, <2>2, <4>1, <4>3, GoingOn, FullRun, PlanFacts
        <4>5. \A st \in Steps : WillAnswer(st) /\ st # Step => WillAnswer(st)'
          BY <2>2 DEF WillAnswer, Written
        <4>6. run.idx \in Nat /\ run'.idx \in Nat /\ Places \subseteq Nat
          BY <2>1, <2>2, GoingOn, StepFacts, PlanFacts
        <4>7. \A k \in Places : k < run'.idx => WillAnswer(FullPlan[k])'
          <5> TAKE k \in Places
          <5>1. CASE k = run.idx
            BY <4>2, <4>3, <5>1 DEF Step
          <5>2. CASE k # run.idx
            <6>1. k < run'.idx => k < run.idx
              BY <4>4, <4>6, <5>2
            <6>2. FullPlan[k] \in Steps /\ FullPlan[k] # Step
              BY <4>3, <5>2
            <6> QED
              BY <4>1, <4>5, <6>1, <6>2
          <5> QED
            BY <5>1, <5>2
        <4> QED
          BY <2>1, <2>2, <4>1, <4>7 DEF TryingInv, SameRun
      <3> QED
        BY <3>1 DEF TryingInv
    <2> QED
      BY <2>3, <2>4
  <1>5. CASE StartBody
    <2>1. ReachesGate /\ MoreSteps /\ pc = "step" /\ Deploying /\ run.cfg \in Configs
      BY <1>5 DEF StartBody, ReachesGate, AtStep, Deploying, RunInv
    <2>2. /\ run' \in Runs /\ disk' \in Journals
          /\ SameRun /\ run'.idx = run.idx /\ run'.seen = Seen
          /\ run'.mem.hash = run.mem.hash /\ run'.mem.step = run.mem.step
          /\ run'.mem.status = run.mem.status
          /\ IF Owner = Project \/ run.mem.last[Owner] = "in_progress"
             THEN disk' = disk /\ run'.mem = run.mem
             ELSE /\ disk' = run'.mem \/ ("save_error" \in Env /\ disk' = disk)
                  /\ run'.mem.last = [run.mem.last EXCEPT ![Owner] = "in_progress"]
          /\ pc' = "body" /\ done' = [done EXCEPT ![Step] = Torn]
          /\ UNCHANGED <<config, truth, exit, settled>>
      BY <1>5, StartBodyIs
    <2>3. SettledInv'
      <3>1. CASE settled' = "yes"
        <4>1. /\ run.cfg = config /\ ~run.force
              /\ \A st \in Steps : Answered(disk, st) /\ Answered(run.mem, st)
          BY <2>1, <2>2, <3>1 DEF SettledInv
        <4>2. Step \in Checked \cup Gated
          BY <2>1, <4>1, StepFacts DEF Answered, ReachesGate, SkipsByState, WhenFalse,
             JournalSkips, Skippable, Owner, Gated
        <4>3. \A st \in Steps : Answered(disk, st)' \/ disk' # disk
          BY <2>2, <4>1 DEF Answered
        <4>4. \A st \in Steps : Answered(run.mem, st)'
          BY <2>2, <4>1 DEF Answered
        <4>5. \A st \in Steps : Answered(disk, st)' \/ disk' # run'.mem
          BY <4>4 DEF Answered
        <4>6. Step' = Step
          BY <2>2 DEF Step
        <4> QED
          BY <2>1, <2>2, <4>1, <4>2, <4>3, <4>4, <4>5, <4>6 DEF SettledInv, SameRun
      <3> QED
        BY <3>1 DEF SettledInv
    <2>4. TryingInv'
      BY <2>1, <2>2 DEF TryingInv, WillAnswer, SameRun
    <2> QED
      BY <2>3, <2>4
  <1>6. CASE BodyOk
    <2>1. pc = "body" /\ MoreSteps /\ Deploying /\ run.cfg \in Configs
      BY <1>6 DEF BodyOk, Deploying, RunInv
    <2>2. /\ run' \in Runs /\ disk' \in Journals
          /\ SameRun /\ GoesOn /\ Written("ok") /\ run'.seen = run.seen
          /\ pc' = "step" /\ done' = [done EXCEPT ![Step] = DoneUnder(run.cfg, Step)]
          /\ UNCHANGED <<config, truth, exit, settled>>
      BY <1>6, BodyOkIs
    <2>3. SettledInv'
      <3>1. CASE settled' = "yes"
        <4>1. /\ run.cfg = config /\ ~run.force
              /\ \A st \in Steps : Answered(disk, st) /\ Answered(run.mem, st)
          BY <2>1, <2>2, <3>1 DEF SettledInv
        <4>2. Step \in Checked \cup Gated
          BY <2>1, <2>2, <3>1 DEF SettledInv
        <4>3. \A st \in Steps : Answered(disk, st)' \/ disk' # disk
          BY <2>2, <4>1 DEF Answered
        <4>4. \A st \in Steps : Answered(run.mem, st)'
          BY <2>2, <4>1, <4>2 DEF Answered, Written
        <4>5. \A st \in Steps : Answered(disk, st)' \/ disk' # run'.mem
          BY <4>4 DEF Answered
        <4> QED
          BY <2>1, <2>2, <4>1, <4>3, <4>4, <4>5 DEF SettledInv, Written, SameRun
      <3> QED
        BY <3>1 DEF SettledInv
    <2>4. TryingInv'
      <3>1. CASE settled' = "trying"
        <4>1. /\ run.scope = {} /\ run.cfg = config
              /\ \A k \in Places : k < run.idx => WillAnswer(FullPlan[k])
          BY <2>1, <2>2, <3>1 DEF TryingInv
        <4>2. \A st \in Steps : st = Step => WillAnswer(st)'
          BY <2>1, <2>2, <4>1, StepFacts DEF WillAnswer, Written, Skippable
        <4>3. \A k \in Places : FullPlan[k] \in Steps /\ (k # run.idx => FullPlan[k] # Step)
          BY <2>1, GoingOn, PlanFacts
        <4>4. \A k \in Places : k < run'.idx => k <= run.idx
          BY <2>1, <2>2, <4>1, <4>3, GoingOn, FullRun, PlanFacts
        <4>5. \A st \in Steps : WillAnswer(st) /\ st # Step => WillAnswer(st)'
          BY <2>2 DEF WillAnswer, Written
        <4>6. run.idx \in Nat /\ run'.idx \in Nat /\ Places \subseteq Nat
          BY <2>1, <2>2, GoingOn, StepFacts, PlanFacts
        <4>7. \A k \in Places : k < run'.idx => WillAnswer(FullPlan[k])'
          <5> TAKE k \in Places
          <5>1. CASE k = run.idx
            BY <4>2, <4>3, <5>1 DEF Step
          <5>2. CASE k # run.idx
            <6>1. k < run'.idx => k < run.idx
              BY <4>4, <4>6, <5>2
            <6>2. FullPlan[k] \in Steps /\ FullPlan[k] # Step
              BY <4>3, <5>2
            <6> QED
              BY <4>1, <4>5, <6>1, <6>2
          <5> QED
            BY <5>1, <5>2
        <4> QED
          BY <2>1, <2>2, <4>1, <4>7 DEF TryingInv, SameRun
      <3> QED
        BY <3>1 DEF TryingInv
    <2> QED
      BY <2>3, <2>4
  <1>7. CASE BodyFail
    <2>1. pc = "body" /\ MoreSteps /\ Deploying /\ run.cfg \in Configs
      BY <1>7 DEF BodyFail, Deploying, RunInv
    <2>2. /\ run' \in Runs /\ disk' \in Journals
          /\ SameRun /\ Written("failed") /\ run'.seen = run.seen
          /\ IF Step \in Lenient THEN pc' = "step" /\ GoesOn
             ELSE pc' = "abort" /\ run'.idx = run.idx
          /\ settled' = "no"
          /\ UNCHANGED <<config, truth, exit, done>>
      BY <1>7, BodyFailIs
    <2>3. SettledInv'
      BY <2>1, <2>2 DEF SettledInv, Answered, Deploying
    <2>4. TryingInv'
      BY <2>1, <2>2 DEF TryingInv, WillAnswer, Deploying
    <2> QED
      BY <2>3, <2>4
  <1>8. CASE GateError
    <2>1. pc = "step" /\ ReachesGate /\ Step \in Gated /\ MoreSteps /\ Deploying /\ run.cfg \in Configs
      BY <1>8 DEF GateError, ReachesGate, AtStep, Deploying, RunInv
    <2>2. /\ run' \in Runs /\ disk' \in Journals
          /\ SameRun /\ Written("failed") /\ run'.seen = run.seen
          /\ pc' = "abort" /\ settled' = "no"
          /\ UNCHANGED <<config, truth, exit, done>>
      BY <1>8, GateErrorIs
    <2>3. SettledInv'
      BY <2>1, <2>2 DEF SettledInv, Answered, Deploying
    <2>4. TryingInv'
      BY <2>1, <2>2 DEF TryingInv, WillAnswer, Deploying
    <2> QED
      BY <2>3, <2>4
  <1>9. CASE WhenError
    <2>1. /\ pc = "step" /\ Deploying
          /\ pc' = "abort" /\ settled' = "no"
          /\ UNCHANGED <<config, truth, disk, run, exit, done>>
      BY <1>9 DEF WhenError, AtStep, Deploying
    <2>2. SettledInv'
      BY <2>1 DEF SettledInv, Answered, Deploying
    <2>3. TryingInv'
      BY <2>1 DEF TryingInv, WillAnswer, Deploying
    <2> QED
      BY <2>2, <2>3
  <1>10. CASE PipelineFinish
    <2>1. Deploying /\ run.cfg \in Configs
      BY <1>10 DEF PipelineFinish, Deploying, RunInv
    <2>2. PICK success \in BOOLEAN :
          Finish(success) /\ (success => pc = "step" /\ ~MoreSteps) /\ (~success => pc = "abort")
      BY <1>10 DEF PipelineFinish
    <2>3. /\ run' \in Runs
          /\ disk' = Finished(success) \/ ("save_error" \in Env /\ disk' = disk)
          /\ pc' \in {"clear", "idle"}
          /\ pc' = "clear" => /\ success /\ disk' = Finished(success)
                              /\ run'.scope = run.scope /\ run'.cfg = run.cfg
          /\ settled' \in {"yes", "no"} \/ settled' = settled
          /\ settled' # "trying"
          /\ settled' = "yes" /\ settled # "yes" =>
                settled = "trying" /\ success /\ disk' = Finished(success)
          /\ exit' \in {"ok", "unsaved", "failed"}
          /\ UNCHANGED <<config, truth, done>>
      BY <1>10, <2>1, <2>2, FinishIs
    <2>4. /\ Finished(success) \in Journals
          /\ Finished(success).step = run.mem.step
          /\ \A s \in Scopes : Finished(success).hash[s] =
                IF s \in Stamped THEN ConfigHash(run.cfg, s) ELSE run.mem.hash[s]
      BY <1>10, <2>1, FinishedIs
    <2>5. SettledInv'
      <3>1. CASE settled' = "yes" /\ settled = "yes"
        <4>1. /\ run.cfg = config
              /\ \A st \in Steps : Answered(disk, st) /\ Answered(run.mem, st)
          BY <2>1, <3>1 DEF SettledInv
        <4>2. CASE disk' = disk
          BY <2>3, <4>1, <4>2 DEF SettledInv, Answered, Deploying
        <4>3. CASE disk' = Finished(success)
          BY <2>3, <2>4, <4>1, <4>3, PlanFacts DEF SettledInv, Answered, Deploying
        <4> QED
          BY <2>3, <4>2, <4>3
      <3>2. CASE settled' = "yes" /\ settled # "yes"
        <4>1. /\ settled = "trying" /\ success /\ disk' = Finished(success)
              /\ run.scope = {} /\ run.cfg = config /\ pc = "step" /\ ~MoreSteps
          BY <2>2, <2>3, <3>2 DEF TryingInv
        <4>2. \A k \in Places : k < run.idx
          BY <4>1, PlanFacts DEF MoreSteps, Places, TypeOK, Runs
        <4>3. \A st \in Steps : WillAnswer(st)
          BY <4>1, <4>2, PlanFacts DEF TryingInv
        <4>4. run.seen \cup {Project} = Stamped
          BY <4>1 DEF Stamped
        <4>5. \A st \in Steps : run.mem.step[st].status = "ok" =>
                  disk'.hash[OwnerOf[st]] = ConfigHash(config, OwnerOf[st])
          BY <2>1, <2>4, <4>1, <4>4, PlanFacts DEF StampInv
        <4>6. disk'.step = run.mem.step
          BY <2>4, <4>1
        <4>7. \A st \in Steps : Answered(disk, st)'
          BY <2>3, <4>3, <4>5, <4>6 DEF Answered, WillAnswer, Skippable
        <4> QED
          BY <2>3, <4>7 DEF SettledInv, Deploying
      <3> QED
        BY <3>1, <3>2 DEF SettledInv
    <2>6. TryingInv'
      BY <2>1, <2>2, <2>3, <2>4 DEF TryingInv, WillAnswer, Deploying
    <2> QED
      BY <2>5, <2>6
  <1>11. CASE ClearDeployedPending
    <2>1. /\ pc = "clear"
          /\ disk' \in Journals /\ disk'.step = disk.step /\ disk'.hash = disk.hash
          /\ pc' = "idle" /\ run' = NoRun
          /\ UNCHANGED <<config, truth, exit, done, settled>>
      BY <1>11, ClearDeployedPendingIs DEF ClearDeployedPending
    <2>2. SettledInv'
      BY <2>1 DEF SettledInv, Answered, Deploying
    <2>3. TryingInv'
      BY <2>1 DEF TryingInv, WillAnswer, Deploying
    <2> QED
      BY <2>2, <2>3
  <1>12. CASE ResetFinish
    <2>1. /\ pc = "reset" /\ disk' \in Journals
          /\ \A st \in Steps : disk'.step[st].status = "ok" =>
                /\ run.scope # {} /\ OwnerOf[st] \notin run.scope
                /\ disk'.step[st] = disk.step[st]
                /\ disk'.hash[OwnerOf[st]] = disk.hash[OwnerOf[st]]
          /\ pc' = "idle" /\ run' = NoRun
          /\ UNCHANGED <<config, truth, exit, done, settled>>
      BY <1>12, ResetFinishIs DEF ResetFinish
    <2>2. SettledInv'
      BY <2>1 DEF SettledInv, Answered, Deploying
    <2>3. TryingInv'
      BY <2>1 DEF TryingInv, WillAnswer, Deploying
    <2> QED
      BY <2>2, <2>3
  <1>13. CASE Crash
    <2>1. /\ "crash" \in Env /\ pc # "idle" /\ (pc = "reset" => "torn_reset" \in Env)
          /\ pc' = "idle" /\ run' = NoRun /\ exit' = "none" /\ settled' = "no"
          /\ UNCHANGED <<config, truth, disk, done>>
      BY <1>13 DEF Crash
    <2>2. SettledInv'
      BY <2>1 DEF SettledInv, Answered, Deploying
    <2>3. TryingInv'
      BY <2>1 DEF TryingInv, WillAnswer, Deploying
    <2> QED
      BY <2>2, <2>3
  <1>14. CASE Edit
    <2>1. /\ Editable # {} /\ config' \in Configs /\ settled' = "no"
          /\ UNCHANGED <<truth, disk, pc, run, exit, done>>
      BY <1>14, DeployAssumption DEF Edit, TypeOK, Configs
    <2>2. SettledInv'
      BY <2>1 DEF SettledInv, Answered, Deploying
    <2>3. TryingInv'
      BY <2>1 DEF TryingInv, WillAnswer, Deploying
    <2> QED
      BY <2>2, <2>3
  <1>15. CASE ConditionChange
    <2>1. /\ truth' \subseteq Conditional /\ settled' = "no"
          /\ UNCHANGED <<config, disk, pc, run, exit, done>>
      BY <1>15 DEF ConditionChange, TypeOK
    <2>2. SettledInv'
      BY <2>1 DEF SettledInv, Answered, Deploying
    <2>3. TryingInv'
      BY <2>1 DEF TryingInv, WillAnswer, Deploying
    <2> QED
      BY <2>2, <2>3
  <1>16. CASE StateRepair
    <2>1. /\ pc = "idle" /\ settled' = "no"
          /\ disk' \in Journals /\ disk'.step = disk.step /\ disk'.hash = disk.hash
          /\ UNCHANGED <<config, truth, pc, run, exit, done>>
      BY <1>16, RecomputeKeeps DEF StateRepair, TypeOK
    <2>2. SettledInv'
      BY <2>1 DEF SettledInv, Answered, Deploying
    <2>3. TryingInv'
      BY <2>1 DEF TryingInv, WillAnswer, Deploying
    <2> QED
      BY <2>2, <2>3
  <1>17. CASE StateClear
    <2>1. /\ pc = "idle" /\ settled' = "no"
          /\ disk' \in Journals /\ \A st \in Steps : disk'.step[st].status = "none"
          /\ UNCHANGED <<config, truth, pc, run, exit, done>>
      BY <1>17, EmptyType DEF StateClear, EmptyJournal, NoRecord
    <2>2. SettledInv'
      BY <2>1 DEF SettledInv, Answered, Deploying
    <2>3. TryingInv'
      BY <2>1 DEF TryingInv, WillAnswer, Deploying
    <2> QED
      BY <2>2, <2>3
  <1>18. CASE \E scope \in SUBSET Services : (scope = {} \/ \E s \in Services : scope = {s}) /\ ResetBegin(scope)
    <2>1. PICK scope \in SUBSET Services :
          (scope = {} \/ \E s \in Services : scope = {s}) /\ ResetBegin(scope)
      BY <1>18
    <2>2. /\ pc = "idle" /\ pc' = "reset" /\ settled' = "no"
          /\ run' = [NoRun EXCEPT !.scope = scope]
          /\ done' = [st \in Steps |-> IF scope = {} \/ OwnerOf[st] \in scope THEN Never ELSE done[st]]
          /\ UNCHANGED <<config, truth, disk, exit>>
      BY <1>18, <2>1 DEF ResetBegin
    <2>3. run' \in Runs /\ run'.scope = scope
      BY <1>18, <2>2, NoRunType DEF NoRun, Runs
    <2>4. SettledInv'
      BY <2>1, <2>2, <2>3 DEF SettledInv, Answered, Deploying
    <2>5. TryingInv'
      BY <2>1, <2>2, <2>3 DEF TryingInv, WillAnswer, Deploying
    <2> QED
      BY <2>4, <2>5
  <1>19. CASE ResetFail
    <2>1. /\ "torn_reset" \in Env /\ pc = "reset" /\ pc' = "idle" /\ run' = NoRun
          /\ UNCHANGED <<config, truth, disk, exit, done, settled>>
      BY <1>19 DEF ResetFail
    <2>2. SettledInv'
      BY <2>1 DEF SettledInv, Answered, Deploying
    <2>3. TryingInv'
      BY <2>1 DEF TryingInv, WillAnswer, Deploying
    <2> QED
      BY <2>2, <2>3
  <1>20. CASE UNCHANGED vars
    <2>1. UNCHANGED <<config, truth, disk, pc, run, exit, done, settled>>
      BY <1>20 DEF vars
    <2>2. SettledInv'
      BY <2>1 DEF SettledInv, Answered, Deploying, Step
    <2>3. TryingInv'
      BY <2>1 DEF TryingInv, WillAnswer, Deploying
    <2> QED
      BY <2>2, <2>3
  <1> QED
    BY <1>1, <1>2, <1>3, <1>4, <1>5, <1>6, <1>7, <1>8, <1>9, <1>10, <1>11, <1>12, <1>13,
       <1>14, <1>15, <1>16, <1>17, <1>18, <1>19, <1>20 DEF Next, Progress, Mishap, ResetEnds,
         ResetOutcomes

-----------------------------------------------------------------------------
LEMMA OkStep ==
    ASSUME Orderly, TypeOK, StampInv, RunInv, DiskInv, MemInv, ActionInv, AheadInv,
           PassedInv, OkMeansDeployed, [Next]_vars
    PROVE  /\ DiskInv' /\ MemInv' /\ ActionInv' /\ AheadInv'
           /\ PassedInv' /\ OkMeansDeployed'
PROOF
  <1>1. CASE \E scope \in RunScopes, request \in RequestsMade : RunHelper(scope, request)
    <2>1. PICK scope \in RunScopes, request \in RequestsMade : RunHelper(scope, request)
      BY <1>1
    <2>2. pc = "idle" /\ scope \in SUBSET Services
      BY <2>1, RunHelperIs DEF RunScopes
    <2>3. CASE /\ exit' \in {"uptodate", "refused"}
               /\ UNCHANGED <<config, truth, disk, pc, run, done, settled>>
      <3>1. DiskInv'
        BY <2>2, <2>3 DEF DiskInv, Believed, BeingReset, Deploying, LeftBehind, Orderly
      <3>2. MemInv'
        BY <2>2, <2>3 DEF MemInv, Effective, Deploying, SameRun, Step
      <3>3. ActionInv'
        BY <2>2, <2>3 DEF ActionInv, Deploying, SameRun
      <3>4. AheadInv'
        BY <2>2, <2>3 DEF AheadInv, Deploying, SameRun, LeftBehind
      <3>5. PassedInv'
        BY <2>2, <2>3 DEF PassedInv, Effective, SameRun
      <3>6. OkMeansDeployed'
        BY <2>2, <2>3 DEF OkMeansDeployed, Effective
      <3> QED
        BY <3>1, <3>2, <3>3, <3>4, <3>5, <3>6
    <2>4. CASE \E force \in BOOLEAN : Start(scope, force) /\ (force => "force" \in Env)
      <3>1. PICK force \in BOOLEAN : Start(scope, force) /\ (force => "force" \in Env)
        BY <2>4
      <3>2. /\ run' \in Runs
            /\ run'.cfg = config /\ run'.scope = scope /\ run'.force = force
            /\ run'.idx = 1 /\ run'.seen = {}
            /\ ~force => /\ run'.mem.hash = disk.hash
                         /\ run'.mem.status = disk.status
                         /\ \A s \in Services : run'.mem.last[s] = disk.last[s]
            /\ force => \A s \in Services : /\ run'.mem.last[s] = "none"
                                            /\ run'.mem.status[s] = "none"
            /\ \A st \in Steps : run'.mem.step[st] =
                  IF ~force /\ disk.hash[OwnerOf[st]] = ConfigHash(config, OwnerOf[st])
                  THEN disk.step[st] ELSE NoRecord
            /\ pc' = "step"
            /\ settled' = IF scope = {} /\ (settled = "no" \/ force) THEN "trying"
                          ELSE IF force THEN "no" ELSE settled
            /\ UNCHANGED <<config, truth, disk, exit, done>>
        BY <3>1, StartIs
      <3>3. DiskInv'
        BY <2>2, <3>1, <3>2 DEF DiskInv, Believed, BeingReset, Deploying, LeftBehind,
           Orderly, NoRecord
      <3>4. MemInv'
        <4>1. \A st \in Steps \ (Checked \cup Producers) : run'.mem.step[st].status = "ok" =>
                 /\ disk.step[st].status = "ok"
                 /\ disk.hash[OwnerOf[st]] = ConfigHash(config, OwnerOf[st])
          BY <3>2 DEF NoRecord
        <4>2. \A st \in Steps \ (Checked \cup Producers) : run'.mem.step[st].status = "ok" =>
                 done[st] = DoneUnder(config, st)
          BY <2>2, <4>1 DEF DiskInv, Believed, BeingReset, Deploying, DoneUnder
        <4> QED
          BY <3>2, <4>2 DEF MemInv, Effective
      <3>5. ActionInv'
        BY <2>2, <3>1, <3>2 DEF ActionInv, Deploying, SameRun, NoRecord
      <3>6. AheadInv'
        <4>1. CASE LeftBehind
          <5>1. ~force
            BY <3>1, <4>1 DEF Orderly
          <5>2. \A k \in Places : FullPlan[k] \in Steps
            BY PlanFacts
          <5>3. \A k \in Places :
                   run'.mem.hash[OwnerOf[FullPlan[k]]] = ConfigHash(config, OwnerOf[FullPlan[k]]) =>
                      run'.mem.step[FullPlan[k]] = disk'.step[FullPlan[k]]
            BY <3>2, <5>1, <5>2
          <5> QED
            BY <3>2, <5>1, <5>3 DEF AheadInv
        <4>2. CASE ~LeftBehind
          BY <4>2 DEF AheadInv, LeftBehind
        <4> QED
          BY <4>1, <4>2
      <3>7. PassedInv'
        <4>1. \A k \in Places : ~(k < run'.idx)
          BY <3>2, PlanFacts DEF Places
        <4> QED
          BY <4>1 DEF PassedInv
      <3>8. OkMeansDeployed'
        BY <2>2, <3>1, <3>2 DEF OkMeansDeployed, Effective, NoRecord
      <3> QED
        BY <3>3, <3>4, <3>5, <3>6, <3>7, <3>8
    <2> QED
      BY <2>1, <2>3, <2>4, RunHelperIs
  <1>2. CASE SkipWhen
    <2>1. AtStep /\ WhenFalse /\ MoreSteps /\ pc = "step" /\ Deploying /\ run.cfg \in Configs
      BY <1>2 DEF SkipWhen, AtStep, Deploying, RunInv
    <2>2. /\ run' \in Runs /\ disk' \in Journals
          /\ SameRun /\ GoesOn /\ Written("skipped") /\ run'.seen = Seen
          /\ UNCHANGED <<config, truth, pc, exit, done, settled>>
      BY <1>2, <2>1, SkipRecordedIs DEF SkipWhen
    <2>3. DiskInv'
      <3>1. CASE LeftBehind
        <4>1. Editable = {} /\ run.cfg = config /\ config' = config /\ pc' \notin {"body", "reset"}
          BY <2>1, <2>2, <3>1 DEF Orderly, ActionInv
        <4>2. \A st \in Steps \ (Checked \cup Producers) :
                 run.mem.step[st].status = "ok" /\ st # Step => done[st] = DoneUnder(config, st)
          BY <2>1, <4>1 DEF MemInv, Effective
        <4>3. \A st \in Steps : Believed(st) => done[st] = DoneUnder(config, st)
          BY <2>1, <3>1, <4>1 DEF DiskInv, BeingReset, Deploying, Believed, DoneUnder
        <4>4. done' = done
          BY <2>2
        <4>5. \A st \in Steps : Believed(st)' => done'[st] = DoneUnder(config, st)
          <5>1. CASE disk' = disk
            BY <4>1, <4>3, <4>4, <5>1 DEF Believed
          <5>2. CASE disk' = run'.mem
            BY <2>2, <4>1, <4>2, <4>4, <5>2 DEF Believed, Written
          <5> QED
            BY <2>2, <5>1, <5>2 DEF Written
        <4> QED
          BY <4>1, <4>5 DEF DiskInv, Believed, DoneUnder
      <3>2. CASE ~LeftBehind
        BY <2>1, <2>2, <3>2 DEF DiskInv, Deploying, LeftBehind
      <3> QED
        BY <3>1, <3>2
    <2>4. MemInv'
      <3>1. \A st \in Steps \ (Checked \cup Producers) :
               run.mem.step[st].status = "ok" /\ st # Step => done[st] = DoneUnder(run.cfg, st)
        BY <2>1 DEF MemInv, Effective
      <3>2. \A st \in Steps : run'.mem.step[st].status = "ok" =>
               st # Step /\ run.mem.step[st].status = "ok"
        BY <2>2 DEF Written
      <3>3. \A st \in Steps \ (Checked \cup Producers) :
               run'.mem.step[st].status = "ok" => done'[st] = DoneUnder(run'.cfg, st)
        BY <2>2, <3>1, <3>2 DEF SameRun
      <3> QED
        BY <3>3 DEF MemInv, Effective
    <2>5. ActionInv'
      <3>1. CASE Editable = {}
        <4>1. /\ run.cfg = config /\ run'.cfg = config'
              /\ \A st \in Steps : disk.step[st].status = "ok" =>
                    disk.step[st].action = ActionHash(config, st)
              /\ \A st \in Steps : run.mem.step[st].status = "ok" =>
                    run.mem.step[st].action = ActionHash(config, st)
          BY <2>1, <2>2, <3>1 DEF ActionInv, SameRun
        <4>2. \A st \in Steps : run'.mem.step[st].status = "ok" =>
                 run'.mem.step[st].action = ActionHash(config, st)
          BY <2>2, <4>1 DEF Written
        <4>3. \A st \in Steps : disk'.step[st].status = "ok" =>
                 disk'.step[st].action = ActionHash(config, st)
          BY <2>2, <4>1, <4>2 DEF Written
        <4> QED
          BY <2>2, <4>1, <4>2, <4>3 DEF ActionInv
      <3> QED
        BY <3>1 DEF ActionInv
    <2>6. AheadInv'
      <3>1. CASE LeftBehind
        <4>1. run'.mem.hash = disk'.hash
          BY <2>1, <2>2, <3>1 DEF AheadInv, Written
        <4>2. \A k \in Places :
                 /\ FullPlan[k] \in Steps
                 /\ k >= run'.idx => k >= run.idx /\ FullPlan[k] # Step
          <5> TAKE k \in Places
          <5>1. k \in Nat /\ run.idx \in Nat /\ FullPlan[k] \in Steps
            BY <2>1, StepFacts, PlanFacts
          <5>2. k >= run'.idx => k > run.idx
            BY <2>1, <2>2, GoingOn
          <5>3. k # run.idx => FullPlan[k] # Step
            BY <2>1, GoingOn
          <5> QED
            BY <5>1, <5>2, <5>3
        <4>3. ASSUME NEW k \in Places, k >= run'.idx,
                     run'.mem.hash[OwnerOf[FullPlan[k]]]
                        = ConfigHash(run'.cfg, OwnerOf[FullPlan[k]])
              PROVE  run'.mem.step[FullPlan[k]] = disk'.step[FullPlan[k]]
          <5>1. run.mem.step[FullPlan[k]] = disk.step[FullPlan[k]]
            BY <2>1, <2>2, <3>1, <4>2, <4>3 DEF AheadInv, Written, SameRun
          <5>2. run'.mem.step[FullPlan[k]] = run.mem.step[FullPlan[k]]
            BY <2>2, <4>2, <4>3 DEF Written
          <5> QED
            BY <2>2, <5>1, <5>2 DEF Written
        <4> QED
          BY <4>1, <4>3 DEF AheadInv
      <3>2. CASE ~LeftBehind
        BY <3>2 DEF AheadInv, LeftBehind
      <3> QED
        BY <3>1, <3>2
    <2>7. PassedInv'
      <3>1. ASSUME NEW k \in Places, k < run'.idx, FullPlan[k] \in Plan(run.scope) \ Lenient
            PROVE  \/ run'.mem.step[FullPlan[k]].status = "skipped"
                   \/ /\ run'.mem.step[FullPlan[k]].status = "ok"
                      /\ done'[FullPlan[k]] = DoneUnder(run'.cfg, FullPlan[k])
        <4>1. k \in Nat /\ run.idx \in Nat /\ FullPlan[k] \in Steps
          BY <2>1, StepFacts, PlanFacts
        <4>2. k <= run.idx
          BY <2>1, <2>2, <3>1, GoingOn
        <4>3. CASE k = run.idx
          BY <2>1, <2>2, <3>1, <4>1, <4>3, StepFacts DEF Step, Written, SameRun, TypeOK
        <4>4. CASE k < run.idx
          <5>1. FullPlan[k] # Step
            BY <2>1, <4>1, <4>4, GoingOn
          <5>2. \/ run.mem.step[FullPlan[k]].status = "skipped"
                \/ /\ run.mem.step[FullPlan[k]].status = "ok"
                   /\ done[FullPlan[k]] = DoneUnder(run.cfg, FullPlan[k])
            BY <2>1, <3>1, <4>4 DEF PassedInv, Effective
          <5>3. done'[FullPlan[k]] = done[FullPlan[k]]
            BY <2>2, <4>1, <5>1 DEF TypeOK
          <5> QED
            BY <2>2, <4>1, <5>1, <5>2, <5>3 DEF Written, SameRun
        <4> QED
          BY <4>1, <4>2, <4>3, <4>4
      <3> QED
        BY <2>2, <3>1 DEF PassedInv, Effective, SameRun
    <2>8. OkMeansDeployed'
      BY <2>1, <2>2 DEF OkMeansDeployed, Effective
    <2> QED
      BY <2>3, <2>4, <2>5, <2>6, <2>7, <2>8
  <1>3. CASE SkipState
    <2>1. AtStep /\ SkipsByState /\ MoreSteps /\ pc = "step" /\ Deploying /\ run.cfg \in Configs
      BY <1>3 DEF SkipState, AtStep, Deploying, RunInv
    <2>2. /\ run' \in Runs /\ SameRun /\ GoesOn
          /\ run'.mem = run.mem /\ run'.seen = run.seen
          /\ UNCHANGED <<config, truth, disk, pc, exit, done, settled>>
      BY <1>3, SkipStateIs
    <2>3. DiskInv'
      BY <2>1, <2>2 DEF DiskInv, Believed, BeingReset, Deploying, LeftBehind, Orderly
    <2>4. MemInv'
      BY <2>1, <2>2 DEF MemInv, Effective, Deploying, SameRun, Step
    <2>5. ActionInv'
      BY <2>1, <2>2 DEF ActionInv, Deploying, SameRun
    <2>6. AheadInv'
      <3>1. CASE LeftBehind
        <4>1. \A k \in Places : k >= run'.idx => k >= run.idx
          <5> TAKE k \in Places
          <5>1. k \in Nat /\ run.idx \in Nat
            BY <2>1, StepFacts, PlanFacts
          <5>2. k >= run'.idx => k > run.idx
            BY <2>1, <2>2, GoingOn
          <5> QED
            BY <5>1, <5>2
        <4> QED
          BY <2>1, <2>2, <3>1, <4>1 DEF AheadInv, SameRun
      <3>2. CASE ~LeftBehind
        BY <3>2 DEF AheadInv, LeftBehind
      <3> QED
        BY <3>1, <3>2
    <2>7. PassedInv'
      <3>1. /\ run.mem.step[Step].status = "ok" /\ Step \notin Checked \cup Producers
            /\ Step \in Steps
        BY <2>1, StepFacts DEF SkipsByState, JournalSkips, Skippable
      <3>2. done[Step] = DoneUnder(run.cfg, Step)
        BY <2>1, <3>1 DEF MemInv, Effective
      <3>3. ASSUME NEW k \in Places, k < run'.idx, FullPlan[k] \in Plan(run.scope) \ Lenient
            PROVE  \/ run.mem.step[FullPlan[k]].status = "skipped"
                   \/ /\ run.mem.step[FullPlan[k]].status = "ok"
                      /\ done[FullPlan[k]] = DoneUnder(run.cfg, FullPlan[k])
        <4>1. k \in Nat /\ run.idx \in Nat
          BY <2>1, StepFacts, PlanFacts
        <4>2. k <= run.idx
          BY <2>1, <2>2, <3>3, GoingOn
        <4>3. CASE k = run.idx
          BY <3>1, <3>2, <4>3 DEF Step
        <4>4. CASE k < run.idx
          BY <2>1, <3>3, <4>4 DEF PassedInv, Effective
        <4> QED
          BY <4>1, <4>2, <4>3, <4>4
      <3> QED
        BY <2>2, <3>3 DEF PassedInv, Effective, SameRun
    <2>8. OkMeansDeployed'
      BY <2>1, <2>2 DEF OkMeansDeployed, Effective
    <2> QED
      BY <2>3, <2>4, <2>5, <2>6, <2>7, <2>8
  <1>4. CASE SkipGate
    <2>1. ReachesGate /\ Step \in Gated /\ MoreSteps /\ pc = "step" /\ Deploying /\ run.cfg \in Configs
      BY <1>4 DEF SkipGate, ReachesGate, AtStep, Deploying, RunInv
    <2>2. /\ run' \in Runs /\ disk' \in Journals
          /\ SameRun /\ GoesOn /\ Written("skipped") /\ run'.seen = Seen
          /\ UNCHANGED <<config, truth, pc, exit, done, settled>>
      BY <1>4, <2>1, SkipRecordedIs DEF SkipGate
    <2>3. DiskInv'
      <3>1. CASE LeftBehind
        <4>1. Editable = {} /\ run.cfg = config /\ config' = config /\ pc' \notin {"body", "reset"}
          BY <2>1, <2>2, <3>1 DEF Orderly, ActionInv
        <4>2. \A st \in Steps \ (Checked \cup Producers) :
                 run.mem.step[st].status = "ok" /\ st # Step => done[st] = DoneUnder(config, st)
          BY <2>1, <4>1 DEF MemInv, Effective
        <4>3. \A st \in Steps : Believed(st) => done[st] = DoneUnder(config, st)
          BY <2>1, <3>1, <4>1 DEF DiskInv, BeingReset, Deploying, Believed, DoneUnder
        <4>4. done' = done
          BY <2>2
        <4>5. \A st \in Steps : Believed(st)' => done'[st] = DoneUnder(config, st)
          <5>1. CASE disk' = disk
            BY <4>1, <4>3, <4>4, <5>1 DEF Believed
          <5>2. CASE disk' = run'.mem
            BY <2>2, <4>1, <4>2, <4>4, <5>2 DEF Believed, Written
          <5> QED
            BY <2>2, <5>1, <5>2 DEF Written
        <4> QED
          BY <4>1, <4>5 DEF DiskInv, Believed, DoneUnder
      <3>2. CASE ~LeftBehind
        BY <2>1, <2>2, <3>2 DEF DiskInv, Deploying, LeftBehind
      <3> QED
        BY <3>1, <3>2
    <2>4. MemInv'
      <3>1. \A st \in Steps \ (Checked \cup Producers) :
               run.mem.step[st].status = "ok" /\ st # Step => done[st] = DoneUnder(run.cfg, st)
        BY <2>1 DEF MemInv, Effective
      <3>2. \A st \in Steps : run'.mem.step[st].status = "ok" =>
               st # Step /\ run.mem.step[st].status = "ok"
        BY <2>2 DEF Written
      <3>3. \A st \in Steps \ (Checked \cup Producers) :
               run'.mem.step[st].status = "ok" => done'[st] = DoneUnder(run'.cfg, st)
        BY <2>2, <3>1, <3>2 DEF SameRun
      <3> QED
        BY <3>3 DEF MemInv, Effective
    <2>5. ActionInv'
      <3>1. CASE Editable = {}
        <4>1. /\ run.cfg = config /\ run'.cfg = config'
              /\ \A st \in Steps : disk.step[st].status = "ok" =>
                    disk.step[st].action = ActionHash(config, st)
              /\ \A st \in Steps : run.mem.step[st].status = "ok" =>
                    run.mem.step[st].action = ActionHash(config, st)
          BY <2>1, <2>2, <3>1 DEF ActionInv, SameRun
        <4>2. \A st \in Steps : run'.mem.step[st].status = "ok" =>
                 run'.mem.step[st].action = ActionHash(config, st)
          BY <2>2, <4>1 DEF Written
        <4>3. \A st \in Steps : disk'.step[st].status = "ok" =>
                 disk'.step[st].action = ActionHash(config, st)
          BY <2>2, <4>1, <4>2 DEF Written
        <4> QED
          BY <2>2, <4>1, <4>2, <4>3 DEF ActionInv
      <3> QED
        BY <3>1 DEF ActionInv
    <2>6. AheadInv'
      <3>1. CASE LeftBehind
        <4>1. run'.mem.hash = disk'.hash
          BY <2>1, <2>2, <3>1 DEF AheadInv, Written
        <4>2. \A k \in Places :
                 /\ FullPlan[k] \in Steps
                 /\ k >= run'.idx => k >= run.idx /\ FullPlan[k] # Step
          <5> TAKE k \in Places
          <5>1. k \in Nat /\ run.idx \in Nat /\ FullPlan[k] \in Steps
            BY <2>1, StepFacts, PlanFacts
          <5>2. k >= run'.idx => k > run.idx
            BY <2>1, <2>2, GoingOn
          <5>3. k # run.idx => FullPlan[k] # Step
            BY <2>1, GoingOn
          <5> QED
            BY <5>1, <5>2, <5>3
        <4>3. ASSUME NEW k \in Places, k >= run'.idx,
                     run'.mem.hash[OwnerOf[FullPlan[k]]]
                        = ConfigHash(run'.cfg, OwnerOf[FullPlan[k]])
              PROVE  run'.mem.step[FullPlan[k]] = disk'.step[FullPlan[k]]
          <5>1. run.mem.step[FullPlan[k]] = disk.step[FullPlan[k]]
            BY <2>1, <2>2, <3>1, <4>2, <4>3 DEF AheadInv, Written, SameRun
          <5>2. run'.mem.step[FullPlan[k]] = run.mem.step[FullPlan[k]]
            BY <2>2, <4>2, <4>3 DEF Written
          <5> QED
            BY <2>2, <5>1, <5>2 DEF Written
        <4> QED
          BY <4>1, <4>3 DEF AheadInv
      <3>2. CASE ~LeftBehind
        BY <3>2 DEF AheadInv, LeftBehind
      <3> QED
        BY <3>1, <3>2
    <2>7. PassedInv'
      <3>1. ASSUME NEW k \in Places, k < run'.idx, FullPlan[k] \in Plan(run.scope) \ Lenient
            PROVE  \/ run'.mem.step[FullPlan[k]].status = "skipped"
                   \/ /\ run'.mem.step[FullPlan[k]].status = "ok"
                      /\ done'[FullPlan[k]] = DoneUnder(run'.cfg, FullPlan[k])
        <4>1. k \in Nat /\ run.idx \in Nat /\ FullPlan[k] \in Steps
          BY <2>1, StepFacts, PlanFacts
        <4>2. k <= run.idx
          BY <2>1, <2>2, <3>1, GoingOn
        <4>3. CASE k = run.idx
          BY <2>1, <2>2, <3>1, <4>1, <4>3, StepFacts DEF Step, Written, SameRun, TypeOK
        <4>4. CASE k < run.idx
          <5>1. FullPlan[k] # Step
            BY <2>1, <4>1, <4>4, GoingOn
          <5>2. \/ run.mem.step[FullPlan[k]].status = "skipped"
                \/ /\ run.mem.step[FullPlan[k]].status = "ok"
                   /\ done[FullPlan[k]] = DoneUnder(run.cfg, FullPlan[k])
            BY <2>1, <3>1, <4>4 DEF PassedInv, Effective
          <5>3. done'[FullPlan[k]] = done[FullPlan[k]]
            BY <2>2, <4>1, <5>1 DEF TypeOK
          <5> QED
            BY <2>2, <4>1, <5>1, <5>2, <5>3 DEF Written, SameRun
        <4> QED
          BY <4>1, <4>2, <4>3, <4>4
      <3> QED
        BY <2>2, <3>1 DEF PassedInv, Effective, SameRun
    <2>8. OkMeansDeployed'
      BY <2>1, <2>2 DEF OkMeansDeployed, Effective
    <2> QED
      BY <2>3, <2>4, <2>5, <2>6, <2>7, <2>8
  <1>5. CASE StartBody
    <2>1. ReachesGate /\ MoreSteps /\ pc = "step" /\ Deploying /\ run.cfg \in Configs
      BY <1>5 DEF StartBody, ReachesGate, AtStep, Deploying, RunInv
    <2>2. /\ run' \in Runs /\ disk' \in Journals
          /\ SameRun /\ run'.idx = run.idx /\ run'.seen = Seen
          /\ run'.mem.hash = run.mem.hash /\ run'.mem.step = run.mem.step
          /\ run'.mem.status = run.mem.status
          /\ IF Owner = Project \/ run.mem.last[Owner] = "in_progress"
             THEN disk' = disk /\ run'.mem = run.mem
             ELSE /\ disk' = run'.mem \/ ("save_error" \in Env /\ disk' = disk)
                  /\ run'.mem.last = [run.mem.last EXCEPT ![Owner] = "in_progress"]
          /\ pc' = "body" /\ done' = [done EXCEPT ![Step] = Torn]
          /\ UNCHANGED <<config, truth, exit, settled>>
      BY <1>5, StartBodyIs
    <2>3. DiskInv'
      <3>1. CASE LeftBehind
        <4>1. /\ Editable = {} /\ run.cfg = config /\ ~run.force
              /\ run.mem.hash = disk.hash
          BY <2>1, <3>1 DEF Orderly, ActionInv, RunInv, AheadInv
        <4>2. ~Believed(Step)
          <5>1. SUFFICES ASSUME Believed(Step) PROVE FALSE
            OBVIOUS
          <5>2. /\ Step \notin Checked \cup Producers /\ disk.step[Step].status = "ok"
                /\ run.mem.hash[Owner] = ConfigHash(run.cfg, Owner)
            BY <4>1, <5>1 DEF Believed, Owner
          <5>3. run.idx \in Places /\ run.idx \in Nat /\ Step \in Steps
            BY <2>1, StepFacts, PlanFacts
          <5>4. run.mem.step[Step] = disk.step[Step]
            BY <2>1, <3>1, <5>2, <5>3 DEF AheadInv, Step, Owner
          <5>5. disk.step[Step].action = ActionHash(run.cfg, Step)
            BY <4>1, <5>2, <5>3 DEF ActionInv
          <5>6. SkipsByState \/ WhenFalse
            BY <4>1, <5>2, <5>4, <5>5 DEF SkipsByState, JournalSkips, Skippable
          <5> QED
            BY <2>1, <5>6, <5>2 DEF ReachesGate, SkipsByState
        <4>3. \A st \in Steps : Believed(st) => done[st] = DoneUnder(config, st)
          BY <2>1, <3>1, <4>1 DEF DiskInv, BeingReset, Deploying, Believed, DoneUnder
        <4>4. \A st \in Steps : st # Step => done'[st] = done[st]
          BY <2>1, <2>2, StepFacts DEF TypeOK
        <4>5. \A st \in Steps : Believed(st)' => done'[st] = DoneUnder(config, st)
          <5>1. CASE disk' = disk
            BY <2>2, <4>1, <4>2, <4>3, <4>4, <5>1 DEF Believed
          <5>2. CASE disk' = run'.mem
            <6>1. \A st \in Steps \ (Checked \cup Producers) :
                     run.mem.step[st].status = "ok" => done[st] = DoneUnder(config, st)
              BY <2>1, <4>1 DEF MemInv, Effective
            <6>2. \A st \in Steps : Believed(st)' => st # Step
              <7>1. SUFFICES ASSUME NEW st \in Steps, st = Step, Believed(st)' PROVE FALSE
                OBVIOUS
              <7>2. /\ st \notin Checked \cup Producers /\ run.mem.step[st].status = "ok"
                    /\ run.mem.hash[OwnerOf[st]] = ConfigHash(config, OwnerOf[st])
                BY <2>2, <4>1, <5>2, <7>1 DEF Believed
              <7>3. run.mem.step[st].action = ActionHash(config, st)
                BY <2>1, <4>1, <7>1, <7>2 DEF ActionInv
              <7>4. SkipsByState \/ WhenFalse
                BY <4>1, <7>1, <7>2, <7>3 DEF SkipsByState, JournalSkips, Skippable, Owner
              <7> QED
                BY <2>1, <7>4 DEF ReachesGate, SkipsByState
            <6> QED
              BY <2>2, <4>1, <4>4, <5>2, <6>1, <6>2 DEF Believed
          <5> QED
            BY <2>2, <5>1, <5>2
        <4> QED
          BY <2>2, <4>1, <4>5 DEF DiskInv, Believed, DoneUnder
      <3>2. CASE ~LeftBehind
        BY <2>1, <2>2, <3>2 DEF DiskInv, Deploying, LeftBehind
      <3> QED
        BY <3>1, <3>2
    <2>4. MemInv'
      BY <2>1, <2>2 DEF MemInv, Effective, Deploying, SameRun, Step
    <2>5. ActionInv'
      BY <2>1, <2>2 DEF ActionInv, Deploying, SameRun
    <2>6. AheadInv'
      BY <2>1, <2>2 DEF AheadInv, Deploying, SameRun, LeftBehind
    <2>7. PassedInv'
      <3>1. \A k \in Places : k < run.idx => FullPlan[k] # Step /\ FullPlan[k] \in Steps
        <4> TAKE k \in Places
        <4>1. k \in Nat /\ run.idx \in Nat /\ FullPlan[k] \in Steps
          BY <2>1, StepFacts, PlanFacts
        <4>2. k # run.idx => FullPlan[k] # Step
          BY <2>1, GoingOn
        <4> QED
          BY <4>1, <4>2
      <3>2. \A st \in Steps : st # Step => done'[st] = done[st]
        BY <2>2 DEF TypeOK
      <3>3. \A k \in Places : k < run.idx => done'[FullPlan[k]] = done[FullPlan[k]]
        BY <3>1, <3>2
      <3> QED
        BY <2>1, <2>2, <3>3 DEF PassedInv, Effective, SameRun
    <2>8. OkMeansDeployed'
      BY <2>1, <2>2 DEF OkMeansDeployed, Effective
    <2> QED
      BY <2>3, <2>4, <2>5, <2>6, <2>7, <2>8
  <1>6. CASE BodyOk
    <2>1. pc = "body" /\ MoreSteps /\ Deploying /\ run.cfg \in Configs
      BY <1>6 DEF BodyOk, Deploying, RunInv
    <2>2. /\ run' \in Runs /\ disk' \in Journals
          /\ SameRun /\ GoesOn /\ Written("ok") /\ run'.seen = run.seen
          /\ pc' = "step" /\ done' = [done EXCEPT ![Step] = DoneUnder(run.cfg, Step)]
          /\ UNCHANGED <<config, truth, exit, settled>>
      BY <1>6, BodyOkIs
    <2>3. DiskInv'
      <3>1. CASE LeftBehind
        <4>1. Editable = {} /\ run.cfg = config /\ config' = config /\ pc' \notin {"body", "reset"}
          BY <2>1, <2>2, <3>1 DEF Orderly, ActionInv
        <4>2. \A st \in Steps \ (Checked \cup Producers) :
                 run.mem.step[st].status = "ok" /\ st # Step => done[st] = DoneUnder(config, st)
          BY <2>1, <4>1 DEF MemInv, Effective
        <4>3. \A st \in Steps : Believed(st) => done[st] = DoneUnder(config, st)
          BY <2>1, <3>1, <4>1 DEF DiskInv, BeingReset, Deploying, Believed, DoneUnder
        <4>4. /\ \A st \in Steps : st # Step => done'[st] = done[st]
              /\ done'[Step] = DoneUnder(config, Step)
          BY <2>1, <2>2, <4>1, StepFacts DEF TypeOK
        <4>5. \A st \in Steps : Believed(st)' => done'[st] = DoneUnder(config, st)
          <5>1. CASE disk' = disk
            BY <4>1, <4>3, <4>4, <5>1 DEF Believed
          <5>2. CASE disk' = run'.mem
            BY <2>2, <4>1, <4>2, <4>4, <5>2 DEF Believed, Written
          <5> QED
            BY <2>2, <5>1, <5>2 DEF Written
        <4> QED
          BY <4>1, <4>5 DEF DiskInv, Believed, DoneUnder
      <3>2. CASE ~LeftBehind
        BY <2>1, <2>2, <3>2 DEF DiskInv, Deploying, LeftBehind
      <3> QED
        BY <3>1, <3>2
    <2>4. MemInv'
      <3>1. \A st \in Steps \ (Checked \cup Producers) :
               run.mem.step[st].status = "ok" /\ st # Step => done[st] = DoneUnder(run.cfg, st)
        BY <2>1 DEF MemInv, Effective
      <3>2. \A st \in Steps : run'.mem.step[st].status = "ok" =>
               st = Step \/ run.mem.step[st].status = "ok"
        BY <2>2 DEF Written
      <3>3. /\ done'[Step] = DoneUnder(run.cfg, Step)
            /\ \A st \in Steps : st # Step => done'[st] = done[st]
        BY <2>1, <2>2, StepFacts DEF TypeOK
      <3>4. \A st \in Steps \ (Checked \cup Producers) :
               run'.mem.step[st].status = "ok" => done'[st] = DoneUnder(run'.cfg, st)
        BY <2>2, <3>1, <3>2, <3>3 DEF SameRun
      <3> QED
        BY <3>4 DEF MemInv, Effective
    <2>5. ActionInv'
      <3>1. CASE Editable = {}
        <4>1. /\ run.cfg = config /\ run'.cfg = config'
              /\ \A st \in Steps : disk.step[st].status = "ok" =>
                    disk.step[st].action = ActionHash(config, st)
              /\ \A st \in Steps : run.mem.step[st].status = "ok" =>
                    run.mem.step[st].action = ActionHash(config, st)
          BY <2>1, <2>2, <3>1 DEF ActionInv, SameRun
        <4>2. \A st \in Steps : run'.mem.step[st].status = "ok" =>
                 run'.mem.step[st].action = ActionHash(config, st)
          BY <2>2, <4>1 DEF Written
        <4>3. \A st \in Steps : disk'.step[st].status = "ok" =>
                 disk'.step[st].action = ActionHash(config, st)
          BY <2>2, <4>1, <4>2 DEF Written
        <4> QED
          BY <2>2, <4>1, <4>2, <4>3 DEF ActionInv
      <3> QED
        BY <3>1 DEF ActionInv
    <2>6. AheadInv'
      <3>1. CASE LeftBehind
        <4>1. run'.mem.hash = disk'.hash
          BY <2>1, <2>2, <3>1 DEF AheadInv, Written
        <4>2. \A k \in Places :
                 /\ FullPlan[k] \in Steps
                 /\ k >= run'.idx => k >= run.idx /\ FullPlan[k] # Step
          <5> TAKE k \in Places
          <5>1. k \in Nat /\ run.idx \in Nat /\ FullPlan[k] \in Steps
            BY <2>1, StepFacts, PlanFacts
          <5>2. k >= run'.idx => k > run.idx
            BY <2>1, <2>2, GoingOn
          <5>3. k # run.idx => FullPlan[k] # Step
            BY <2>1, GoingOn
          <5> QED
            BY <5>1, <5>2, <5>3
        <4>3. ASSUME NEW k \in Places, k >= run'.idx,
                     run'.mem.hash[OwnerOf[FullPlan[k]]]
                        = ConfigHash(run'.cfg, OwnerOf[FullPlan[k]])
              PROVE  run'.mem.step[FullPlan[k]] = disk'.step[FullPlan[k]]
          <5>1. run.mem.step[FullPlan[k]] = disk.step[FullPlan[k]]
            BY <2>1, <2>2, <3>1, <4>2, <4>3 DEF AheadInv, Written, SameRun
          <5>2. run'.mem.step[FullPlan[k]] = run.mem.step[FullPlan[k]]
            BY <2>2, <4>2, <4>3 DEF Written
          <5> QED
            BY <2>2, <5>1, <5>2 DEF Written
        <4> QED
          BY <4>1, <4>3 DEF AheadInv
      <3>2. CASE ~LeftBehind
        BY <3>2 DEF AheadInv, LeftBehind
      <3> QED
        BY <3>1, <3>2
    <2>7. PassedInv'
      <3>1. ASSUME NEW k \in Places, k < run'.idx, FullPlan[k] \in Plan(run.scope) \ Lenient
            PROVE  \/ run'.mem.step[FullPlan[k]].status = "skipped"
                   \/ /\ run'.mem.step[FullPlan[k]].status = "ok"
                      /\ done'[FullPlan[k]] = DoneUnder(run'.cfg, FullPlan[k])
        <4>1. k \in Nat /\ run.idx \in Nat /\ FullPlan[k] \in Steps
          BY <2>1, StepFacts, PlanFacts
        <4>2. k <= run.idx
          BY <2>1, <2>2, <3>1, GoingOn
        <4>3. CASE k = run.idx
          BY <2>1, <2>2, <3>1, <4>1, <4>3, StepFacts DEF Step, Written, SameRun, TypeOK
        <4>4. CASE k < run.idx
          <5>1. FullPlan[k] # Step
            BY <2>1, <4>1, <4>4, GoingOn
          <5>2. \/ run.mem.step[FullPlan[k]].status = "skipped"
                \/ /\ run.mem.step[FullPlan[k]].status = "ok"
                   /\ done[FullPlan[k]] = DoneUnder(run.cfg, FullPlan[k])
            BY <2>1, <3>1, <4>4 DEF PassedInv, Effective
          <5>3. done'[FullPlan[k]] = done[FullPlan[k]]
            BY <2>2, <4>1, <5>1 DEF TypeOK
          <5> QED
            BY <2>2, <4>1, <5>1, <5>2, <5>3 DEF Written, SameRun
        <4> QED
          BY <4>1, <4>2, <4>3, <4>4
      <3> QED
        BY <2>2, <3>1 DEF PassedInv, Effective, SameRun
    <2>8. OkMeansDeployed'
      BY <2>1, <2>2 DEF OkMeansDeployed, Effective
    <2> QED
      BY <2>3, <2>4, <2>5, <2>6, <2>7, <2>8
  <1>7. CASE BodyFail
    <2>1. pc = "body" /\ MoreSteps /\ Deploying /\ run.cfg \in Configs
      BY <1>7 DEF BodyFail, Deploying, RunInv
    <2>2. /\ run' \in Runs /\ disk' \in Journals
          /\ SameRun /\ Written("failed") /\ run'.seen = run.seen
          /\ IF Step \in Lenient THEN pc' = "step" /\ GoesOn
             ELSE pc' = "abort" /\ run'.idx = run.idx
          /\ settled' = "no"
          /\ UNCHANGED <<config, truth, exit, done>>
      BY <1>7, BodyFailIs
    <2>3. DiskInv'
      <3>1. CASE LeftBehind
        <4>1. Editable = {} /\ run.cfg = config /\ config' = config /\ pc' \notin {"body", "reset"}
          BY <2>1, <2>2, <3>1 DEF Orderly, ActionInv
        <4>2. \A st \in Steps \ (Checked \cup Producers) :
                 run.mem.step[st].status = "ok" /\ st # Step => done[st] = DoneUnder(config, st)
          BY <2>1, <4>1 DEF MemInv, Effective
        <4>3. \A st \in Steps : Believed(st) => done[st] = DoneUnder(config, st)
          BY <2>1, <3>1, <4>1 DEF DiskInv, BeingReset, Deploying, Believed, DoneUnder
        <4>4. done' = done
          BY <2>2
        <4>5. \A st \in Steps : Believed(st)' => done'[st] = DoneUnder(config, st)
          <5>1. CASE disk' = disk
            BY <4>1, <4>3, <4>4, <5>1 DEF Believed
          <5>2. CASE disk' = run'.mem
            BY <2>2, <4>1, <4>2, <4>4, <5>2 DEF Believed, Written
          <5> QED
            BY <2>2, <5>1, <5>2 DEF Written
        <4> QED
          BY <4>1, <4>5 DEF DiskInv, Believed, DoneUnder
      <3>2. CASE ~LeftBehind
        BY <2>1, <2>2, <3>2 DEF DiskInv, Deploying, LeftBehind
      <3> QED
        BY <3>1, <3>2
    <2>4. MemInv'
      <3>1. \A st \in Steps \ (Checked \cup Producers) :
               run.mem.step[st].status = "ok" /\ st # Step => done[st] = DoneUnder(run.cfg, st)
        BY <2>1 DEF MemInv, Effective
      <3>2. \A st \in Steps : run'.mem.step[st].status = "ok" =>
               st # Step /\ run.mem.step[st].status = "ok"
        BY <2>2 DEF Written
      <3>3. \A st \in Steps \ (Checked \cup Producers) :
               run'.mem.step[st].status = "ok" => done'[st] = DoneUnder(run'.cfg, st)
        BY <2>2, <3>1, <3>2 DEF SameRun
      <3> QED
        BY <3>3 DEF MemInv, Effective
    <2>5. ActionInv'
      <3>1. CASE Editable = {}
        <4>1. /\ run.cfg = config /\ run'.cfg = config'
              /\ \A st \in Steps : disk.step[st].status = "ok" =>
                    disk.step[st].action = ActionHash(config, st)
              /\ \A st \in Steps : run.mem.step[st].status = "ok" =>
                    run.mem.step[st].action = ActionHash(config, st)
          BY <2>1, <2>2, <3>1 DEF ActionInv, SameRun
        <4>2. \A st \in Steps : run'.mem.step[st].status = "ok" =>
                 run'.mem.step[st].action = ActionHash(config, st)
          BY <2>2, <4>1 DEF Written
        <4>3. \A st \in Steps : disk'.step[st].status = "ok" =>
                 disk'.step[st].action = ActionHash(config, st)
          BY <2>2, <4>1, <4>2 DEF Written
        <4> QED
          BY <2>2, <4>1, <4>2, <4>3 DEF ActionInv
      <3> QED
        BY <3>1 DEF ActionInv
    <2>6. AheadInv'
      <3>1. CASE LeftBehind /\ Step \in Lenient
        <4>1. run'.mem.hash = disk'.hash
          BY <2>1, <2>2, <3>1 DEF AheadInv, Written
        <4>2. \A k \in Places :
                 /\ FullPlan[k] \in Steps
                 /\ k >= run'.idx => k >= run.idx /\ FullPlan[k] # Step
          <5> TAKE k \in Places
          <5>1. k \in Nat /\ run.idx \in Nat /\ FullPlan[k] \in Steps
            BY <2>1, StepFacts, PlanFacts
          <5>2. k >= run'.idx => k > run.idx
            BY <2>1, <2>2, <3>1, GoingOn
          <5>3. k # run.idx => FullPlan[k] # Step
            BY <2>1, GoingOn
          <5> QED
            BY <5>1, <5>2, <5>3
        <4>3. ASSUME NEW k \in Places, k >= run'.idx,
                     run'.mem.hash[OwnerOf[FullPlan[k]]]
                        = ConfigHash(run'.cfg, OwnerOf[FullPlan[k]])
              PROVE  run'.mem.step[FullPlan[k]] = disk'.step[FullPlan[k]]
          <5>1. run.mem.step[FullPlan[k]] = disk.step[FullPlan[k]]
            BY <2>1, <2>2, <3>1, <4>2, <4>3 DEF AheadInv, Written, SameRun
          <5>2. run'.mem.step[FullPlan[k]] = run.mem.step[FullPlan[k]]
            BY <2>2, <4>2, <4>3 DEF Written
          <5> QED
            BY <2>2, <5>1, <5>2 DEF Written
        <4> QED
          BY <4>1, <4>3 DEF AheadInv
      <3>2. CASE LeftBehind /\ Step \notin Lenient
        BY <2>1, <2>2, <3>2 DEF AheadInv, Written
      <3>3. CASE ~LeftBehind
        BY <3>3 DEF AheadInv, LeftBehind
      <3> QED
        BY <3>1, <3>2, <3>3
    <2>7. PassedInv'
      <3>1. ASSUME NEW k \in Places, k < run'.idx, FullPlan[k] \in Plan(run.scope) \ Lenient,
                   Step \in Lenient
            PROVE  \/ run'.mem.step[FullPlan[k]].status = "skipped"
                   \/ /\ run'.mem.step[FullPlan[k]].status = "ok"
                      /\ done'[FullPlan[k]] = DoneUnder(run'.cfg, FullPlan[k])
        <4>1. k \in Nat /\ run.idx \in Nat /\ FullPlan[k] \in Steps
          BY <2>1, StepFacts, PlanFacts
        <4>2. k <= run.idx
          BY <2>1, <2>2, <3>1, GoingOn
        <4>3. CASE k = run.idx
          BY <2>1, <2>2, <3>1, <4>1, <4>3, StepFacts DEF Step, Written, SameRun, TypeOK
        <4>4. CASE k < run.idx
          <5>1. FullPlan[k] # Step
            BY <2>1, <4>1, <4>4, GoingOn
          <5>2. \/ run.mem.step[FullPlan[k]].status = "skipped"
                \/ /\ run.mem.step[FullPlan[k]].status = "ok"
                   /\ done[FullPlan[k]] = DoneUnder(run.cfg, FullPlan[k])
            BY <2>1, <3>1, <4>4 DEF PassedInv, Effective
          <5>3. done'[FullPlan[k]] = done[FullPlan[k]]
            BY <2>2, <4>1, <5>1 DEF TypeOK
          <5> QED
            BY <2>2, <4>1, <5>1, <5>2, <5>3 DEF Written, SameRun
        <4> QED
          BY <4>1, <4>2, <4>3, <4>4
      <3> QED
        BY <2>2, <3>1 DEF PassedInv, Effective, SameRun
    <2>8. OkMeansDeployed'
      BY <2>1, <2>2 DEF OkMeansDeployed, Effective
    <2> QED
      BY <2>3, <2>4, <2>5, <2>6, <2>7, <2>8
  <1>8. CASE GateError
    <2>1. pc = "step" /\ ReachesGate /\ Step \in Gated /\ MoreSteps /\ Deploying /\ run.cfg \in Configs
      BY <1>8 DEF GateError, ReachesGate, AtStep, Deploying, RunInv
    <2>2. /\ run' \in Runs /\ disk' \in Journals
          /\ SameRun /\ Written("failed") /\ run'.seen = run.seen
          /\ pc' = "abort" /\ settled' = "no"
          /\ UNCHANGED <<config, truth, exit, done>>
      BY <1>8, GateErrorIs
    <2>3. DiskInv'
      <3>1. CASE LeftBehind
        <4>1. Editable = {} /\ run.cfg = config /\ config' = config /\ pc' \notin {"body", "reset"}
          BY <2>1, <2>2, <3>1 DEF Orderly, ActionInv
        <4>2. \A st \in Steps \ (Checked \cup Producers) :
                 run.mem.step[st].status = "ok" /\ st # Step => done[st] = DoneUnder(config, st)
          BY <2>1, <4>1 DEF MemInv, Effective
        <4>3. \A st \in Steps : Believed(st) => done[st] = DoneUnder(config, st)
          BY <2>1, <3>1, <4>1 DEF DiskInv, BeingReset, Deploying, Believed, DoneUnder
        <4>4. done' = done
          BY <2>2
        <4>5. \A st \in Steps : Believed(st)' => done'[st] = DoneUnder(config, st)
          <5>1. CASE disk' = disk
            BY <4>1, <4>3, <4>4, <5>1 DEF Believed
          <5>2. CASE disk' = run'.mem
            BY <2>2, <4>1, <4>2, <4>4, <5>2 DEF Believed, Written
          <5> QED
            BY <2>2, <5>1, <5>2 DEF Written
        <4> QED
          BY <4>1, <4>5 DEF DiskInv, Believed, DoneUnder
      <3>2. CASE ~LeftBehind
        BY <2>1, <2>2, <3>2 DEF DiskInv, Deploying, LeftBehind
      <3> QED
        BY <3>1, <3>2
    <2>4. MemInv'
      <3>1. \A st \in Steps \ (Checked \cup Producers) :
               run.mem.step[st].status = "ok" /\ st # Step => done[st] = DoneUnder(run.cfg, st)
        BY <2>1 DEF MemInv, Effective
      <3>2. \A st \in Steps : run'.mem.step[st].status = "ok" =>
               st # Step /\ run.mem.step[st].status = "ok"
        BY <2>2 DEF Written
      <3>3. \A st \in Steps \ (Checked \cup Producers) :
               run'.mem.step[st].status = "ok" => done'[st] = DoneUnder(run'.cfg, st)
        BY <2>2, <3>1, <3>2 DEF SameRun
      <3> QED
        BY <3>3 DEF MemInv, Effective
    <2>5. ActionInv'
      <3>1. CASE Editable = {}
        <4>1. /\ run.cfg = config /\ run'.cfg = config'
              /\ \A st \in Steps : disk.step[st].status = "ok" =>
                    disk.step[st].action = ActionHash(config, st)
              /\ \A st \in Steps : run.mem.step[st].status = "ok" =>
                    run.mem.step[st].action = ActionHash(config, st)
          BY <2>1, <2>2, <3>1 DEF ActionInv, SameRun
        <4>2. \A st \in Steps : run'.mem.step[st].status = "ok" =>
                 run'.mem.step[st].action = ActionHash(config, st)
          BY <2>2, <4>1 DEF Written
        <4>3. \A st \in Steps : disk'.step[st].status = "ok" =>
                 disk'.step[st].action = ActionHash(config, st)
          BY <2>2, <4>1, <4>2 DEF Written
        <4> QED
          BY <2>2, <4>1, <4>2, <4>3 DEF ActionInv
      <3> QED
        BY <3>1 DEF ActionInv
    <2>6. AheadInv'
      <3>1. CASE LeftBehind
        <4>1. run'.mem.hash = disk'.hash
          BY <2>1, <2>2, <3>1 DEF AheadInv, Written
        <4> QED
          BY <2>2, <4>1 DEF AheadInv
      <3>2. CASE ~LeftBehind
        BY <3>2 DEF AheadInv, LeftBehind
      <3> QED
        BY <3>1, <3>2
    <2>7. PassedInv'
      BY <2>1, <2>2 DEF PassedInv, Effective, SameRun
    <2>8. OkMeansDeployed'
      BY <2>1, <2>2 DEF OkMeansDeployed, Effective
    <2> QED
      BY <2>3, <2>4, <2>5, <2>6, <2>7, <2>8
  <1>9. CASE WhenError
    <2>1. /\ pc = "step" /\ Deploying
          /\ pc' = "abort" /\ settled' = "no"
          /\ UNCHANGED <<config, truth, disk, run, exit, done>>
      BY <1>9 DEF WhenError, AtStep, Deploying
    <2>2. DiskInv'
      BY <2>1 DEF DiskInv, Believed, BeingReset, Deploying, LeftBehind, Orderly
    <2>3. MemInv'
      BY <2>1 DEF MemInv, Effective, Deploying, SameRun, Step
    <2>4. ActionInv'
      BY <2>1 DEF ActionInv, Deploying, SameRun
    <2>5. AheadInv'
      BY <2>1 DEF AheadInv, Deploying, SameRun, LeftBehind
    <2>6. PassedInv'
      BY <2>1 DEF PassedInv, Effective, SameRun
    <2>7. OkMeansDeployed'
      BY <2>1 DEF OkMeansDeployed, Effective
    <2> QED
      BY <2>2, <2>3, <2>4, <2>5, <2>6, <2>7
  <1>10. CASE PipelineFinish
    <2>1. Deploying /\ run.cfg \in Configs
      BY <1>10 DEF PipelineFinish, Deploying, RunInv
    <2>2. PICK success \in BOOLEAN :
          Finish(success) /\ (success => pc = "step" /\ ~MoreSteps) /\ (~success => pc = "abort")
      BY <1>10 DEF PipelineFinish
    <2>3. /\ run' \in Runs
          /\ disk' = Finished(success) \/ ("save_error" \in Env /\ disk' = disk)
          /\ pc' \in {"clear", "idle"}
          /\ pc' = "clear" => /\ success /\ disk' = Finished(success)
                              /\ run'.scope = run.scope /\ run'.cfg = run.cfg
          /\ settled' \in {"yes", "no"} \/ settled' = settled
          /\ settled' # "trying"
          /\ settled' = "yes" /\ settled # "yes" =>
                settled = "trying" /\ success /\ disk' = Finished(success)
          /\ exit' \in {"ok", "unsaved", "failed"}
          /\ UNCHANGED <<config, truth, done>>
      BY <1>10, <2>1, <2>2, FinishIs
    <2>4. /\ Finished(success) \in Journals
          /\ Finished(success).step = run.mem.step
          /\ \A s \in Scopes : Finished(success).hash[s] =
                IF s \in Stamped THEN ConfigHash(run.cfg, s) ELSE run.mem.hash[s]
      BY <1>10, <2>1, FinishedIs
    <2>5. DiskInv'
      <3>1. CASE disk' = disk /\ "save_error" \in Env
        BY <2>1, <2>3, <3>1 DEF DiskInv, Believed, BeingReset, LeftBehind, Deploying
      <3>2. CASE disk' = Finished(success)
        <4>1. \A st \in Steps \ (Checked \cup Producers) :
                 run.mem.step[st].status = "ok" => done[st] = DoneUnder(run.cfg, st)
          BY <2>1, <2>2 DEF MemInv, Effective
        <4>2. \A st \in Steps : Believed(st)' =>
                 disk'.hash[OwnerOf[st]] = ConfigHash(run.cfg, OwnerOf[st])
          <5>1. CASE Editable = {}
            BY <2>1, <2>3, <5>1 DEF Believed, ActionInv
          <5>2. CASE Editable # {}
            <6>1. run.scope = {}
              BY <2>1, <5>2 DEF Orderly, RunInv, RunScopes
            <6>2. Stamped = run.seen \cup {Project}
              BY <6>1 DEF Stamped
            <6>3. \A st \in Steps : run.mem.step[st].status = "ok" =>
                     \/ run.mem.hash[OwnerOf[st]] = ConfigHash(run.cfg, OwnerOf[st])
                     \/ OwnerOf[st] \in Stamped
              BY <2>1, <6>2 DEF StampInv
            <6> QED
              BY <2>4, <3>2, <6>3, PlanFacts DEF Believed
          <5> QED
            BY <5>1, <5>2
        <4>3. \A st \in Steps : Believed(st)' => done'[st] = DoneUnder(run.cfg, st)
          BY <2>3, <2>4, <3>2, <4>1 DEF Believed
        <4> QED
          BY <4>2, <4>3 DEF DiskInv, DoneUnder
      <3> QED
        BY <2>3, <3>1, <3>2
    <2>6. MemInv'
      BY <2>1, <2>2, <2>3, <2>4 DEF MemInv, Effective, Deploying, SameRun, Step
    <2>7. ActionInv'
      BY <2>1, <2>2, <2>3, <2>4 DEF ActionInv, Deploying, SameRun
    <2>8. AheadInv'
      BY <2>1, <2>2, <2>3, <2>4 DEF AheadInv, Deploying, SameRun, LeftBehind
    <2>9. PassedInv'
      BY <2>1, <2>2, <2>3, <2>4 DEF PassedInv, Effective, SameRun
    <2>10. OkMeansDeployed'
      <3>1. CASE pc' = "clear"
        <4>1. /\ pc = "step" /\ ~MoreSteps /\ disk'.step = run.mem.step
              /\ run'.scope = run.scope /\ run'.cfg = run.cfg /\ done' = done
          BY <2>2, <2>3, <2>4, <3>1
        <4>2. \A k \in Places : k < run.idx
          BY <4>1, PlanFacts DEF MoreSteps, Places, TypeOK, Runs
        <4>3. \A st \in Steps : st \in Plan(run.scope) \ Lenient =>
                 \/ run.mem.step[st].status = "skipped"
                 \/ run.mem.step[st].status = "ok" /\ done[st] = DoneUnder(run.cfg, st)
          BY <4>1, <4>2, PlanFacts DEF PassedInv, Effective
        <4>4. Plan(run.scope) \subseteq Steps
          BY DEF Plan
        <4> QED
          BY <4>1, <4>3, <4>4 DEF OkMeansDeployed, Effective
      <3> QED
        BY <3>1 DEF OkMeansDeployed
    <2> QED
      BY <2>5, <2>6, <2>7, <2>8, <2>9, <2>10
  <1>11. CASE ClearDeployedPending
    <2>1. /\ pc = "clear"
          /\ disk' \in Journals /\ disk'.step = disk.step /\ disk'.hash = disk.hash
          /\ pc' = "idle" /\ run' = NoRun
          /\ UNCHANGED <<config, truth, exit, done, settled>>
      BY <1>11, ClearDeployedPendingIs DEF ClearDeployedPending
    <2>2. DiskInv'
      BY <2>1 DEF DiskInv, Believed, BeingReset, Deploying, LeftBehind, Orderly
    <2>3. MemInv'
      BY <2>1 DEF MemInv, Effective, Deploying, SameRun, Step
    <2>4. ActionInv'
      BY <2>1 DEF ActionInv, Deploying, SameRun
    <2>5. AheadInv'
      BY <2>1 DEF AheadInv, Deploying, SameRun, LeftBehind
    <2>6. PassedInv'
      BY <2>1 DEF PassedInv, Effective, SameRun
    <2>7. OkMeansDeployed'
      BY <2>1 DEF OkMeansDeployed, Effective
    <2> QED
      BY <2>2, <2>3, <2>4, <2>5, <2>6, <2>7
  <1>12. CASE ResetFinish
    <2>1. /\ pc = "reset" /\ disk' \in Journals
          /\ \A st \in Steps : disk'.step[st].status = "ok" =>
                /\ run.scope # {} /\ OwnerOf[st] \notin run.scope
                /\ disk'.step[st] = disk.step[st]
                /\ disk'.hash[OwnerOf[st]] = disk.hash[OwnerOf[st]]
          /\ pc' = "idle" /\ run' = NoRun
          /\ UNCHANGED <<config, truth, exit, done, settled>>
      BY <1>12, ResetFinishIs DEF ResetFinish
    <2>2. DiskInv'
      BY <2>1 DEF DiskInv, Believed, BeingReset, Deploying, LeftBehind, Orderly
    <2>3. MemInv'
      BY <2>1 DEF MemInv, Effective, Deploying, SameRun, Step
    <2>4. ActionInv'
      BY <2>1 DEF ActionInv, Deploying, SameRun
    <2>5. AheadInv'
      BY <2>1 DEF AheadInv, Deploying, SameRun, LeftBehind
    <2>6. PassedInv'
      BY <2>1 DEF PassedInv, Effective, SameRun
    <2>7. OkMeansDeployed'
      BY <2>1 DEF OkMeansDeployed, Effective
    <2> QED
      BY <2>2, <2>3, <2>4, <2>5, <2>6, <2>7
  <1>13. CASE Crash
    <2>1. /\ "crash" \in Env /\ pc # "idle" /\ (pc = "reset" => "torn_reset" \in Env)
          /\ pc' = "idle" /\ run' = NoRun /\ exit' = "none" /\ settled' = "no"
          /\ UNCHANGED <<config, truth, disk, done>>
      BY <1>13 DEF Crash
    <2>2. DiskInv'
      BY <2>1 DEF DiskInv, Believed, BeingReset, Deploying, LeftBehind, Orderly
    <2>3. MemInv'
      BY <2>1 DEF MemInv, Effective, Deploying, SameRun, Step
    <2>4. ActionInv'
      BY <2>1 DEF ActionInv, Deploying, SameRun
    <2>5. AheadInv'
      BY <2>1 DEF AheadInv, Deploying, SameRun, LeftBehind
    <2>6. PassedInv'
      BY <2>1 DEF PassedInv, Effective, SameRun
    <2>7. OkMeansDeployed'
      BY <2>1 DEF OkMeansDeployed, Effective
    <2> QED
      BY <2>2, <2>3, <2>4, <2>5, <2>6, <2>7
  <1>14. CASE Edit
    <2>1. /\ Editable # {} /\ config' \in Configs /\ settled' = "no"
          /\ UNCHANGED <<truth, disk, pc, run, exit, done>>
      BY <1>14, DeployAssumption DEF Edit, TypeOK, Configs
    <2>2. DiskInv'
      BY <2>1 DEF DiskInv, Believed, BeingReset, Deploying, LeftBehind, Orderly
    <2>3. MemInv'
      BY <2>1 DEF MemInv, Effective, Deploying, SameRun, Step
    <2>4. ActionInv'
      BY <2>1 DEF ActionInv, Deploying, SameRun
    <2>5. AheadInv'
      BY <2>1 DEF AheadInv, Deploying, SameRun, LeftBehind
    <2>6. PassedInv'
      BY <2>1 DEF PassedInv, Effective, SameRun
    <2>7. OkMeansDeployed'
      BY <2>1 DEF OkMeansDeployed, Effective
    <2> QED
      BY <2>2, <2>3, <2>4, <2>5, <2>6, <2>7
  <1>15. CASE ConditionChange
    <2>1. /\ truth' \subseteq Conditional /\ settled' = "no"
          /\ UNCHANGED <<config, disk, pc, run, exit, done>>
      BY <1>15 DEF ConditionChange, TypeOK
    <2>2. DiskInv'
      BY <2>1 DEF DiskInv, Believed, BeingReset, Deploying, LeftBehind, Orderly
    <2>3. MemInv'
      BY <2>1 DEF MemInv, Effective, Deploying, SameRun, Step
    <2>4. ActionInv'
      BY <2>1 DEF ActionInv, Deploying, SameRun
    <2>5. AheadInv'
      BY <2>1 DEF AheadInv, Deploying, SameRun, LeftBehind
    <2>6. PassedInv'
      BY <2>1 DEF PassedInv, Effective, SameRun
    <2>7. OkMeansDeployed'
      BY <2>1 DEF OkMeansDeployed, Effective
    <2> QED
      BY <2>2, <2>3, <2>4, <2>5, <2>6, <2>7
  <1>16. CASE StateRepair
    <2>1. /\ pc = "idle" /\ settled' = "no"
          /\ disk' \in Journals /\ disk'.step = disk.step /\ disk'.hash = disk.hash
          /\ UNCHANGED <<config, truth, pc, run, exit, done>>
      BY <1>16, RecomputeKeeps DEF StateRepair, TypeOK
    <2>2. DiskInv'
      BY <2>1 DEF DiskInv, Believed, BeingReset, Deploying, LeftBehind, Orderly
    <2>3. MemInv'
      BY <2>1 DEF MemInv, Effective, Deploying, SameRun, Step
    <2>4. ActionInv'
      BY <2>1 DEF ActionInv, Deploying, SameRun
    <2>5. AheadInv'
      BY <2>1 DEF AheadInv, Deploying, SameRun, LeftBehind
    <2>6. PassedInv'
      BY <2>1 DEF PassedInv, Effective, SameRun
    <2>7. OkMeansDeployed'
      BY <2>1 DEF OkMeansDeployed, Effective
    <2> QED
      BY <2>2, <2>3, <2>4, <2>5, <2>6, <2>7
  <1>17. CASE StateClear
    <2>1. /\ pc = "idle" /\ settled' = "no"
          /\ disk' \in Journals /\ \A st \in Steps : disk'.step[st].status = "none"
          /\ UNCHANGED <<config, truth, pc, run, exit, done>>
      BY <1>17, EmptyType DEF StateClear, EmptyJournal, NoRecord
    <2>2. DiskInv'
      BY <2>1 DEF DiskInv, Believed, BeingReset, Deploying, LeftBehind, Orderly
    <2>3. MemInv'
      BY <2>1 DEF MemInv, Effective, Deploying, SameRun, Step
    <2>4. ActionInv'
      BY <2>1 DEF ActionInv, Deploying, SameRun
    <2>5. AheadInv'
      BY <2>1 DEF AheadInv, Deploying, SameRun, LeftBehind
    <2>6. PassedInv'
      BY <2>1 DEF PassedInv, Effective, SameRun
    <2>7. OkMeansDeployed'
      BY <2>1 DEF OkMeansDeployed, Effective
    <2> QED
      BY <2>2, <2>3, <2>4, <2>5, <2>6, <2>7
  <1>18. CASE \E scope \in SUBSET Services : (scope = {} \/ \E s \in Services : scope = {s}) /\ ResetBegin(scope)
    <2>1. PICK scope \in SUBSET Services :
          (scope = {} \/ \E s \in Services : scope = {s}) /\ ResetBegin(scope)
      BY <1>18
    <2>2. /\ pc = "idle" /\ pc' = "reset" /\ settled' = "no"
          /\ run' = [NoRun EXCEPT !.scope = scope]
          /\ done' = [st \in Steps |-> IF scope = {} \/ OwnerOf[st] \in scope THEN Never ELSE done[st]]
          /\ UNCHANGED <<config, truth, disk, exit>>
      BY <1>18, <2>1 DEF ResetBegin
    <2>3. run' \in Runs /\ run'.scope = scope
      BY <1>18, <2>2, NoRunType DEF NoRun, Runs
    <2>4. DiskInv'
      BY <2>1, <2>2, <2>3 DEF DiskInv, Believed, BeingReset, Deploying, LeftBehind, Orderly
    <2>5. MemInv'
      BY <2>1, <2>2, <2>3 DEF MemInv, Effective, Deploying, SameRun, Step
    <2>6. ActionInv'
      BY <2>1, <2>2, <2>3 DEF ActionInv, Deploying, SameRun
    <2>7. AheadInv'
      BY <2>1, <2>2, <2>3 DEF AheadInv, Deploying, SameRun, LeftBehind
    <2>8. PassedInv'
      BY <2>1, <2>2, <2>3 DEF PassedInv, Effective, SameRun
    <2>9. OkMeansDeployed'
      BY <2>1, <2>2, <2>3 DEF OkMeansDeployed, Effective
    <2> QED
      BY <2>4, <2>5, <2>6, <2>7, <2>8, <2>9
  <1>19. CASE ResetFail
    <2>1. /\ "torn_reset" \in Env /\ pc = "reset" /\ pc' = "idle" /\ run' = NoRun
          /\ UNCHANGED <<config, truth, disk, exit, done, settled>>
      BY <1>19 DEF ResetFail
    <2>2. DiskInv'
      BY <2>1 DEF DiskInv, Believed, BeingReset, Deploying, LeftBehind, Orderly
    <2>3. MemInv'
      BY <2>1 DEF MemInv, Effective, Deploying, SameRun, Step
    <2>4. ActionInv'
      BY <2>1 DEF ActionInv, Deploying, SameRun
    <2>5. AheadInv'
      BY <2>1 DEF AheadInv, Deploying, SameRun, LeftBehind
    <2>6. PassedInv'
      BY <2>1 DEF PassedInv, Effective, SameRun
    <2>7. OkMeansDeployed'
      BY <2>1 DEF OkMeansDeployed, Effective
    <2> QED
      BY <2>2, <2>3, <2>4, <2>5, <2>6, <2>7
  <1>20. CASE UNCHANGED vars
    <2>1. UNCHANGED <<config, truth, disk, pc, run, exit, done, settled>>
      BY <1>20 DEF vars
    <2>2. DiskInv'
      BY <2>1 DEF DiskInv, Believed, BeingReset, Deploying, LeftBehind, Orderly
    <2>3. MemInv'
      BY <2>1 DEF MemInv, Effective, Deploying, SameRun, Step
    <2>4. ActionInv'
      BY <2>1 DEF ActionInv, Deploying, SameRun
    <2>5. AheadInv'
      BY <2>1 DEF AheadInv, Deploying, SameRun, LeftBehind
    <2>6. PassedInv'
      BY <2>1 DEF PassedInv, Effective, SameRun
    <2>7. OkMeansDeployed'
      BY <2>1 DEF OkMeansDeployed, Effective
    <2> QED
      BY <2>2, <2>3, <2>4, <2>5, <2>6, <2>7
  <1> QED
    BY <1>1, <1>2, <1>3, <1>4, <1>5, <1>6, <1>7, <1>8, <1>9, <1>10, <1>11, <1>12, <1>13,
       <1>14, <1>15, <1>16, <1>17, <1>18, <1>19, <1>20 DEF Next, Progress, Mishap, ResetEnds,
         ResetOutcomes

-----------------------------------------------------------------------------
LEMMA MarkStep ==
    ASSUME "save_error" \notin Env, TypeOK, RunInv, MarkInv, [Next]_vars
    PROVE  MarkInv'
PROOF
  <1>1. CASE \E scope \in RunScopes, request \in RequestsMade : RunHelper(scope, request)
    <2>1. PICK scope \in RunScopes, request \in RequestsMade : RunHelper(scope, request)
      BY <1>1
    <2>2. pc = "idle" /\ scope \in SUBSET Services
      BY <2>1, RunHelperIs DEF RunScopes
    <2>3. CASE /\ exit' \in {"uptodate", "refused"}
               /\ UNCHANGED <<config, truth, disk, pc, run, done, settled>>
      <3>1. MarkInv'
        BY <2>2, <2>3 DEF MarkInv
      <3> QED
        BY <3>1
    <2>4. CASE \E force \in BOOLEAN : Start(scope, force) /\ (force => "force" \in Env)
      <3>1. PICK force \in BOOLEAN : Start(scope, force) /\ (force => "force" \in Env)
        BY <2>4
      <3>2. /\ run' \in Runs
            /\ run'.cfg = config /\ run'.scope = scope /\ run'.force = force
            /\ run'.idx = 1 /\ run'.seen = {}
            /\ ~force => /\ run'.mem.hash = disk.hash
                         /\ run'.mem.status = disk.status
                         /\ \A s \in Services : run'.mem.last[s] = disk.last[s]
            /\ force => \A s \in Services : /\ run'.mem.last[s] = "none"
                                            /\ run'.mem.status[s] = "none"
            /\ \A st \in Steps : run'.mem.step[st] =
                  IF ~force /\ disk.hash[OwnerOf[st]] = ConfigHash(config, OwnerOf[st])
                  THEN disk.step[st] ELSE NoRecord
            /\ pc' = "step"
            /\ settled' = IF scope = {} /\ (settled = "no" \/ force) THEN "trying"
                          ELSE IF force THEN "no" ELSE settled
            /\ UNCHANGED <<config, truth, disk, exit, done>>
        BY <3>1, StartIs
      <3>3. MarkInv'
        BY <2>2, <3>1, <3>2 DEF MarkInv, NoRecord
      <3> QED
        BY <3>3
    <2> QED
      BY <2>1, <2>3, <2>4, RunHelperIs
  <1>2. CASE SkipWhen
    <2>1. AtStep /\ WhenFalse /\ MoreSteps /\ pc = "step" /\ Deploying /\ run.cfg \in Configs
      BY <1>2 DEF SkipWhen, AtStep, Deploying, RunInv
    <2>2. /\ run' \in Runs /\ disk' \in Journals
          /\ SameRun /\ GoesOn /\ Written("skipped") /\ run'.seen = Seen
          /\ UNCHANGED <<config, truth, pc, exit, done, settled>>
      BY <1>2, <2>1, SkipRecordedIs DEF SkipWhen
    <2>3. MarkInv'
      BY <2>1, <2>2 DEF MarkInv, Written
    <2> QED
      BY <2>3
  <1>3. CASE SkipState
    <2>1. AtStep /\ SkipsByState /\ MoreSteps /\ pc = "step" /\ Deploying /\ run.cfg \in Configs
      BY <1>3 DEF SkipState, AtStep, Deploying, RunInv
    <2>2. /\ run' \in Runs /\ SameRun /\ GoesOn
          /\ run'.mem = run.mem /\ run'.seen = run.seen
          /\ UNCHANGED <<config, truth, disk, pc, exit, done, settled>>
      BY <1>3, SkipStateIs
    <2>3. MarkInv'
      BY <2>1, <2>2 DEF MarkInv
    <2> QED
      BY <2>3
  <1>4. CASE SkipGate
    <2>1. ReachesGate /\ Step \in Gated /\ MoreSteps /\ pc = "step" /\ Deploying /\ run.cfg \in Configs
      BY <1>4 DEF SkipGate, ReachesGate, AtStep, Deploying, RunInv
    <2>2. /\ run' \in Runs /\ disk' \in Journals
          /\ SameRun /\ GoesOn /\ Written("skipped") /\ run'.seen = Seen
          /\ UNCHANGED <<config, truth, pc, exit, done, settled>>
      BY <1>4, <2>1, SkipRecordedIs DEF SkipGate
    <2>3. MarkInv'
      BY <2>1, <2>2 DEF MarkInv, Written
    <2> QED
      BY <2>3
  <1>5. CASE StartBody
    <2>1. ReachesGate /\ MoreSteps /\ pc = "step" /\ Deploying /\ run.cfg \in Configs
      BY <1>5 DEF StartBody, ReachesGate, AtStep, Deploying, RunInv
    <2>2. /\ run' \in Runs /\ disk' \in Journals
          /\ SameRun /\ run'.idx = run.idx /\ run'.seen = Seen
          /\ run'.mem.hash = run.mem.hash /\ run'.mem.step = run.mem.step
          /\ run'.mem.status = run.mem.status
          /\ IF Owner = Project \/ run.mem.last[Owner] = "in_progress"
             THEN disk' = disk /\ run'.mem = run.mem
             ELSE /\ disk' = run'.mem \/ ("save_error" \in Env /\ disk' = disk)
                  /\ run'.mem.last = [run.mem.last EXCEPT ![Owner] = "in_progress"]
          /\ pc' = "body" /\ done' = [done EXCEPT ![Step] = Torn]
          /\ UNCHANGED <<config, truth, exit, settled>>
      BY <1>5, StartBodyIs
    <2>3. MarkInv'
      <3>1. Owner' = Owner /\ (Owner # Project => Owner \in Services) /\ Owner \in Scopes
        BY <2>1, <2>2, StepFacts DEF Owner, Step
      <3>2. run.mem.last \in [Scopes -> RunStatuses]
        BY DEF TypeOK, Runs, Journals
      <3>3. Services \subseteq Scopes
        BY PlanFacts
      <3> QED
        BY <2>1, <2>2, <3>1, <3>2, <3>3 DEF MarkInv
    <2> QED
      BY <2>3
  <1>6. CASE BodyOk
    <2>1. pc = "body" /\ MoreSteps /\ Deploying /\ run.cfg \in Configs
      BY <1>6 DEF BodyOk, Deploying, RunInv
    <2>2. /\ run' \in Runs /\ disk' \in Journals
          /\ SameRun /\ GoesOn /\ Written("ok") /\ run'.seen = run.seen
          /\ pc' = "step" /\ done' = [done EXCEPT ![Step] = DoneUnder(run.cfg, Step)]
          /\ UNCHANGED <<config, truth, exit, settled>>
      BY <1>6, BodyOkIs
    <2>3. MarkInv'
      BY <2>1, <2>2 DEF MarkInv, Written
    <2> QED
      BY <2>3
  <1>7. CASE BodyFail
    <2>1. pc = "body" /\ MoreSteps /\ Deploying /\ run.cfg \in Configs
      BY <1>7 DEF BodyFail, Deploying, RunInv
    <2>2. /\ run' \in Runs /\ disk' \in Journals
          /\ SameRun /\ Written("failed") /\ run'.seen = run.seen
          /\ IF Step \in Lenient THEN pc' = "step" /\ GoesOn
             ELSE pc' = "abort" /\ run'.idx = run.idx
          /\ settled' = "no"
          /\ UNCHANGED <<config, truth, exit, done>>
      BY <1>7, BodyFailIs
    <2>3. MarkInv'
      BY <2>1, <2>2 DEF MarkInv, Written
    <2> QED
      BY <2>3
  <1>8. CASE GateError
    <2>1. pc = "step" /\ ReachesGate /\ Step \in Gated /\ MoreSteps /\ Deploying /\ run.cfg \in Configs
      BY <1>8 DEF GateError, ReachesGate, AtStep, Deploying, RunInv
    <2>2. /\ run' \in Runs /\ disk' \in Journals
          /\ SameRun /\ Written("failed") /\ run'.seen = run.seen
          /\ pc' = "abort" /\ settled' = "no"
          /\ UNCHANGED <<config, truth, exit, done>>
      BY <1>8, GateErrorIs
    <2>3. MarkInv'
      BY <2>1, <2>2 DEF MarkInv, Written
    <2> QED
      BY <2>3
  <1>9. CASE WhenError
    <2>1. /\ pc = "step" /\ Deploying
          /\ pc' = "abort" /\ settled' = "no"
          /\ UNCHANGED <<config, truth, disk, run, exit, done>>
      BY <1>9 DEF WhenError, AtStep, Deploying
    <2>2. MarkInv'
      BY <2>1 DEF MarkInv
    <2> QED
      BY <2>2
  <1>10. CASE PipelineFinish
    <2>1. Deploying /\ run.cfg \in Configs
      BY <1>10 DEF PipelineFinish, Deploying, RunInv
    <2>2. PICK success \in BOOLEAN :
          Finish(success) /\ (success => pc = "step" /\ ~MoreSteps) /\ (~success => pc = "abort")
      BY <1>10 DEF PipelineFinish
    <2>3. /\ run' \in Runs
          /\ disk' = Finished(success) \/ ("save_error" \in Env /\ disk' = disk)
          /\ pc' \in {"clear", "idle"}
          /\ pc' = "clear" => /\ success /\ disk' = Finished(success)
                              /\ run'.scope = run.scope /\ run'.cfg = run.cfg
          /\ settled' \in {"yes", "no"} \/ settled' = settled
          /\ settled' # "trying"
          /\ settled' = "yes" /\ settled # "yes" =>
                settled = "trying" /\ success /\ disk' = Finished(success)
          /\ exit' \in {"ok", "unsaved", "failed"}
          /\ UNCHANGED <<config, truth, done>>
      BY <1>10, <2>1, <2>2, FinishIs
    <2>4. /\ Finished(success) \in Journals
          /\ Finished(success).step = run.mem.step
          /\ \A s \in Scopes : Finished(success).hash[s] =
                IF s \in Stamped THEN ConfigHash(run.cfg, s) ELSE run.mem.hash[s]
      BY <1>10, <2>1, FinishedIs
    <2>5. MarkInv'
      BY <2>1, <2>2, <2>3, <2>4 DEF MarkInv
    <2> QED
      BY <2>5
  <1>11. CASE ClearDeployedPending
    <2>1. /\ pc = "clear"
          /\ disk' \in Journals /\ disk'.step = disk.step /\ disk'.hash = disk.hash
          /\ pc' = "idle" /\ run' = NoRun
          /\ UNCHANGED <<config, truth, exit, done, settled>>
      BY <1>11, ClearDeployedPendingIs DEF ClearDeployedPending
    <2>2. MarkInv'
      BY <2>1 DEF MarkInv
    <2> QED
      BY <2>2
  <1>12. CASE ResetFinish
    <2>1. /\ pc = "reset" /\ disk' \in Journals
          /\ \A st \in Steps : disk'.step[st].status = "ok" =>
                /\ run.scope # {} /\ OwnerOf[st] \notin run.scope
                /\ disk'.step[st] = disk.step[st]
                /\ disk'.hash[OwnerOf[st]] = disk.hash[OwnerOf[st]]
          /\ pc' = "idle" /\ run' = NoRun
          /\ UNCHANGED <<config, truth, exit, done, settled>>
      BY <1>12, ResetFinishIs DEF ResetFinish
    <2>2. MarkInv'
      BY <2>1 DEF MarkInv
    <2> QED
      BY <2>2
  <1>13. CASE Crash
    <2>1. /\ "crash" \in Env /\ pc # "idle" /\ (pc = "reset" => "torn_reset" \in Env)
          /\ pc' = "idle" /\ run' = NoRun /\ exit' = "none" /\ settled' = "no"
          /\ UNCHANGED <<config, truth, disk, done>>
      BY <1>13 DEF Crash
    <2>2. MarkInv'
      BY <2>1 DEF MarkInv
    <2> QED
      BY <2>2
  <1>14. CASE Edit
    <2>1. /\ Editable # {} /\ config' \in Configs /\ settled' = "no"
          /\ UNCHANGED <<truth, disk, pc, run, exit, done>>
      BY <1>14, DeployAssumption DEF Edit, TypeOK, Configs
    <2>2. MarkInv'
      BY <2>1 DEF MarkInv, Owner, Step
    <2> QED
      BY <2>2
  <1>15. CASE ConditionChange
    <2>1. /\ truth' \subseteq Conditional /\ settled' = "no"
          /\ UNCHANGED <<config, disk, pc, run, exit, done>>
      BY <1>15 DEF ConditionChange, TypeOK
    <2>2. MarkInv'
      BY <2>1 DEF MarkInv, Owner, Step
    <2> QED
      BY <2>2
  <1>16. CASE StateRepair
    <2>1. /\ pc = "idle" /\ settled' = "no"
          /\ disk' \in Journals /\ disk'.step = disk.step /\ disk'.hash = disk.hash
          /\ UNCHANGED <<config, truth, pc, run, exit, done>>
      BY <1>16, RecomputeKeeps DEF StateRepair, TypeOK
    <2>2. MarkInv'
      BY <2>1 DEF MarkInv
    <2> QED
      BY <2>2
  <1>17. CASE StateClear
    <2>1. /\ pc = "idle" /\ settled' = "no"
          /\ disk' \in Journals /\ \A st \in Steps : disk'.step[st].status = "none"
          /\ UNCHANGED <<config, truth, pc, run, exit, done>>
      BY <1>17, EmptyType DEF StateClear, EmptyJournal, NoRecord
    <2>2. MarkInv'
      BY <2>1 DEF MarkInv
    <2> QED
      BY <2>2
  <1>18. CASE \E scope \in SUBSET Services : (scope = {} \/ \E s \in Services : scope = {s}) /\ ResetBegin(scope)
    <2>1. PICK scope \in SUBSET Services :
          (scope = {} \/ \E s \in Services : scope = {s}) /\ ResetBegin(scope)
      BY <1>18
    <2>2. /\ pc = "idle" /\ pc' = "reset" /\ settled' = "no"
          /\ run' = [NoRun EXCEPT !.scope = scope]
          /\ done' = [st \in Steps |-> IF scope = {} \/ OwnerOf[st] \in scope THEN Never ELSE done[st]]
          /\ UNCHANGED <<config, truth, disk, exit>>
      BY <1>18, <2>1 DEF ResetBegin
    <2>3. run' \in Runs /\ run'.scope = scope
      BY <1>18, <2>2, NoRunType DEF NoRun, Runs
    <2>4. MarkInv'
      BY <2>1, <2>2, <2>3 DEF MarkInv
    <2> QED
      BY <2>4
  <1>19. CASE ResetFail
    <2>1. /\ "torn_reset" \in Env /\ pc = "reset" /\ pc' = "idle" /\ run' = NoRun
          /\ UNCHANGED <<config, truth, disk, exit, done, settled>>
      BY <1>19 DEF ResetFail
    <2>2. MarkInv'
      BY <2>1 DEF MarkInv
    <2> QED
      BY <2>2
  <1>20. CASE UNCHANGED vars
    <2>1. UNCHANGED <<config, truth, disk, pc, run, exit, done, settled>>
      BY <1>20 DEF vars
    <2>2. MarkInv'
      BY <2>1 DEF MarkInv, Owner, Step
    <2> QED
      BY <2>2
  <1> QED
    BY <1>1, <1>2, <1>3, <1>4, <1>5, <1>6, <1>7, <1>8, <1>9, <1>10, <1>11, <1>12, <1>13,
       <1>14, <1>15, <1>16, <1>17, <1>18, <1>19, <1>20 DEF Next, Progress, Mishap, ResetEnds,
         ResetOutcomes


-----------------------------------------------------------------------------
LEMMA RecomputeOf ==
    ASSUME NEW j \in Journals
    PROVE  /\ \A s \in Services : Recompute(j).status[s] = j.status[s]
           /\ j.last[Project] # "in_progress" => Recompute(j).last[Project] = j.last[Project]
           /\ /\ j.last[Project] # "ok"
              /\ \A s \in Services : j.status[s] \notin {"deployed", "partial"}
              => Recompute(j).status[Project] \notin {"deployed", "partial"}
PROOF
  <1> DEFINE last == [s \in Scopes |-> IF j.last[s] = "in_progress" THEN "failed" ELSE j.last[s]]
  <1>1. /\ Recompute(j).status = [j.status EXCEPT ![Project] = ProjectStatus(j)]
        /\ Recompute(j).last = last
    BY DEF Recompute, Journals
  <1>2. /\ Recompute(j).status[Project] = ProjectStatus(j)
        /\ \A s \in Services : Recompute(j).status[s] = j.status[s]
    BY <1>1, PlanFacts DEF Journals
  <1>3. ASSUME j.last[Project] # "ok",
               \A s \in Services : j.status[s] \notin {"deployed", "partial"}
        PROVE  ProjectStatus(j) \notin {"deployed", "partial"}
    <2>1. {j.status[s] : s \in Services} \cap {"deployed", "partial"} = {}
      BY <1>3
    <2> QED
      BY <1>3, <2>1 DEF ProjectStatus
  <1> QED
    BY <1>1, <1>2, <1>3, PlanFacts

LEMMA ReplaceOf ==
    ASSUME NEW j \in Journals, NEW s \in Services, LastOf(j),
           Whole(j)
    PROVE  LastOf(ReplaceServiceWithPending(j, s)) /\ Whole(ReplaceServiceWithPending(j, s))
PROOF
  <1> DEFINE f == ForgetService(j, s)
             e == [EmptyJournal EXCEPT !.pending = j.pending]
  <1>1. NoRecord \in Records
    BY HashTypes DEF NoRecord, Records, StepStatuses
  <1>2. /\ f \in Journals
        /\ \A st \in Steps : f.step[st] = IF OwnerOf[st] = s THEN NoRecord ELSE j.step[st]
        /\ f.last[Project] = j.last[Project]
        /\ f.status[s] = "none"
        /\ \A t \in Scopes : t # s => f.status[t] = j.status[t]
    BY <1>1, HashTypes, PlanFacts DEF ForgetService, Journals, ScopeStatuses, RunStatuses
  <1> HIDE DEF f
  <1>3. /\ Recompute(f).step = f.step
        /\ \A t \in Services : Recompute(f).status[t] = f.status[t]
        /\ Recompute(f).last[Project] = j.last[Project]
        /\ /\ j.last[Project] # "ok"
           /\ \A t \in Services : f.status[t] \notin {"deployed", "partial"}
           => Recompute(f).status[Project] \notin {"deployed", "partial"}
    BY <1>2, RecomputeKeeps, RecomputeOf DEF LastOf
  <1>4. LastOf(Recompute(f)) /\ Whole(Recompute(f))
    <2>1. LastOf(Recompute(f))
      <3>1. CASE j.last[Project] = "none"
        <4>1. \A t \in Services : f.status[t] \notin {"deployed", "partial"}
          BY <1>2, <3>1, PlanFacts DEF LastOf
        <4> QED
          BY <1>3, <3>1, <4>1 DEF LastOf, Scopes
      <3>2. CASE j.last[Project] # "none"
        BY <1>3, <3>2 DEF LastOf
      <3> QED
        BY <3>1, <3>2
    <2>2. Whole(Recompute(f))
      BY <1>2, <1>3, PlanFacts DEF Whole, Scopes
    <2> QED
      BY <2>1, <2>2
  <1>5. LastOf(e) /\ Whole(e)
    BY PlanFacts DEF LastOf, Whole, EmptyJournal
  <1>6. \A k \in {e, Recompute(f)} : LET a == AddPending(k, FALSE, {s})
            IN a.step = k.step /\ a.status = k.status /\ a.last = k.last
    <2>1. e \in Journals /\ Recompute(f) \in Journals
      BY <1>2, EmptyType, RecomputeKeeps DEF Journals
    <2>2. \A k \in Journals : LET a == AddPending(k, FALSE, {s})
              IN a.step = k.step /\ a.status = k.status /\ a.last = k.last
      BY DEF AddPending, Journals
    <2> QED
      BY <2>1, <2>2
  <1>7. PICK k \in {e, Recompute(f)} :
            ReplaceServiceWithPending(j, s) = AddPending(k, FALSE, {s})
    BY DEF ReplaceServiceWithPending, f
  <1> HIDE DEF e
  <1>8. LastOf(k) /\ Whole(k)
    BY <1>4, <1>5
  <1>9. LET a == AddPending(k, FALSE, {s})
        IN a.step = k.step /\ a.status = k.status /\ a.last = k.last
    BY <1>6
  <1> QED
    BY <1>7, <1>8, <1>9 DEF LastOf, Whole

LEMMA FinishedOf ==
    ASSUME TypeOK, NEW success \in BOOLEAN, run.scope = {}
    PROVE  Finished(success).last[Project] = IF success THEN "ok" ELSE "failed"
PROOF
  <1>1. run.mem \in Journals /\ Project \in Scopes /\ Project \in Stamped
    BY PlanFacts DEF TypeOK, Runs, Stamped
  <1> QED
    BY <1>1 DEF Finished, Recompute, Journals

LEMMA FullStep ==
    ASSUME FullRunsOnly, TypeOK, RunInv, PassedInv, FullInv, [Next]_vars
    PROVE  FullInv'
PROOF
  <1>1. CASE \E scope \in RunScopes, request \in RequestsMade : RunHelper(scope, request)
    <2>1. PICK scope \in RunScopes, request \in RequestsMade : RunHelper(scope, request)
      BY <1>1
    <2>2. pc = "idle" /\ scope \in SUBSET Services
      BY <2>1, RunHelperIs DEF RunScopes
    <2>3. CASE /\ exit' \in {"uptodate", "refused"}
               /\ UNCHANGED <<config, truth, disk, pc, run, done, settled>>
      <3>1. FullInv'
        BY <2>2, <2>3 DEF FullInv, Deploying
      <3> QED
        BY <3>1
    <2>4. CASE \E force \in BOOLEAN : Start(scope, force) /\ (force => "force" \in Env)
      <3>1. PICK force \in BOOLEAN : Start(scope, force) /\ (force => "force" \in Env)
        BY <2>4
      <3>2. /\ run' \in Runs
            /\ run'.cfg = config /\ run'.scope = scope /\ run'.force = force
            /\ run'.idx = 1 /\ run'.seen = {}
            /\ ~force => /\ run'.mem.hash = disk.hash
                         /\ run'.mem.status = disk.status
                         /\ \A s \in Services : run'.mem.last[s] = disk.last[s]
            /\ force => \A s \in Services : /\ run'.mem.last[s] = "none"
                                            /\ run'.mem.status[s] = "none"
            /\ \A st \in Steps : run'.mem.step[st] =
                  IF ~force /\ disk.hash[OwnerOf[st]] = ConfigHash(config, OwnerOf[st])
                  THEN disk.step[st] ELSE NoRecord
            /\ pc' = "step"
            /\ settled' = IF scope = {} /\ (settled = "no" \/ force) THEN "trying"
                          ELSE IF force THEN "no" ELSE settled
            /\ UNCHANGED <<config, truth, disk, exit, done>>
        BY <3>1, StartIs
      <3>3. FullInv'
        BY <2>2, <3>1, <3>2 DEF FullInv, Deploying, NoRecord
      <3> QED
        BY <3>3
    <2> QED
      BY <2>1, <2>3, <2>4, RunHelperIs
  <1>2. CASE SkipWhen
    <2>1. AtStep /\ WhenFalse /\ MoreSteps /\ pc = "step" /\ Deploying /\ run.cfg \in Configs
      BY <1>2 DEF SkipWhen, AtStep, Deploying, RunInv
    <2>2. /\ run' \in Runs /\ disk' \in Journals
          /\ SameRun /\ GoesOn /\ Written("skipped") /\ run'.seen = Seen
          /\ UNCHANGED <<config, truth, pc, exit, done, settled>>
      BY <1>2, <2>1, SkipRecordedIs DEF SkipWhen
    <2>3. FullInv'
      BY <2>1, <2>2 DEF FullInv, Deploying
    <2> QED
      BY <2>3
  <1>3. CASE SkipState
    <2>1. AtStep /\ SkipsByState /\ MoreSteps /\ pc = "step" /\ Deploying /\ run.cfg \in Configs
      BY <1>3 DEF SkipState, AtStep, Deploying, RunInv
    <2>2. /\ run' \in Runs /\ SameRun /\ GoesOn
          /\ run'.mem = run.mem /\ run'.seen = run.seen
          /\ UNCHANGED <<config, truth, disk, pc, exit, done, settled>>
      BY <1>3, SkipStateIs
    <2>3. FullInv'
      BY <2>1, <2>2 DEF FullInv, Deploying
    <2> QED
      BY <2>3
  <1>4. CASE SkipGate
    <2>1. ReachesGate /\ Step \in Gated /\ MoreSteps /\ pc = "step" /\ Deploying /\ run.cfg \in Configs
      BY <1>4 DEF SkipGate, ReachesGate, AtStep, Deploying, RunInv
    <2>2. /\ run' \in Runs /\ disk' \in Journals
          /\ SameRun /\ GoesOn /\ Written("skipped") /\ run'.seen = Seen
          /\ UNCHANGED <<config, truth, pc, exit, done, settled>>
      BY <1>4, <2>1, SkipRecordedIs DEF SkipGate
    <2>3. FullInv'
      BY <2>1, <2>2 DEF FullInv, Deploying
    <2> QED
      BY <2>3
  <1>5. CASE StartBody
    <2>1. ReachesGate /\ MoreSteps /\ pc = "step" /\ Deploying /\ run.cfg \in Configs
      BY <1>5 DEF StartBody, ReachesGate, AtStep, Deploying, RunInv
    <2>2. /\ run' \in Runs /\ disk' \in Journals
          /\ SameRun /\ run'.idx = run.idx /\ run'.seen = Seen
          /\ run'.mem.hash = run.mem.hash /\ run'.mem.step = run.mem.step
          /\ run'.mem.status = run.mem.status
          /\ IF Owner = Project \/ run.mem.last[Owner] = "in_progress"
             THEN disk' = disk /\ run'.mem = run.mem
             ELSE /\ disk' = run'.mem \/ ("save_error" \in Env /\ disk' = disk)
                  /\ run'.mem.last = [run.mem.last EXCEPT ![Owner] = "in_progress"]
          /\ pc' = "body" /\ done' = [done EXCEPT ![Step] = Torn]
          /\ UNCHANGED <<config, truth, exit, settled>>
      BY <1>5, StartBodyIs
    <2>3. FullInv'
      BY <2>1, <2>2 DEF FullInv, Deploying
    <2> QED
      BY <2>3
  <1>6. CASE BodyOk
    <2>1. pc = "body" /\ MoreSteps /\ Deploying /\ run.cfg \in Configs
      BY <1>6 DEF BodyOk, Deploying, RunInv
    <2>2. /\ run' \in Runs /\ disk' \in Journals
          /\ SameRun /\ GoesOn /\ Written("ok") /\ run'.seen = run.seen
          /\ pc' = "step" /\ done' = [done EXCEPT ![Step] = DoneUnder(run.cfg, Step)]
          /\ UNCHANGED <<config, truth, exit, settled>>
      BY <1>6, BodyOkIs
    <2>3. FullInv'
      BY <2>1, <2>2 DEF FullInv, Deploying
    <2> QED
      BY <2>3
  <1>7. CASE BodyFail
    <2>1. pc = "body" /\ MoreSteps /\ Deploying /\ run.cfg \in Configs
      BY <1>7 DEF BodyFail, Deploying, RunInv
    <2>2. /\ run' \in Runs /\ disk' \in Journals
          /\ SameRun /\ Written("failed") /\ run'.seen = run.seen
          /\ IF Step \in Lenient THEN pc' = "step" /\ GoesOn
             ELSE pc' = "abort" /\ run'.idx = run.idx
          /\ settled' = "no"
          /\ UNCHANGED <<config, truth, exit, done>>
      BY <1>7, BodyFailIs
    <2>3. FullInv'
      BY <2>1, <2>2 DEF FullInv, Deploying
    <2> QED
      BY <2>3
  <1>8. CASE GateError
    <2>1. pc = "step" /\ ReachesGate /\ Step \in Gated /\ MoreSteps /\ Deploying /\ run.cfg \in Configs
      BY <1>8 DEF GateError, ReachesGate, AtStep, Deploying, RunInv
    <2>2. /\ run' \in Runs /\ disk' \in Journals
          /\ SameRun /\ Written("failed") /\ run'.seen = run.seen
          /\ pc' = "abort" /\ settled' = "no"
          /\ UNCHANGED <<config, truth, exit, done>>
      BY <1>8, GateErrorIs
    <2>3. FullInv'
      BY <2>1, <2>2 DEF FullInv, Deploying
    <2> QED
      BY <2>3
  <1>9. CASE WhenError
    <2>1. /\ pc = "step" /\ Deploying
          /\ pc' = "abort" /\ settled' = "no"
          /\ UNCHANGED <<config, truth, disk, run, exit, done>>
      BY <1>9 DEF WhenError, AtStep, Deploying
    <2>2. FullInv'
      BY <2>1 DEF FullInv, Deploying
    <2> QED
      BY <2>2
  <1>10. CASE PipelineFinish
    <2>1. Deploying /\ run.cfg \in Configs
      BY <1>10 DEF PipelineFinish, Deploying, RunInv
    <2>2. PICK success \in BOOLEAN :
          Finish(success) /\ (success => pc = "step" /\ ~MoreSteps) /\ (~success => pc = "abort")
      BY <1>10 DEF PipelineFinish
    <2>3. /\ run' \in Runs
          /\ disk' = Finished(success) \/ ("save_error" \in Env /\ disk' = disk)
          /\ pc' \in {"clear", "idle"}
          /\ pc' = "clear" => /\ success /\ disk' = Finished(success)
                              /\ run'.scope = run.scope /\ run'.cfg = run.cfg
          /\ settled' \in {"yes", "no"} \/ settled' = settled
          /\ settled' # "trying"
          /\ settled' = "yes" /\ settled # "yes" =>
                settled = "trying" /\ success /\ disk' = Finished(success)
          /\ exit' \in {"ok", "unsaved", "failed"}
          /\ UNCHANGED <<config, truth, done>>
      BY <1>10, <2>1, <2>2, FinishIs
    <2>4. /\ Finished(success) \in Journals
          /\ Finished(success).step = run.mem.step
          /\ \A s \in Scopes : Finished(success).hash[s] =
                IF s \in Stamped THEN ConfigHash(run.cfg, s) ELSE run.mem.hash[s]
      BY <1>10, <2>1, FinishedIs
    <2>5. FullInv'
      <3>1. run.scope = {} /\ disk' = Finished(success)
        BY <2>1, <2>3 DEF FullRunsOnly, RunInv, RunScopes
      <3>2. disk'.last[Project] = IF success THEN "ok" ELSE "failed"
        BY <3>1, FinishedOf
      <3>3. LastOf(disk)'
        BY <3>2 DEF LastOf
      <3>4. success => \A st \in Steps \ Lenient : disk'.step[st].status \in {"skipped", "ok"}
        <4>1. SUFFICES ASSUME success
              PROVE  \A st \in Steps \ Lenient : disk'.step[st].status \in {"skipped", "ok"}
          OBVIOUS
        <4>2. pc = "step" /\ ~MoreSteps /\ disk'.step = run.mem.step
          BY <2>2, <2>4, <3>1, <4>1
        <4>3. \A k \in Places : k < run.idx
          BY <4>2, PlanFacts DEF MoreSteps, Places, TypeOK, Runs
        <4> QED
          BY <3>1, <4>2, <4>3, FullRun, PlanFacts DEF PassedInv
      <3>5. Whole(disk)'
        BY <3>2, <3>4 DEF Whole
      <3> QED
        BY <3>3, <3>5 DEF FullInv
    <2> QED
      BY <2>5
  <1>11. CASE ClearDeployedPending
    <2>1. /\ pc = "clear"
          /\ disk' \in Journals /\ disk'.step = disk.step /\ disk'.hash = disk.hash
          /\ pc' = "idle" /\ run' = NoRun
          /\ UNCHANGED <<config, truth, exit, done, settled>>
      BY <1>11, ClearDeployedPendingIs DEF ClearDeployedPending
    <2>2. FullInv'
      <3>1. disk'.status = disk.status /\ disk'.last = disk.last
        BY <1>11 DEF ClearDeployedPending, ClearPendingServices, TypeOK, Journals
      <3>2. LastOf(disk) /\ Whole(disk)
        BY <2>1 DEF FullInv, Deploying
      <3> QED
        BY <2>1, <3>1, <3>2 DEF FullInv, LastOf, Whole
    <2> QED
      BY <2>2
  <1>12. CASE ResetFinish
    <2>1. /\ pc = "reset" /\ disk' \in Journals
          /\ \A st \in Steps : disk'.step[st].status = "ok" =>
                /\ run.scope # {} /\ OwnerOf[st] \notin run.scope
                /\ disk'.step[st] = disk.step[st]
                /\ disk'.hash[OwnerOf[st]] = disk.hash[OwnerOf[st]]
          /\ pc' = "idle" /\ run' = NoRun
          /\ UNCHANGED <<config, truth, exit, done, settled>>
      BY <1>12, ResetFinishIs DEF ResetFinish
    <2>2. FullInv'
      <3>1. LastOf(disk) /\ Whole(disk)
        BY <2>1 DEF FullInv, Deploying
      <3>2. CASE run.scope = {}
        <4>1. disk' = EmptyJournal
          BY <1>12, <3>2 DEF ResetFinish
        <4>2. LastOf(EmptyJournal) /\ Whole(EmptyJournal)
          BY PlanFacts DEF LastOf, Whole, EmptyJournal
        <4> QED
          BY <4>1, <4>2 DEF FullInv
      <3>3. CASE run.scope # {}
        <4>1. PICK s \in Services : run.scope = {s}
          BY <2>1, <3>3 DEF RunInv
        <4>2. disk' = ReplaceServiceWithPending(disk, s)
          BY <1>12, <3>3, <4>1 DEF ResetFinish
        <4>3. LastOf(ReplaceServiceWithPending(disk, s)) /\ Whole(ReplaceServiceWithPending(disk, s))
          BY <3>1, ReplaceOf DEF TypeOK
        <4> QED
          BY <4>2, <4>3 DEF FullInv
      <3> QED
        BY <3>2, <3>3
    <2> QED
      BY <2>2
  <1>13. CASE Crash
    <2>1. /\ "crash" \in Env /\ pc # "idle" /\ (pc = "reset" => "torn_reset" \in Env)
          /\ pc' = "idle" /\ run' = NoRun /\ exit' = "none" /\ settled' = "no"
          /\ UNCHANGED <<config, truth, disk, done>>
      BY <1>13 DEF Crash
    <2>2. FullInv'
      BY <2>1 DEF FullRunsOnly
    <2> QED
      BY <2>2
  <1>14. CASE Edit
    <2>1. /\ Editable # {} /\ config' \in Configs /\ settled' = "no"
          /\ UNCHANGED <<truth, disk, pc, run, exit, done>>
      BY <1>14, DeployAssumption DEF Edit, TypeOK, Configs
    <2>2. FullInv'
      BY <2>1 DEF FullInv, Deploying, LastOf, Whole
    <2> QED
      BY <2>2
  <1>15. CASE ConditionChange
    <2>1. /\ truth' \subseteq Conditional /\ settled' = "no"
          /\ UNCHANGED <<config, disk, pc, run, exit, done>>
      BY <1>15 DEF ConditionChange, TypeOK
    <2>2. FullInv'
      BY <2>1 DEF FullInv, Deploying, LastOf, Whole
    <2> QED
      BY <2>2
  <1>16. CASE StateRepair
    <2>1. /\ pc = "idle" /\ settled' = "no"
          /\ disk' \in Journals /\ disk'.step = disk.step /\ disk'.hash = disk.hash
          /\ UNCHANGED <<config, truth, pc, run, exit, done>>
      BY <1>16, RecomputeKeeps DEF StateRepair, TypeOK
    <2>2. FullInv'
      <3>1. disk' = Recompute(disk) /\ disk \in Journals
        BY <1>16 DEF StateRepair, TypeOK
      <3>2. LastOf(disk) /\ Whole(disk)
        BY <2>1 DEF FullInv, Deploying
      <3>3. /\ \A s \in Services : disk'.status[s] = disk.status[s]
            /\ disk'.last[Project] = disk.last[Project]
            /\ /\ disk.last[Project] # "ok"
               /\ \A s \in Services : disk.status[s] \notin {"deployed", "partial"}
               => disk'.status[Project] \notin {"deployed", "partial"}
        BY <3>1, <3>2, RecomputeOf DEF LastOf
      <3>4. LastOf(disk)'
        BY <3>2, <3>3 DEF LastOf, Scopes
      <3>5. Whole(disk)'
        BY <2>1, <3>2, <3>3, PlanFacts DEF Whole, Scopes
      <3> QED
        BY <3>4, <3>5 DEF FullInv
    <2> QED
      BY <2>2
  <1>17. CASE StateClear
    <2>1. /\ pc = "idle" /\ settled' = "no"
          /\ disk' \in Journals /\ \A st \in Steps : disk'.step[st].status = "none"
          /\ UNCHANGED <<config, truth, pc, run, exit, done>>
      BY <1>17, EmptyType DEF StateClear, EmptyJournal, NoRecord
    <2>2. FullInv'
      <3>1. disk' = EmptyJournal
        BY <1>17 DEF StateClear
      <3>2. LastOf(EmptyJournal) /\ Whole(EmptyJournal)
        BY PlanFacts DEF LastOf, Whole, EmptyJournal
      <3> QED
        BY <3>1, <3>2 DEF FullInv
    <2> QED
      BY <2>2
  <1>18. CASE \E scope \in SUBSET Services : (scope = {} \/ \E s \in Services : scope = {s}) /\ ResetBegin(scope)
    <2>1. PICK scope \in SUBSET Services :
          (scope = {} \/ \E s \in Services : scope = {s}) /\ ResetBegin(scope)
      BY <1>18
    <2>2. /\ pc = "idle" /\ pc' = "reset" /\ settled' = "no"
          /\ run' = [NoRun EXCEPT !.scope = scope]
          /\ done' = [st \in Steps |-> IF scope = {} \/ OwnerOf[st] \in scope THEN Never ELSE done[st]]
          /\ UNCHANGED <<config, truth, disk, exit>>
      BY <1>18, <2>1 DEF ResetBegin
    <2>3. run' \in Runs /\ run'.scope = scope
      BY <1>18, <2>2, NoRunType DEF NoRun, Runs
    <2>4. FullInv'
      BY <2>1, <2>2, <2>3 DEF FullInv, Deploying
    <2> QED
      BY <2>4
  <1>19. CASE ResetFail
    <2>1. /\ "torn_reset" \in Env /\ pc = "reset" /\ pc' = "idle" /\ run' = NoRun
          /\ UNCHANGED <<config, truth, disk, exit, done, settled>>
      BY <1>19 DEF ResetFail
    <2>2. FullInv'
      BY <2>1 DEF FullRunsOnly
    <2> QED
      BY <2>2
  <1>20. CASE UNCHANGED vars
    <2>1. UNCHANGED <<config, truth, disk, pc, run, exit, done, settled>>
      BY <1>20 DEF vars
    <2>2. FullInv'
      BY <2>1 DEF FullInv, Deploying, LastOf, Whole
    <2> QED
      BY <2>2
  <1> QED
    BY <1>1, <1>2, <1>3, <1>4, <1>5, <1>6, <1>7, <1>8, <1>9, <1>10, <1>11, <1>12, <1>13,
       <1>14, <1>15, <1>16, <1>17, <1>18, <1>19, <1>20 DEF Next, Progress, Mishap, ResetEnds,
         ResetOutcomes

-----------------------------------------------------------------------------
LEMMA RecomputeSays ==
    ASSUME NEW j \in Journals, NEW s \in Services
    PROVE  /\ Recompute(j).status[s] = j.status[s]
           /\ Recompute(j).last[s] = "ok" => j.last[s] = "ok"
PROOF
  <1>1. s # Project /\ s \in Scopes
    BY PlanFacts
  <1>2. Recompute(j).status[s] = j.status[s]
    BY <1>1 DEF Recompute, Journals
  <1>3. Recompute(j).last[s] = IF j.last[s] = "in_progress" THEN "failed" ELSE j.last[s]
    BY <1>1 DEF Recompute, Journals
  <1> QED
    BY <1>2, <1>3

LEMMA ReplaceSays ==
    ASSUME NEW j \in Journals, NEW s \in Services, NEW t \in Services,
           ReplaceServiceWithPending(j, s).status[t] = "deployed"
    PROVE  LET r == ReplaceServiceWithPending(j, s)
           IN  /\ t # s /\ j.status[t] = "deployed"
               /\ r.last[t] = "ok" => j.last[t] = "ok"
               /\ r.hash[t] = j.hash[t]
               /\ \A st \in Steps : OwnerOf[st] = t => r.step[st] = j.step[st]
PROOF
  <1> DEFINE f == ForgetService(j, s)
             e == [EmptyJournal EXCEPT !.pending = j.pending]
             r == ReplaceServiceWithPending(j, s)
  <1>1. NoRecord \in Records
    BY HashTypes DEF NoRecord, Records, StepStatuses
  <1>2. /\ f \in Journals
        /\ \A st \in Steps : f.step[st] = IF OwnerOf[st] = s THEN NoRecord ELSE j.step[st]
        /\ f.status[s] = "none"
        /\ \A u \in Scopes : u # s => /\ f.status[u] = j.status[u] /\ f.last[u] = j.last[u]
                                      /\ f.hash[u] = j.hash[u]
    BY <1>1, HashTypes, PlanFacts DEF ForgetService, Journals, ScopeStatuses, RunStatuses
  <1>3. /\ Recompute(f) \in Journals
        /\ Recompute(f).step = f.step /\ Recompute(f).hash = f.hash
        /\ Recompute(f).status[t] = f.status[t]
        /\ Recompute(f).last[t] = "ok" => f.last[t] = "ok"
    BY <1>2, RecomputeKeeps, RecomputeSays
  <1>4. e \in Journals /\ e.status[t] = "none"
    BY EmptyType, PlanFacts DEF Journals, EmptyJournal
  <1>5. \A k \in Journals : LET a == AddPending(k, FALSE, {s})
            IN  a.step = k.step /\ a.status = k.status /\ a.last = k.last /\ a.hash = k.hash
    BY DEF AddPending, Journals
  <1>6. PICK k \in {e, Recompute(f)} : r = AddPending(k, FALSE, {s})
    BY DEF ReplaceServiceWithPending
  <1> HIDE DEF e, f, r
  <1>7. r.step = k.step /\ r.status = k.status /\ r.last = k.last /\ r.hash = k.hash
    BY <1>3, <1>4, <1>5, <1>6
  <1>8. r.status[t] = "deployed"
    BY DEF r
  <1>9. k = Recompute(f) /\ t # s /\ t \in Scopes
    BY <1>2, <1>3, <1>4, <1>7, <1>8, PlanFacts
  <1>10. /\ t # s /\ j.status[t] = "deployed"
         /\ r.last[t] = "ok" => j.last[t] = "ok"
         /\ r.hash[t] = j.hash[t]
         /\ \A st \in Steps : OwnerOf[st] = t => r.step[st] = j.step[st]
    BY <1>2, <1>3, <1>7, <1>8, <1>9
  <1> QED
    BY <1>10 DEF r

LEMMA FinishedSays ==
    ASSUME TypeOK, NEW success \in BOOLEAN, NEW s \in Services
    PROVE  LET j == Finished(success)
           IN  /\ j.status[s] = IF s \in run.seen
                                THEN IF ServicePassed(s) THEN "deployed" ELSE "failed"
                                ELSE run.mem.status[s]
               /\ j.last[s] = "ok" => s \in run.seen \/ run.mem.last[s] = "ok"
PROOF
  <1>1. run.mem \in Journals /\ s \in Scopes /\ s # Project
    BY PlanFacts DEF TypeOK, Runs
  <1>2. s \in Stamped <=> s \in run.seen
    BY <1>1 DEF Stamped
  <1> DEFINE hash == [u \in Scopes |-> IF u \in Stamped THEN ConfigHash(run.cfg, u)
                                       ELSE run.mem.hash[u]]
             last == [u \in Scopes |->
                IF u \notin Stamped THEN run.mem.last[u]
                ELSE IF (u = Project /\ success) \/ (u # Project /\ ServicePassed(u))
                     THEN "ok" ELSE "failed"]
             status == [u \in Scopes |->
                IF u \notin run.seen THEN run.mem.status[u]
                ELSE IF ServicePassed(u) THEN "deployed" ELSE "failed"]
             j == [run.mem EXCEPT !.hash = hash, !.last = last, !.status = status]
  <1>3. Finished(success) = Recompute(j)
    BY <1>1 DEF Finished, Journals
  <1>4. /\ status[s] = IF s \in run.seen
                       THEN IF ServicePassed(s) THEN "deployed" ELSE "failed"
                       ELSE run.mem.status[s]
        /\ last[s] = "ok" => s \in run.seen \/ run.mem.last[s] = "ok"
    BY <1>1, <1>2
  <1> HIDE DEF hash, last, status
  <1>5. j.status = status /\ j.last = last
    BY <1>1 DEF Journals
  <1>6. /\ Recompute(j).status[s] = j.status[s]
        /\ Recompute(j).last[s] = "ok" => j.last[s] = "ok"
    <2>1. DOMAIN j.status = Scopes
      BY <1>5 DEF status
    <2>2. Recompute(j).status[s] = j.status[s]
      BY <1>1, <2>1 DEF Recompute, j, Journals
    <2>3. Recompute(j).last[s] = IF j.last[s] = "in_progress" THEN "failed" ELSE j.last[s]
      BY <1>1 DEF Recompute, j, Journals
    <2> QED
      BY <2>2, <2>3
  <1> QED
    BY <1>3, <1>4, <1>5, <1>6

\* A service to be stamped that did not fail has passed all its steps.
LEMMA SeenIsPassed ==
    ASSUME TypeOK, PassedInv, SeenInv, AbortInv, Deploying,
           pc = "abort" \/ (pc = "step" /\ ~MoreSteps),
           NEW st \in OfServices, OwnerOf[st] \in run.seen, ServicePassed(OwnerOf[st])
    PROVE  \/ run.mem.step[st].status = "skipped"
           \/ run.mem.step[st].status = "ok" /\ done[st] = DoneUnder(run.cfg, st)
PROOF
  <1> DEFINE s == OwnerOf[st]
  <1>1. s # Project /\ st \in Steps \ Lenient
    BY DEF OfServices
  <1>2. PICK k \in Places : st = FullPlan[k]
    BY <1>1, PlanFacts
  <1>3. PICK l \in Places : /\ l <= run.idx /\ OwnerOf[FullPlan[l]] = s
                            /\ FullPlan[l] \in Plan(run.scope)
    BY DEF SeenInv
  <1>4. st \in Plan(run.scope)
    BY <1>1, <1>3, PlanFacts DEF Plan
  <1>5. k \in Nat /\ l \in Nat /\ run.idx \in Nat
    BY PlanFacts DEF TypeOK, Runs
  <1>6. CASE pc = "step" /\ ~MoreSteps
    <2>1. k < run.idx
      BY <1>5, <1>6, PlanFacts DEF MoreSteps, Places, TypeOK, Runs
    <2> QED
      BY <1>1, <1>2, <1>4, <1>6, <2>1 DEF PassedInv, Effective
  <1>7. CASE pc = "abort"
    <2>1. /\ MoreSteps /\ run.mem.step[Step].status = "failed"
          /\ run.idx \in Places /\ Step = FullPlan[run.idx] /\ Step \in Steps
      BY <1>7, StepFacts DEF AbortInv, Step
    <2>2. OwnerOf[Step] # s
      BY <2>1 DEF ServicePassed, PhaseFailed, StepsOf
    <2>3. l < run.idx /\ k # run.idx
      BY <1>2, <1>3, <1>5, <2>1, <2>2
    <2>4. ~(run.idx < k)
      <3>1. \A a, b, c \in Places :
               a < b /\ b < c /\ OwnerOf[FullPlan[a]] = OwnerOf[FullPlan[c]] =>
                  \/ OwnerOf[FullPlan[b]] = OwnerOf[FullPlan[a]]
                  \/ OwnerOf[FullPlan[a]] = Project
        BY DeployAssumption DEF Places
      <3> QED
        BY <1>1, <1>2, <1>3, <2>1, <2>2, <2>3, <3>1
    <2>5. k < run.idx
      BY <1>5, <2>3, <2>4
    <2> QED
      BY <1>1, <1>2, <1>4, <1>7, <2>5 DEF AbortInv, Effective
  <1> QED
    BY <1>6, <1>7

LEMMA SaidStep ==
    ASSUME EndsRecorded, TypeOK, StampInv, RunInv, MarkInv, ActionInv, PassedInv,
           HashedInv, SeenInv, AbortInv, SaidInv, [Next]_vars
    PROVE  SaidInv' /\ HashedInv' /\ SeenInv' /\ AbortInv'
PROOF
  <1>1. CASE \E scope \in RunScopes, request \in RequestsMade : RunHelper(scope, request)
    <2>1. PICK scope \in RunScopes, request \in RequestsMade : RunHelper(scope, request)
      BY <1>1
    <2>2. pc = "idle" /\ scope \in SUBSET Services
      BY <2>1, RunHelperIs DEF RunScopes
    <2>3. CASE /\ exit' \in {"uptodate", "refused"}
               /\ UNCHANGED <<config, truth, disk, pc, run, done, settled>>
      <3>1. SaidInv'
        BY <2>2, <2>3 DEF SaidInv, BeingReset, AsSaid, Says, Deploying
      <3>2. HashedInv'
        BY <2>2, <2>3 DEF HashedInv, Deploying, SameRun, Written
      <3>3. SeenInv'
        BY <2>2, <2>3 DEF SeenInv, Deploying
      <3>4. AbortInv'
        BY <2>2, <2>3 DEF AbortInv
      <3> QED
        BY <3>1, <3>2, <3>3, <3>4
    <2>4. CASE \E force \in BOOLEAN : Start(scope, force) /\ (force => "force" \in Env)
      <3>1. PICK force \in BOOLEAN : Start(scope, force) /\ (force => "force" \in Env)
        BY <2>4
      <3>2. /\ run' \in Runs
            /\ run'.cfg = config /\ run'.scope = scope /\ run'.force = force
            /\ run'.idx = 1 /\ run'.seen = {}
            /\ ~force => /\ run'.mem.hash = disk.hash
                         /\ run'.mem.status = disk.status
                         /\ \A s \in Services : run'.mem.last[s] = disk.last[s]
            /\ force => \A s \in Services : /\ run'.mem.last[s] = "none"
                                            /\ run'.mem.status[s] = "none"
            /\ \A st \in Steps : run'.mem.step[st] =
                  IF ~force /\ disk.hash[OwnerOf[st]] = ConfigHash(config, OwnerOf[st])
                  THEN disk.step[st] ELSE NoRecord
            /\ pc' = "step"
            /\ settled' = IF scope = {} /\ (settled = "no" \/ force) THEN "trying"
                          ELSE IF force THEN "no" ELSE settled
            /\ UNCHANGED <<config, truth, disk, exit, done>>
        BY <3>1, StartIs
      <3>3. SaidInv'
        <4>1. \A st \in OfServices : AsSaid(disk, st) /\ AsSaid(disk, st)'
          BY <2>2, <3>2 DEF SaidInv, BeingReset, AsSaid, Says
        <4>2. ASSUME NEW st \in OfServices, Says(run'.mem, OwnerOf[st])
              PROVE  /\ Says(disk, OwnerOf[st]) /\ run'.mem.step[st] = disk.step[st]
                     /\ run'.mem.hash = disk.hash
          <5>1. st \in Steps /\ OwnerOf[st] \in Services
            BY PlanFacts DEF OfServices, Scopes
          <5>2. ~force
            BY <3>2, <4>2, <5>1 DEF Says
          <5>3. Says(disk, OwnerOf[st]) /\ run'.mem.hash = disk.hash
            BY <3>2, <4>2, <5>1, <5>2 DEF Says
          <5>4. disk.hash[OwnerOf[st]] = ConfigHash(config, OwnerOf[st])
            BY <5>1, <5>3 DEF HashedInv, Says
          <5> QED
            BY <3>2, <5>1, <5>2, <5>3, <5>4
        <4>3. \A st \in OfServices : AsSaid(run.mem, st)'
          BY <3>2, <4>1, <4>2 DEF AsSaid
        <4> QED
          BY <4>1, <4>3 DEF SaidInv
      <3>4. HashedInv'
        BY <2>2, <3>2 DEF HashedInv, Deploying
      <3>5. SeenInv'
        <4>1. Step' = EnvStep
          BY <3>2, DeployAssumption DEF Step
        <4> QED
          BY <3>2, <4>1, PlanFacts DEF SeenInv, Plan
      <3>6. AbortInv'
        BY <2>2, <3>1, <3>2 DEF AbortInv, NoRecord
      <3> QED
        BY <3>3, <3>4, <3>5, <3>6
    <2> QED
      BY <2>1, <2>3, <2>4, RunHelperIs
  <1>2. CASE SkipWhen
    <2>1. AtStep /\ WhenFalse /\ MoreSteps /\ pc = "step" /\ Deploying /\ run.cfg \in Configs
      BY <1>2 DEF SkipWhen, AtStep, Deploying, RunInv
    <2>2. /\ run' \in Runs /\ disk' \in Journals
          /\ SameRun /\ GoesOn /\ Written("skipped") /\ run'.seen = Seen
          /\ UNCHANGED <<config, truth, pc, exit, done, settled>>
      BY <1>2, <2>1, SkipRecordedIs DEF SkipWhen
    <2>3. SaidInv'
      <3>1. disk' = run'.mem
        BY <2>2 DEF EndsRecorded, Written
      <3>2. \A st \in OfServices : AsSaid(run.mem, st)
        BY <2>1 DEF SaidInv
      <3>3. \A st \in OfServices : AsSaid(run.mem, st)'
        BY <2>2, <3>2 DEF AsSaid, Says, Written, OfServices
      <3> QED
        BY <3>1, <3>3 DEF SaidInv, AsSaid, Says
    <2>4. HashedInv'
      BY <2>1, <2>2 DEF HashedInv, Deploying, SameRun, Written
    <2>5. SeenInv'
      <3>1. run.idx \in Nat /\ run'.idx \in Nat /\ run.idx < run'.idx
        BY <2>1, <2>2, GoingOn, StepFacts, PlanFacts, NextPlaceIsNext DEF GoesOn, Places
      <3>2. MoreSteps' => Step' \in Plan(run'.scope)
        <4>1. MoreSteps' => run'.idx \in Places
          BY <3>1, PlanFacts DEF MoreSteps, Places
        <4> QED
          BY <2>1, <2>2, <4>1, StepFacts, NextPlaceIsNext DEF GoesOn, Step, SameRun
      <3>3. \A s \in run'.seen : \E k \in Places :
               k <= run.idx /\ OwnerOf[FullPlan[k]] = s /\ FullPlan[k] \in Plan(run.scope)
        <4>1. run.idx \in Places /\ Step \in Plan(run.scope) /\ run.idx <= run.idx
          BY <2>1, <3>1, StepFacts DEF SeenInv
        <4>2. \A s \in run'.seen : s \in run.seen \/ s = OwnerOf[FullPlan[run.idx]]
          BY <2>1, <2>2, StepFacts DEF Owner, Step
        <4> QED
          BY <2>1, <4>1, <4>2 DEF SeenInv, Step
      <3>4. \A k \in Places : k <= run.idx => k <= run'.idx
        BY <3>1, PlanFacts
      <3> QED
        BY <2>2, <3>2, <3>3, <3>4 DEF SeenInv, SameRun
    <2>6. AbortInv'
      BY <2>1, <2>2 DEF AbortInv
    <2> QED
      BY <2>3, <2>4, <2>5, <2>6
  <1>3. CASE SkipState
    <2>1. AtStep /\ SkipsByState /\ MoreSteps /\ pc = "step" /\ Deploying /\ run.cfg \in Configs
      BY <1>3 DEF SkipState, AtStep, Deploying, RunInv
    <2>2. /\ run' \in Runs /\ SameRun /\ GoesOn
          /\ run'.mem = run.mem /\ run'.seen = run.seen
          /\ UNCHANGED <<config, truth, disk, pc, exit, done, settled>>
      BY <1>3, SkipStateIs
    <2>3. SaidInv'
      BY <2>1, <2>2 DEF SaidInv, BeingReset, AsSaid, Deploying
    <2>4. HashedInv'
      BY <2>1, <2>2 DEF HashedInv, Deploying, SameRun, Written
    <2>5. SeenInv'
      <3>1. run.idx \in Nat /\ run'.idx \in Nat /\ run.idx < run'.idx
        BY <2>1, <2>2, GoingOn, StepFacts, PlanFacts, NextPlaceIsNext DEF GoesOn, Places
      <3>2. MoreSteps' => Step' \in Plan(run'.scope)
        <4>1. MoreSteps' => run'.idx \in Places
          BY <3>1, PlanFacts DEF MoreSteps, Places
        <4> QED
          BY <2>1, <2>2, <4>1, StepFacts, NextPlaceIsNext DEF GoesOn, Step, SameRun
      <3>3. \A s \in run'.seen : \E k \in Places :
               k <= run.idx /\ OwnerOf[FullPlan[k]] = s /\ FullPlan[k] \in Plan(run.scope)
        <4>1. run.idx \in Places /\ Step \in Plan(run.scope) /\ run.idx <= run.idx
          BY <2>1, <3>1, StepFacts DEF SeenInv
        <4>2. \A s \in run'.seen : s \in run.seen \/ s = OwnerOf[FullPlan[run.idx]]
          BY <2>1, <2>2, StepFacts DEF Owner, Step
        <4> QED
          BY <2>1, <4>1, <4>2 DEF SeenInv, Step
      <3>4. \A k \in Places : k <= run.idx => k <= run'.idx
        BY <3>1, PlanFacts
      <3> QED
        BY <2>2, <3>2, <3>3, <3>4 DEF SeenInv, SameRun
    <2>6. AbortInv'
      BY <2>1, <2>2 DEF AbortInv
    <2> QED
      BY <2>3, <2>4, <2>5, <2>6
  <1>4. CASE SkipGate
    <2>1. ReachesGate /\ Step \in Gated /\ MoreSteps /\ pc = "step" /\ Deploying /\ run.cfg \in Configs
      BY <1>4 DEF SkipGate, ReachesGate, AtStep, Deploying, RunInv
    <2>2. /\ run' \in Runs /\ disk' \in Journals
          /\ SameRun /\ GoesOn /\ Written("skipped") /\ run'.seen = Seen
          /\ UNCHANGED <<config, truth, pc, exit, done, settled>>
      BY <1>4, <2>1, SkipRecordedIs DEF SkipGate
    <2>3. SaidInv'
      <3>1. disk' = run'.mem
        BY <2>2 DEF EndsRecorded, Written
      <3>2. \A st \in OfServices : AsSaid(run.mem, st)
        BY <2>1 DEF SaidInv
      <3>3. \A st \in OfServices : AsSaid(run.mem, st)'
        BY <2>2, <3>2 DEF AsSaid, Says, Written, OfServices
      <3> QED
        BY <3>1, <3>3 DEF SaidInv, AsSaid, Says
    <2>4. HashedInv'
      BY <2>1, <2>2 DEF HashedInv, Deploying, SameRun, Written
    <2>5. SeenInv'
      <3>1. run.idx \in Nat /\ run'.idx \in Nat /\ run.idx < run'.idx
        BY <2>1, <2>2, GoingOn, StepFacts, PlanFacts, NextPlaceIsNext DEF GoesOn, Places
      <3>2. MoreSteps' => Step' \in Plan(run'.scope)
        <4>1. MoreSteps' => run'.idx \in Places
          BY <3>1, PlanFacts DEF MoreSteps, Places
        <4> QED
          BY <2>1, <2>2, <4>1, StepFacts, NextPlaceIsNext DEF GoesOn, Step, SameRun
      <3>3. \A s \in run'.seen : \E k \in Places :
               k <= run.idx /\ OwnerOf[FullPlan[k]] = s /\ FullPlan[k] \in Plan(run.scope)
        <4>1. run.idx \in Places /\ Step \in Plan(run.scope) /\ run.idx <= run.idx
          BY <2>1, <3>1, StepFacts DEF SeenInv
        <4>2. \A s \in run'.seen : s \in run.seen \/ s = OwnerOf[FullPlan[run.idx]]
          BY <2>1, <2>2, StepFacts DEF Owner, Step
        <4> QED
          BY <2>1, <4>1, <4>2 DEF SeenInv, Step
      <3>4. \A k \in Places : k <= run.idx => k <= run'.idx
        BY <3>1, PlanFacts
      <3> QED
        BY <2>2, <3>2, <3>3, <3>4 DEF SeenInv, SameRun
    <2>6. AbortInv'
      BY <2>1, <2>2 DEF AbortInv
    <2> QED
      BY <2>3, <2>4, <2>5, <2>6
  <1>5. CASE StartBody
    <2>1. ReachesGate /\ MoreSteps /\ pc = "step" /\ Deploying /\ run.cfg \in Configs
      BY <1>5 DEF StartBody, ReachesGate, AtStep, Deploying, RunInv
    <2>2. /\ run' \in Runs /\ disk' \in Journals
          /\ SameRun /\ run'.idx = run.idx /\ run'.seen = Seen
          /\ run'.mem.hash = run.mem.hash /\ run'.mem.step = run.mem.step
          /\ run'.mem.status = run.mem.status
          /\ IF Owner = Project \/ run.mem.last[Owner] = "in_progress"
             THEN disk' = disk /\ run'.mem = run.mem
             ELSE /\ disk' = run'.mem \/ ("save_error" \in Env /\ disk' = disk)
                  /\ run'.mem.last = [run.mem.last EXCEPT ![Owner] = "in_progress"]
          /\ pc' = "body" /\ done' = [done EXCEPT ![Step] = Torn]
          /\ UNCHANGED <<config, truth, exit, settled>>
      BY <1>5, StartBodyIs
    <2>3. SaidInv'
      <3>1. \A st \in OfServices : AsSaid(run.mem, st) /\ AsSaid(disk, st)
        BY <2>1 DEF SaidInv, BeingReset
      <3>2. \A st \in Steps : st # Step => done'[st] = done[st]
        BY <2>2 DEF TypeOK
      <3>3. /\ Owner \in Scopes /\ Services \subseteq Scopes
            /\ Owner # Project => Owner \in Services
            /\ run.mem.last \in [Scopes -> RunStatuses]
        BY <2>1, StepFacts, PlanFacts DEF TypeOK, Runs, Journals
      <3>4. CASE Owner = Project \/ run.mem.last[Owner] = "in_progress"
        <4>1. disk' = disk /\ run'.mem = run.mem
          BY <2>2, <3>4
        <4>2. Owner # Project => run.mem.last[Owner] = "in_progress" /\ disk.last[Owner] = "in_progress"
          BY <2>1, <3>3, <3>4 DEF MarkInv
        <4>3. \A st \in OfServices : AsSaid(run.mem, st)' /\ AsSaid(disk, st)'
          BY <3>1, <3>2, <4>1, <4>2 DEF AsSaid, Says, OfServices, Owner
        <4> QED
          BY <4>3 DEF SaidInv
      <3>5. CASE ~(Owner = Project \/ run.mem.last[Owner] = "in_progress")
        <4>1. disk' = run'.mem
          BY <2>2, <3>5 DEF EndsRecorded
        <4>2. /\ run'.mem.last[Owner] = "in_progress"
              /\ \A s \in Services : s # Owner => run'.mem.last[s] = run.mem.last[s]
          BY <2>2, <3>3, <3>5
        <4>3. \A st \in OfServices : AsSaid(run.mem, st)'
          <5> SUFFICES ASSUME NEW st \in OfServices PROVE AsSaid(run.mem, st)'
            OBVIOUS
          <5>1. st \in Steps /\ OwnerOf[st] \in Services
            BY PlanFacts DEF OfServices, Scopes
          <5>2. CASE OwnerOf[st] = Owner
            BY <4>2, <5>2 DEF AsSaid, Says
          <5>3. CASE OwnerOf[st] # Owner
            BY <2>2, <3>1, <3>2, <4>2, <5>1, <5>3 DEF AsSaid, Says, Owner
          <5> QED
            BY <5>2, <5>3
        <4> QED
          BY <4>1, <4>3 DEF SaidInv, AsSaid, Says
      <3> QED
        BY <3>4, <3>5
    <2>4. HashedInv'
      BY <2>1, <2>2 DEF HashedInv, Deploying, SameRun, Written
    <2>5. SeenInv'
      <3>0. run.idx \in Places /\ run.idx \in Nat
        BY <2>1, StepFacts, PlanFacts
      <3>1. run.idx \in Places /\ Step \in Plan(run.scope) /\ run.idx <= run.idx
        <4>1. run.idx <= run.idx
          BY <3>0
        <4>2. Step \in Plan(run.scope)
          BY <2>1 DEF SeenInv, Deploying, AtStep
        <4> QED
          BY <3>0, <4>1, <4>2
      <3>2. \A s \in run'.seen : s \in run.seen \/ s = OwnerOf[FullPlan[run.idx]]
        BY <2>1, <2>2, StepFacts DEF Owner, Step
      <3>3. \A s \in run'.seen : \E k \in Places :
               k <= run.idx /\ OwnerOf[FullPlan[k]] = s /\ FullPlan[k] \in Plan(run.scope)
        BY <2>1, <3>1, <3>2 DEF SeenInv, Step
      <3> QED
        BY <2>1, <2>2, <3>1, <3>3 DEF SeenInv, SameRun, Step, MoreSteps
    <2>6. AbortInv'
      BY <2>1, <2>2 DEF AbortInv
    <2> QED
      BY <2>3, <2>4, <2>5, <2>6
  <1>6. CASE BodyOk
    <2>1. pc = "body" /\ MoreSteps /\ Deploying /\ run.cfg \in Configs
      BY <1>6 DEF BodyOk, Deploying, RunInv
    <2>2. /\ run' \in Runs /\ disk' \in Journals
          /\ SameRun /\ GoesOn /\ Written("ok") /\ run'.seen = run.seen
          /\ pc' = "step" /\ done' = [done EXCEPT ![Step] = DoneUnder(run.cfg, Step)]
          /\ UNCHANGED <<config, truth, exit, settled>>
      BY <1>6, BodyOkIs
    <2>3. SaidInv'
      <3>1. disk' = run'.mem /\ run.cfg = config
        BY <2>1, <2>2 DEF EndsRecorded, Written, ActionInv
      <3>2. \A st \in OfServices : AsSaid(run.mem, st)
        BY <2>1 DEF SaidInv
      <3>3. /\ done'[Step] = DoneUnder(config, Step)
            /\ \A st \in Steps : st # Step => done'[st] = done[st]
        BY <2>1, <2>2, <3>1, StepFacts DEF TypeOK
      <3>4. \A st \in OfServices : Says(run.mem, OwnerOf[st]) =>
               run.mem.hash[OwnerOf[st]] = ConfigHash(config, OwnerOf[st])
        BY <2>1, PlanFacts DEF HashedInv, Says, OfServices, Scopes
      <3>5. \A st \in OfServices : AsSaid(run.mem, st)'
        BY <2>2, <3>2, <3>3, <3>4 DEF AsSaid, Says, Written, OfServices, DoneUnder
      <3> QED
        BY <3>1, <3>5 DEF SaidInv, AsSaid, Says
    <2>4. HashedInv'
      BY <2>1, <2>2 DEF HashedInv, Deploying, SameRun, Written
    <2>5. SeenInv'
      <3>1. run.idx \in Nat /\ run'.idx \in Nat /\ run.idx < run'.idx
        BY <2>1, <2>2, GoingOn, StepFacts, PlanFacts, NextPlaceIsNext DEF GoesOn, Places
      <3>2. MoreSteps' => Step' \in Plan(run'.scope)
        <4>1. MoreSteps' => run'.idx \in Places
          BY <3>1, PlanFacts DEF MoreSteps, Places
        <4> QED
          BY <2>1, <2>2, <4>1, StepFacts, NextPlaceIsNext DEF GoesOn, Step, SameRun
      <3>3. \A s \in run'.seen : \E k \in Places :
               k <= run.idx /\ OwnerOf[FullPlan[k]] = s /\ FullPlan[k] \in Plan(run.scope)
        <4>1. run.idx \in Places /\ Step \in Plan(run.scope) /\ run.idx <= run.idx
          BY <2>1, <3>1, StepFacts DEF SeenInv
        <4>2. \A s \in run'.seen : s \in run.seen \/ s = OwnerOf[FullPlan[run.idx]]
          BY <2>1, <2>2, StepFacts DEF Owner, Step
        <4> QED
          BY <2>1, <4>1, <4>2 DEF SeenInv, Step
      <3>4. \A k \in Places : k <= run.idx => k <= run'.idx
        BY <3>1, PlanFacts
      <3> QED
        BY <2>2, <3>2, <3>3, <3>4 DEF SeenInv, SameRun
    <2>6. AbortInv'
      BY <2>1, <2>2 DEF AbortInv
    <2> QED
      BY <2>3, <2>4, <2>5, <2>6
  <1>7. CASE BodyFail
    <2>1. pc = "body" /\ MoreSteps /\ Deploying /\ run.cfg \in Configs
      BY <1>7 DEF BodyFail, Deploying, RunInv
    <2>2. /\ run' \in Runs /\ disk' \in Journals
          /\ SameRun /\ Written("failed") /\ run'.seen = run.seen
          /\ IF Step \in Lenient THEN pc' = "step" /\ GoesOn
             ELSE pc' = "abort" /\ run'.idx = run.idx
          /\ settled' = "no"
          /\ UNCHANGED <<config, truth, exit, done>>
      BY <1>7, BodyFailIs
    <2>3. SaidInv'
      <3>1. disk' = run'.mem
        BY <2>2 DEF EndsRecorded, Written
      <3>2. \A st \in OfServices : AsSaid(run.mem, st)
        BY <2>1 DEF SaidInv
      <3>3. Owner # Project => ~Says(run.mem, Owner)
        BY <2>1 DEF MarkInv, Says
      <3>4. \A st \in OfServices : AsSaid(run.mem, st)'
        BY <2>2, <3>2, <3>3 DEF AsSaid, Says, Written, OfServices, Owner
      <3> QED
        BY <3>1, <3>4 DEF SaidInv, AsSaid, Says
    <2>4. HashedInv'
      BY <2>1, <2>2 DEF HashedInv, Deploying, SameRun, Written
    <2>5. SeenInv'
      <3>1. CASE Step \in Lenient
        <4>1. run.idx \in Nat /\ run'.idx \in Nat /\ run.idx < run'.idx
          BY <2>1, <2>2, <3>1, GoingOn, StepFacts, PlanFacts, NextPlaceIsNext DEF GoesOn,
             Places
        <4>2. MoreSteps' => Step' \in Plan(run'.scope)
          <5>1. MoreSteps' => run'.idx \in Places
            BY <4>1, PlanFacts DEF MoreSteps, Places
          <5> QED
            BY <2>1, <2>2, <3>1, <5>1, StepFacts, NextPlaceIsNext DEF GoesOn, Step, SameRun
        <4>3. \A s \in run'.seen : \E k \in Places :
                 k <= run.idx /\ OwnerOf[FullPlan[k]] = s /\ FullPlan[k] \in Plan(run.scope)
          <5>1. run.idx \in Places /\ Step \in Plan(run.scope) /\ run.idx <= run.idx
            BY <2>1, <4>1, StepFacts DEF SeenInv
          <5>2. \A s \in run'.seen : s \in run.seen \/ s = OwnerOf[FullPlan[run.idx]]
            BY <2>1, <2>2, <3>1, StepFacts DEF Owner, Step
          <5> QED
            BY <2>1, <5>1, <5>2 DEF SeenInv, Step
        <4>4. \A k \in Places : k <= run.idx => k <= run'.idx
          BY <4>1, PlanFacts
        <4> QED
          BY <2>2, <4>2, <4>3, <4>4 DEF SeenInv, SameRun
      <3>2. CASE Step \notin Lenient
        BY <2>1, <2>2, <3>2 DEF SeenInv, SameRun, Step, MoreSteps
      <3> QED
        BY <3>1, <3>2
    <2>6. AbortInv'
      <3>1. CASE Step \in Lenient
        BY <2>2, <3>1 DEF AbortInv
      <3>2. CASE Step \notin Lenient
        <4>1. /\ MoreSteps' /\ Step' = Step /\ run'.idx = run.idx
              /\ run'.mem.step[Step].status = "failed"
          BY <2>1, <2>2, <3>2, StepFacts DEF MoreSteps, Step, Written
        <4>2. \A k \in Places : k < run.idx => FullPlan[k] # Step /\ FullPlan[k] \in Steps
          <5> TAKE k \in Places
          <5>1. k \in Nat /\ run.idx \in Nat /\ FullPlan[k] \in Steps
            BY <2>1, StepFacts, PlanFacts
          <5>2. k # run.idx => FullPlan[k] # Step
            BY <2>1, GoingOn
          <5> QED
            BY <5>1, <5>2
        <4>3. \A k \in Places : k < run.idx => run'.mem.step[FullPlan[k]] = run.mem.step[FullPlan[k]]
          BY <2>2, <4>2 DEF Written
        <4> QED
          BY <2>1, <2>2, <4>1, <4>3 DEF AbortInv, PassedInv, Effective, SameRun
      <3> QED
        BY <3>1, <3>2
    <2> QED
      BY <2>3, <2>4, <2>5, <2>6
  <1>8. CASE GateError
    <2>1. pc = "step" /\ ReachesGate /\ Step \in Gated /\ MoreSteps /\ Deploying /\ run.cfg \in Configs
      BY <1>8 DEF GateError, ReachesGate, AtStep, Deploying, RunInv
    <2>2. /\ run' \in Runs /\ disk' \in Journals
          /\ SameRun /\ Written("failed") /\ run'.seen = run.seen
          /\ pc' = "abort" /\ settled' = "no"
          /\ UNCHANGED <<config, truth, exit, done>>
      BY <1>8, GateErrorIs
    <2>3. SaidInv'
      BY <1>8 DEF EndsRecorded, GateError
    <2>4. HashedInv'
      BY <1>8 DEF EndsRecorded, GateError
    <2>5. SeenInv'
      BY <1>8 DEF EndsRecorded, GateError
    <2>6. AbortInv'
      BY <1>8 DEF EndsRecorded, GateError
    <2> QED
      BY <2>3, <2>4, <2>5, <2>6
  <1>9. CASE WhenError
    <2>1. /\ pc = "step" /\ Deploying
          /\ pc' = "abort" /\ settled' = "no"
          /\ UNCHANGED <<config, truth, disk, run, exit, done>>
      BY <1>9 DEF WhenError, AtStep, Deploying
    <2>2. SaidInv'
      BY <1>9 DEF EndsRecorded, WhenError
    <2>3. HashedInv'
      BY <1>9 DEF EndsRecorded, WhenError
    <2>4. SeenInv'
      BY <1>9 DEF EndsRecorded, WhenError
    <2>5. AbortInv'
      BY <1>9 DEF EndsRecorded, WhenError
    <2> QED
      BY <2>2, <2>3, <2>4, <2>5
  <1>10. CASE PipelineFinish
    <2>1. Deploying /\ run.cfg \in Configs
      BY <1>10 DEF PipelineFinish, Deploying, RunInv
    <2>2. PICK success \in BOOLEAN :
          Finish(success) /\ (success => pc = "step" /\ ~MoreSteps) /\ (~success => pc = "abort")
      BY <1>10 DEF PipelineFinish
    <2>3. /\ run' \in Runs
          /\ disk' = Finished(success) \/ ("save_error" \in Env /\ disk' = disk)
          /\ pc' \in {"clear", "idle"}
          /\ pc' = "clear" => /\ success /\ disk' = Finished(success)
                              /\ run'.scope = run.scope /\ run'.cfg = run.cfg
          /\ settled' \in {"yes", "no"} \/ settled' = settled
          /\ settled' # "trying"
          /\ settled' = "yes" /\ settled # "yes" =>
                settled = "trying" /\ success /\ disk' = Finished(success)
          /\ exit' \in {"ok", "unsaved", "failed"}
          /\ UNCHANGED <<config, truth, done>>
      BY <1>10, <2>1, <2>2, FinishIs
    <2>4. /\ Finished(success) \in Journals
          /\ Finished(success).step = run.mem.step
          /\ \A s \in Scopes : Finished(success).hash[s] =
                IF s \in Stamped THEN ConfigHash(run.cfg, s) ELSE run.mem.hash[s]
      BY <1>10, <2>1, FinishedIs
    <2>5. SaidInv'
      <3>1. /\ disk' = Finished(success) /\ run.cfg = config
            /\ pc = "abort" \/ (pc = "step" /\ ~MoreSteps)
        BY <2>1, <2>2, <2>3 DEF EndsRecorded, ActionInv
      <3>2. ASSUME NEW st \in OfServices PROVE AsSaid(disk, st)'
        <4> DEFINE s == OwnerOf[st]
        <4>1. st \in Steps /\ s \in Services /\ s \in Scopes /\ s # Project
          BY PlanFacts DEF OfServices, Scopes
        <4>2. CASE s \in run.seen
          <5>1. CASE ~ServicePassed(s)
            BY <3>1, <4>1, <4>2, <5>1, FinishedSays DEF AsSaid, Says
          <5>2. CASE ServicePassed(s)
            <6>1. \/ run.mem.step[st].status = "skipped"
                  \/ done[st] = DoneUnder(run.cfg, st)
              BY <2>1, <3>1, <4>2, <5>2, SeenIsPassed
            <6>2. disk'.hash[s] = ConfigHash(run.cfg, s) /\ disk'.step = run.mem.step
              BY <2>4, <3>1, <4>1, <4>2 DEF Stamped
            <6> QED
              BY <2>3, <6>1, <6>2 DEF AsSaid, DoneUnder
          <5> QED
            BY <5>1, <5>2
        <4>3. CASE s \notin run.seen
          <5>1. Says(disk', s) => Says(run.mem, s)
            BY <3>1, <4>1, <4>3, FinishedSays DEF Says
          <5>2. disk'.hash[s] = run.mem.hash[s] /\ disk'.step = run.mem.step
            BY <2>4, <3>1, <4>1, <4>3 DEF Stamped
          <5>3. AsSaid(run.mem, st)
            BY <2>1 DEF SaidInv
          <5> QED
            BY <2>3, <5>1, <5>2, <5>3 DEF AsSaid
        <4> QED
          BY <4>2, <4>3
      <3> QED
        BY <2>3, <3>2 DEF SaidInv, Deploying
    <2>6. HashedInv'
      <3>1. disk' = Finished(success) /\ run.cfg = config
        BY <2>1, <2>3 DEF EndsRecorded, ActionInv
      <3>2. ASSUME NEW s \in Services, disk'.status[s] = "deployed"
            PROVE  disk'.hash[s] = ConfigHash(config, s)
        <4>1. s \in Scopes /\ s # Project
          BY PlanFacts
        <4>2. CASE s \in run.seen
          BY <2>4, <3>1, <4>1, <4>2 DEF Stamped
        <4>3. CASE s \notin run.seen
          <5>1. run.mem.status[s] = "deployed"
            BY <3>1, <3>2, <4>3, FinishedSays
          <5>2. s \notin Stamped
            BY <4>1, <4>3 DEF Stamped
          <5> QED
            BY <2>1, <2>4, <3>1, <4>1, <5>1, <5>2 DEF HashedInv
        <4> QED
          BY <4>2, <4>3
      <3> QED
        BY <2>3, <3>2 DEF HashedInv, Deploying
    <2>7. SeenInv'
      BY <2>1, <2>2, <2>3, <2>4 DEF SeenInv, Deploying
    <2>8. AbortInv'
      BY <2>1, <2>2, <2>3, <2>4 DEF AbortInv
    <2> QED
      BY <2>5, <2>6, <2>7, <2>8
  <1>11. CASE ClearDeployedPending
    <2>1. /\ pc = "clear"
          /\ disk' \in Journals /\ disk'.step = disk.step /\ disk'.hash = disk.hash
          /\ pc' = "idle" /\ run' = NoRun
          /\ UNCHANGED <<config, truth, exit, done, settled>>
      BY <1>11, ClearDeployedPendingIs DEF ClearDeployedPending
    <2>2. SaidInv'
      <3>1. disk'.status = disk.status /\ disk'.last = disk.last
        BY <1>11 DEF ClearDeployedPending, ClearPendingServices, TypeOK, Journals
      <3> QED
        BY <2>1, <3>1 DEF SaidInv, BeingReset, AsSaid, Says, Deploying
    <2>3. HashedInv'
      <3>1. disk'.status = disk.status
        BY <1>11 DEF ClearDeployedPending, ClearPendingServices, TypeOK, Journals
      <3> QED
        BY <2>1, <3>1 DEF HashedInv, Deploying
    <2>4. SeenInv'
      BY <2>1 DEF SeenInv, Deploying
    <2>5. AbortInv'
      BY <2>1 DEF AbortInv
    <2> QED
      BY <2>2, <2>3, <2>4, <2>5
  <1>12. CASE ResetFinish
    <2>1. /\ pc = "reset" /\ disk' \in Journals
          /\ \A st \in Steps : disk'.step[st].status = "ok" =>
                /\ run.scope # {} /\ OwnerOf[st] \notin run.scope
                /\ disk'.step[st] = disk.step[st]
                /\ disk'.hash[OwnerOf[st]] = disk.hash[OwnerOf[st]]
          /\ pc' = "idle" /\ run' = NoRun
          /\ UNCHANGED <<config, truth, exit, done, settled>>
      BY <1>12, ResetFinishIs DEF ResetFinish
    <2>2. SaidInv'
      <3>1. CASE run.scope = {}
        <4>1. \A s \in Services : disk'.status[s] = "none"
          BY <1>12, <3>1, PlanFacts DEF ResetFinish, EmptyJournal
        <4> QED
          BY <2>1, <4>1, PlanFacts DEF SaidInv, AsSaid, Says, Deploying, OfServices, Scopes
      <3>2. CASE run.scope # {}
        <4>1. PICK s \in Services : run.scope = {s}
          BY <2>1, <3>2 DEF RunInv
        <4>2. disk' = ReplaceServiceWithPending(disk, s) /\ disk \in Journals
          BY <1>12, <3>2, <4>1 DEF ResetFinish, TypeOK
        <4>3. \A t \in Services : disk'.status[t] = "deployed" =>
                 /\ t # s /\ disk.status[t] = "deployed"
                 /\ disk'.last[t] = "ok" => disk.last[t] = "ok"
                 /\ disk'.hash[t] = disk.hash[t]
                 /\ \A st \in Steps : OwnerOf[st] = t => disk'.step[st] = disk.step[st]
          BY <4>2, ReplaceSays
        <4>4. ASSUME NEW st \in OfServices PROVE AsSaid(disk, st)'
          <5>1. st \in Steps /\ OwnerOf[st] \in Services
            BY PlanFacts DEF OfServices, Scopes
          <5>2. CASE Says(disk', OwnerOf[st])
            <6>1. /\ OwnerOf[st] # s /\ Says(disk, OwnerOf[st])
                  /\ disk'.hash[OwnerOf[st]] = disk.hash[OwnerOf[st]]
                  /\ disk'.step[st] = disk.step[st]
              BY <4>3, <5>1, <5>2 DEF Says
            <6>2. AsSaid(disk, st)
              BY <4>1, <6>1 DEF SaidInv, BeingReset
            <6> QED
              BY <2>1, <6>1, <6>2 DEF AsSaid
          <5>3. CASE ~Says(disk', OwnerOf[st])
            BY <5>3 DEF AsSaid
          <5> QED
            BY <5>2, <5>3
        <4> QED
          BY <2>1, <4>4 DEF SaidInv, Deploying
      <3> QED
        BY <3>1, <3>2
    <2>3. HashedInv'
      <3>1. CASE run.scope = {}
        <4>1. \A s \in Services : disk'.status[s] = "none"
          BY <1>12, <3>1, PlanFacts DEF ResetFinish, EmptyJournal
        <4> QED
          BY <2>1, <4>1, PlanFacts DEF HashedInv, Deploying
      <3>2. CASE run.scope # {}
        <4>1. PICK s \in Services : run.scope = {s}
          BY <2>1, <3>2 DEF RunInv
        <4>2. disk' = ReplaceServiceWithPending(disk, s) /\ disk \in Journals
          BY <1>12, <3>2, <4>1 DEF ResetFinish, TypeOK
        <4>3. \A t \in Services : disk'.status[t] = "deployed" =>
                 /\ t # s /\ disk.status[t] = "deployed"
                 /\ disk'.last[t] = "ok" => disk.last[t] = "ok"
                 /\ disk'.hash[t] = disk.hash[t]
                 /\ \A st \in Steps : OwnerOf[st] = t => disk'.step[st] = disk.step[st]
          BY <4>2, ReplaceSays
        <4> QED
          BY <2>1, <4>3 DEF HashedInv, Deploying
      <3> QED
        BY <3>1, <3>2
    <2>4. SeenInv'
      BY <2>1 DEF SeenInv, Deploying
    <2>5. AbortInv'
      BY <2>1 DEF AbortInv
    <2> QED
      BY <2>2, <2>3, <2>4, <2>5
  <1>13. CASE Crash
    <2>1. /\ "crash" \in Env /\ pc # "idle" /\ (pc = "reset" => "torn_reset" \in Env)
          /\ pc' = "idle" /\ run' = NoRun /\ exit' = "none" /\ settled' = "no"
          /\ UNCHANGED <<config, truth, disk, done>>
      BY <1>13 DEF Crash
    <2>2. SaidInv'
      <3>1. pc # "reset"
        BY <2>1 DEF EndsRecorded, Orderly
      <3> QED
        BY <2>1, <3>1 DEF SaidInv, BeingReset, AsSaid, Deploying
    <2>3. HashedInv'
      BY <2>1 DEF HashedInv, Deploying, SameRun, Written
    <2>4. SeenInv'
      BY <2>1 DEF SeenInv, Deploying
    <2>5. AbortInv'
      BY <2>1 DEF AbortInv
    <2> QED
      BY <2>2, <2>3, <2>4, <2>5
  <1>14. CASE Edit
    <2>1. /\ Editable # {} /\ config' \in Configs /\ settled' = "no"
          /\ UNCHANGED <<truth, disk, pc, run, exit, done>>
      BY <1>14, DeployAssumption DEF Edit, TypeOK, Configs
    <2>2. SaidInv'
      BY <2>1 DEF EndsRecorded
    <2>3. HashedInv'
      BY <2>1 DEF EndsRecorded
    <2>4. SeenInv'
      BY <2>1 DEF EndsRecorded
    <2>5. AbortInv'
      BY <2>1 DEF EndsRecorded
    <2> QED
      BY <2>2, <2>3, <2>4, <2>5
  <1>15. CASE ConditionChange
    <2>1. /\ truth' \subseteq Conditional /\ settled' = "no"
          /\ UNCHANGED <<config, disk, pc, run, exit, done>>
      BY <1>15 DEF ConditionChange, TypeOK
    <2>2. SaidInv'
      BY <2>1 DEF SaidInv, BeingReset, AsSaid, Says, Deploying
    <2>3. HashedInv'
      BY <2>1 DEF HashedInv, Deploying, SameRun, Written
    <2>4. SeenInv'
      BY <2>1 DEF SeenInv, Deploying, Step, MoreSteps
    <2>5. AbortInv'
      BY <2>1 DEF AbortInv, Step, MoreSteps, Effective
    <2> QED
      BY <2>2, <2>3, <2>4, <2>5
  <1>16. CASE StateRepair
    <2>1. /\ pc = "idle" /\ settled' = "no"
          /\ disk' \in Journals /\ disk'.step = disk.step /\ disk'.hash = disk.hash
          /\ UNCHANGED <<config, truth, pc, run, exit, done>>
      BY <1>16, RecomputeKeeps DEF StateRepair, TypeOK
    <2>2. SaidInv'
      <3>1. disk' = Recompute(disk) /\ disk \in Journals
        BY <1>16 DEF StateRepair, TypeOK
      <3>2. \A st \in OfServices : Says(disk', OwnerOf[st]) => Says(disk, OwnerOf[st])
        BY <3>1, RecomputeSays, PlanFacts DEF Says, OfServices, Scopes
      <3> QED
        BY <2>1, <3>2 DEF SaidInv, BeingReset, AsSaid, Deploying
    <2>3. HashedInv'
      <3>1. \A s \in Services : disk'.status[s] = disk.status[s]
        BY <1>16, RecomputeSays DEF StateRepair, TypeOK
      <3> QED
        BY <2>1, <3>1 DEF HashedInv, Deploying
    <2>4. SeenInv'
      BY <2>1 DEF SeenInv, Deploying
    <2>5. AbortInv'
      BY <2>1 DEF AbortInv
    <2> QED
      BY <2>2, <2>3, <2>4, <2>5
  <1>17. CASE StateClear
    <2>1. /\ pc = "idle" /\ settled' = "no"
          /\ disk' \in Journals /\ \A st \in Steps : disk'.step[st].status = "none"
          /\ UNCHANGED <<config, truth, pc, run, exit, done>>
      BY <1>17, EmptyType DEF StateClear, EmptyJournal, NoRecord
    <2>2. SaidInv'
      <3>1. \A s \in Services : disk'.status[s] = "none"
        BY <1>17, PlanFacts DEF StateClear, EmptyJournal
      <3> QED
        BY <2>1, <3>1, PlanFacts DEF SaidInv, AsSaid, Says, Deploying, OfServices, Scopes
    <2>3. HashedInv'
      <3>1. \A s \in Services : disk'.status[s] = "none"
        BY <1>17, PlanFacts DEF StateClear, EmptyJournal
      <3> QED
        BY <2>1, <3>1 DEF HashedInv, Deploying
    <2>4. SeenInv'
      BY <2>1 DEF SeenInv, Deploying
    <2>5. AbortInv'
      BY <2>1 DEF AbortInv
    <2> QED
      BY <2>2, <2>3, <2>4, <2>5
  <1>18. CASE \E scope \in SUBSET Services : (scope = {} \/ \E s \in Services : scope = {s}) /\ ResetBegin(scope)
    <2>1. PICK scope \in SUBSET Services :
          (scope = {} \/ \E s \in Services : scope = {s}) /\ ResetBegin(scope)
      BY <1>18
    <2>2. /\ pc = "idle" /\ pc' = "reset" /\ settled' = "no"
          /\ run' = [NoRun EXCEPT !.scope = scope]
          /\ done' = [st \in Steps |-> IF scope = {} \/ OwnerOf[st] \in scope THEN Never ELSE done[st]]
          /\ UNCHANGED <<config, truth, disk, exit>>
      BY <1>18, <2>1 DEF ResetBegin
    <2>3. run' \in Runs /\ run'.scope = scope
      BY <1>18, <2>2, NoRunType DEF NoRun, Runs
    <2>4. SaidInv'
      <3>1. \A st \in OfServices : AsSaid(disk, st)
        BY <2>2 DEF SaidInv, BeingReset
      <3>2. \A st \in OfServices : BeingReset(st)' \/ done'[st] = done[st]
        BY <2>2, <2>3 DEF BeingReset, OfServices
      <3>3. \A st \in OfServices : BeingReset(st)' \/ AsSaid(disk, st)'
        BY <2>2, <3>1, <3>2 DEF AsSaid
      <3> QED
        BY <2>2, <3>3 DEF SaidInv, Deploying
    <2>5. HashedInv'
      BY <2>1, <2>2, <2>3 DEF HashedInv, Deploying, SameRun, Written
    <2>6. SeenInv'
      BY <2>1, <2>2, <2>3 DEF SeenInv, Deploying
    <2>7. AbortInv'
      BY <2>1, <2>2, <2>3 DEF AbortInv
    <2> QED
      BY <2>4, <2>5, <2>6, <2>7
  <1>19. CASE ResetFail
    <2>1. /\ "torn_reset" \in Env /\ pc = "reset" /\ pc' = "idle" /\ run' = NoRun
          /\ UNCHANGED <<config, truth, disk, exit, done, settled>>
      BY <1>19 DEF ResetFail
    <2>2. SaidInv'
      BY <2>1 DEF EndsRecorded, Orderly
    <2>3. HashedInv'
      BY <2>1 DEF HashedInv, Deploying, SameRun, Written
    <2>4. SeenInv'
      BY <2>1 DEF SeenInv, Deploying
    <2>5. AbortInv'
      BY <2>1 DEF AbortInv
    <2> QED
      BY <2>2, <2>3, <2>4, <2>5
  <1>20. CASE UNCHANGED vars
    <2>1. UNCHANGED <<config, truth, disk, pc, run, exit, done, settled>>
      BY <1>20 DEF vars
    <2>2. SaidInv'
      BY <2>1 DEF SaidInv, BeingReset, AsSaid, Says, Deploying
    <2>3. HashedInv'
      BY <2>1 DEF HashedInv, Deploying, SameRun, Written
    <2>4. SeenInv'
      BY <2>1 DEF SeenInv, Deploying, Step, MoreSteps
    <2>5. AbortInv'
      BY <2>1 DEF AbortInv, Step, MoreSteps, Effective
    <2> QED
      BY <2>2, <2>3, <2>4, <2>5
  <1> QED
    BY <1>1, <1>2, <1>3, <1>4, <1>5, <1>6, <1>7, <1>8, <1>9, <1>10, <1>11, <1>12, <1>13,
       <1>14, <1>15, <1>16, <1>17, <1>18, <1>19, <1>20 DEF Next, Progress, Mishap, ResetEnds,
         ResetOutcomes

-----------------------------------------------------------------------------
(* "Already up-to-date" with kills.                                        *)

LEMMA ServiceHash ==
    ASSUME NEW c, NEW s \in Services
    PROVE  ConfigHash(c, s) # NoHash
PROOF
  <1>1. ConfigHash(c, s) = [p \in {s, "vars"} |-> c[p]]
    BY PlanFacts DEF ConfigHash
  <1>2. s \in DOMAIN ConfigHash(c, s) /\ s \notin DOMAIN NoHash
    BY <1>1 DEF NoHash
  <1> QED
    BY <1>2

\* What a journal keeps, a service at a time, is known as before.
LEMMA KnownKept ==
    ASSUME NEW j, NEW k, Known(j),
           \A s \in Services : k.status[s] = j.status[s] /\ k.hash[s] = j.hash[s],
           \A st \in Trusted : k.step[st] = j.step[st]
    PROVE  Known(k)
PROOF
  <1>1. \A st \in Trusted : OwnerOf[st] \in Services
    BY PlanFacts DEF Trusted, OfServices, Scopes
  <1> QED
    BY <1>1 DEF Known

LEMMA EmptyKnown == Known(EmptyJournal)
PROOF
  <1>1. /\ \A st \in Trusted : st \in Steps /\ OwnerOf[st] \in Services
        /\ Services \subseteq Scopes
    BY PlanFacts DEF Trusted, OfServices, Scopes
  <1> QED
    BY <1>1, ServiceHash DEF Known, EmptyJournal, NoRecord

\* What a reset leaves of the journal.
LEMMA ReplaceLeaves ==
    ASSUME NEW j \in Journals, NEW s \in Services, NEW t \in Services
    PROVE  LET r == ReplaceServiceWithPending(j, s)
           IN  \/ /\ r.status[t] = "none" /\ r.hash[t] = NoHash
                  /\ \A st \in Steps : OwnerOf[st] = t => r.step[st] = NoRecord
               \/ /\ r.status[t] = j.status[t] /\ r.hash[t] = j.hash[t]
                  /\ \A st \in Steps : OwnerOf[st] = t => r.step[st] = j.step[st]
PROOF
  <1> DEFINE f == ForgetService(j, s)
             e == [EmptyJournal EXCEPT !.pending = j.pending]
             r == ReplaceServiceWithPending(j, s)
  <1>0. t \in Scopes /\ s \in Scopes /\ NoRecord \in Records
    BY PlanFacts, HashTypes DEF NoRecord, Records, StepStatuses
  <1>1. /\ f \in Journals
        /\ \A st \in Steps : f.step[st] = IF OwnerOf[st] = s THEN NoRecord ELSE j.step[st]
        /\ f.status[s] = "none" /\ f.hash[s] = NoHash
        /\ t # s => f.status[t] = j.status[t] /\ f.hash[t] = j.hash[t]
    BY <1>0, HashTypes, PlanFacts DEF ForgetService, Journals, ScopeStatuses, RunStatuses
  <1>2. /\ Recompute(f) \in Journals
        /\ Recompute(f).step = f.step /\ Recompute(f).hash = f.hash
        /\ Recompute(f).status[t] = f.status[t]
    BY <1>1, RecomputeKeeps, RecomputeSays
  <1>3. /\ e \in Journals /\ e.status[t] = "none" /\ e.hash[t] = NoHash
        /\ \A st \in Steps : e.step[st] = NoRecord
    BY <1>0, EmptyType DEF Journals, EmptyJournal
  <1>4. \A k \in Journals : LET a == AddPending(k, FALSE, {s})
            IN  a.step = k.step /\ a.status = k.status /\ a.hash = k.hash
    BY DEF AddPending, Journals
  <1>5. PICK k \in {e, Recompute(f)} : r = AddPending(k, FALSE, {s})
    BY DEF ReplaceServiceWithPending
  <1> HIDE DEF e, f, r
  <1>6. r.step = k.step /\ r.status = k.status /\ r.hash = k.hash
    BY <1>2, <1>3, <1>4, <1>5
  <1>7. \/ /\ r.status[t] = "none" /\ r.hash[t] = NoHash
           /\ \A st \in Steps : OwnerOf[st] = t => r.step[st] = NoRecord
        \/ /\ r.status[t] = j.status[t] /\ r.hash[t] = j.hash[t]
           /\ \A st \in Steps : OwnerOf[st] = t => r.step[st] = j.step[st]
    <2>1. CASE k = e
      BY <2>1, <1>3, <1>6
    <2>2. CASE k = Recompute(f) /\ t = s
      BY <2>2, <1>1, <1>2, <1>6
    <2>3. CASE k = Recompute(f) /\ t # s
      BY <2>3, <1>1, <1>2, <1>6
    <2> QED
      BY <2>1, <2>2, <2>3
  <1> QED
    BY <1>7 DEF r

\* The end of a run stamps what it has come to, and leaves the rest.
LEMMA FinishKnown ==
    ASSUME TypeOK, PassedInv, SeenInv, AbortInv, Deploying, run.cfg \in Configs,
           pc = "abort" \/ (pc = "step" /\ ~MoreSteps), Known(run.mem),
           NEW success \in BOOLEAN
    PROVE  Known(Finished(success))
PROOF
  <1> DEFINE j == Finished(success)
  <1>1. /\ j.step = run.mem.step
        /\ \A s \in Services :
              /\ j.status[s] = IF s \in run.seen
                               THEN IF ServicePassed(s) THEN "deployed" ELSE "failed"
                               ELSE run.mem.status[s]
              /\ s \notin run.seen => j.hash[s] = run.mem.hash[s]
    BY FinishedIs, FinishedSays, PlanFacts DEF Stamped
  <1>2. \A st \in Trusted : st \in OfServices /\ OwnerOf[st] \in Services
    BY PlanFacts DEF Trusted, OfServices, Scopes
  <1> HIDE DEF j
  <1>3. ASSUME NEW st \in Trusted, j.status[OwnerOf[st]] = "deployed"
        PROVE  j.step[st].status \in {"ok", "skipped"}
    <2>1. CASE OwnerOf[st] \in run.seen
      <3>1. ServicePassed(OwnerOf[st])
        BY <1>1, <1>2, <1>3, <2>1
      <3> QED
        BY <1>1, <1>2, <2>1, <3>1, SeenIsPassed
    <2>2. CASE OwnerOf[st] \notin run.seen
      BY <1>1, <1>2, <1>3, <2>2 DEF Known
    <2> QED
      BY <2>1, <2>2
  <1>4. \A st \in Trusted : j.step[st].status = "skipped" => st \in Conditional \ truth
    BY <1>1 DEF Known
  <1>5. \A s \in Services :
            j.hash[s] = ConfigHash(config, s) => j.status[s] \in {"deployed", "failed"}
    BY <1>1 DEF Known
  <1>6. Known(j)
    BY <1>3, <1>4, <1>5 DEF Known
  <1> QED
    BY <1>6 DEF j

(* Every action keeps what the journal and its copy say of the services.    *)
LEMMA KnownStep ==
    ASSUME NeverQuiet, TypeOK, RunInv, ActionInv, PassedInv, HashedInv, SeenInv, AbortInv,
           KnownInv, [Next]_vars
    PROVE  KnownInv'
PROOF
  <1>a. /\ Editable = {}
        /\ Env \cap {"gate_error", "when_error", "save_error", "condition", "torn_reset"} = {}
    BY DEF NeverQuiet, EndsRecorded, Orderly
  <1>b. \A st \in Trusted : /\ st \in Steps \ (Lenient \cup Checked \cup Gated)
                            /\ OwnerOf[st] \in Services
    BY PlanFacts DEF Trusted, OfServices, Scopes
  \* Actions that leave the configuration are all there are.
  <1>c. ASSUME config' = config, truth' = truth, NEW j, Known(j), disk' = j, ~Deploying'
        PROVE  KnownInv'
    BY <1>c DEF KnownInv, Known, Deploying
  <1>1. CASE UNCHANGED vars
    BY <1>1 DEF vars, KnownInv, Known, Deploying, Step, Owner
  <1>2. ASSUME NEW scope \in RunScopes, NEW request \in RequestsMade,
               RunHelper(scope, request)
        PROVE  KnownInv'
    <2>1. CASE UNCHANGED <<config, truth, disk, pc, run, done, settled>>
      BY <2>1 DEF KnownInv, Known, Deploying, Step, Owner
    <2>2. ASSUME NEW force \in BOOLEAN, Start(scope, force) PROVE KnownInv'
      <3>1. /\ config' = config /\ truth' = truth /\ disk' = disk /\ pc' = "step"
            /\ run'.force = force
            /\ ~force => run'.mem.hash = disk.hash /\ run'.mem.status = disk.status
            /\ force => \A s \in Services : /\ run'.mem.status[s] = "none"
                                            /\ run'.mem.hash[s] = NoHash
            /\ \A st \in Steps : run'.mem.step[st] =
                  IF ~force /\ disk.hash[OwnerOf[st]] = ConfigHash(config, OwnerOf[st])
                  THEN disk.step[st] ELSE NoRecord
        BY <2>2, StartIs
      <3>2. /\ Known(disk) /\ NoRecord.status = "none"
            /\ \A s \in Services :
                  disk.status[s] = "deployed" => disk.hash[s] = ConfigHash(config, s)
        BY DEF KnownInv, HashedInv, NoRecord
      <3>3. ASSUME NEW st \in Trusted, run'.mem.status[OwnerOf[st]] = "deployed"
            PROVE  run'.mem.step[st].status \in {"ok", "skipped"}
        BY <1>b, <3>1, <3>2, <3>3 DEF Known
      <3>4. ASSUME NEW st \in Trusted, run'.mem.step[st].status = "skipped"
            PROVE  st \in Conditional \ truth
        BY <1>b, <3>1, <3>2, <3>4 DEF Known
      <3>5. ASSUME NEW s \in Services, run'.mem.hash[s] = ConfigHash(config, s)
            PROVE  run'.mem.status[s] \in {"deployed", "failed"}
        BY <3>1, <3>2, <3>5, ServiceHash DEF Known
      <3>6. Known(run.mem)'
        BY <3>1, <3>3, <3>4, <3>5 DEF Known
      <3>7. Known(disk)'
        BY <3>1, <3>2 DEF Known
      <3> QED
        BY <3>1, <3>6, <3>7 DEF KnownInv
    <2> QED
      BY <1>2, <2>1, <2>2, RunHelperIs
  \* A record of a step that is not trusted, or that says what it may.
  <1>d. ASSUME NEW status \in StepStatuses, Written(status), SameRun, Deploying,
               pc' # "body", UNCHANGED <<config, truth>>,
               Step \in Trusted =>
                  \/ status = "ok"
                  \/ status = "skipped" /\ Step \in Conditional \ truth
                  \/ status = "failed" /\ run.mem.status[Owner] # "deployed"
        PROVE  KnownInv'
    <2>1. /\ run'.mem.hash = run.mem.hash /\ run'.mem.status = run.mem.status
          /\ \A st \in Steps : run'.mem.step[st] =
                IF st = Step THEN [status |-> status, action |-> ActionHash(run.cfg, Step)]
                ELSE run.mem.step[st]
          /\ disk' = run'.mem
      BY <1>a, <1>d DEF Written
    <2>2. Known(run.mem)
      BY <1>d DEF KnownInv
    <2>3. Known(run.mem)'
      <3>1. ASSUME NEW st \in Trusted, run.mem.status[OwnerOf[st]] = "deployed"
            PROVE  run'.mem.step[st].status \in {"ok", "skipped"}
        BY <1>b, <1>d, <2>1, <2>2, <3>1 DEF Known, Owner
      <3>2. ASSUME NEW st \in Trusted, run'.mem.step[st].status = "skipped"
            PROVE  st \in Conditional \ truth
        BY <1>b, <1>d, <2>1, <2>2, <3>2 DEF Known
      <3> QED
        BY <1>d, <2>1, <2>2, <3>1, <3>2 DEF Known
    <2>4. Known(disk)'
      BY <2>1, <2>3 DEF Known
    <2>5. Deploying' /\ run'.force =>
              \A s \in Services : run'.mem.status[s] # "deployed"
      BY <1>d, <2>1 DEF KnownInv, SameRun
    <2> QED
      BY <1>d, <2>3, <2>4, <2>5 DEF KnownInv
  <1>3. CASE SkipWhen
    <2>1. MoreSteps /\ pc = "step" /\ Deploying /\ run.cfg \in Configs
          /\ Step \in Conditional \ truth
      BY <1>3 DEF SkipWhen, AtStep, Deploying, RunInv, WhenFalse
    <2>2. SameRun /\ Written("skipped") /\ UNCHANGED <<config, truth, pc>>
      BY <1>3, <2>1, SkipRecordedIs DEF SkipWhen
    <2> QED
      BY <1>d, <2>1, <2>2 DEF StepStatuses
  <1>4. CASE SkipState
    <2>1. /\ pc = "step" /\ pc' = pc /\ SameRun /\ run'.mem = run.mem
          /\ UNCHANGED <<config, truth, disk>>
      BY <1>4, SkipStateIs DEF SkipState, AtStep
    <2> QED
      BY <2>1 DEF KnownInv, Known, Deploying, SameRun
  <1>5. CASE SkipGate
    <2>1. MoreSteps /\ pc = "step" /\ Deploying /\ run.cfg \in Configs /\ Step \in Gated
      BY <1>5 DEF SkipGate, ReachesGate, AtStep, Deploying, RunInv
    <2>2. SameRun /\ Written("skipped") /\ UNCHANGED <<config, truth, pc>>
      BY <1>5, <2>1, SkipRecordedIs DEF SkipGate
    <2> QED
      BY <1>b, <1>d, <2>1, <2>2 DEF StepStatuses
  <1>6. CASE StartBody
    <2>1. ReachesGate /\ MoreSteps /\ pc = "step" /\ Deploying /\ run.cfg = config
          /\ Known(run.mem) /\ Known(disk)
      BY <1>a, <1>6 DEF StartBody, ReachesGate, AtStep, Deploying, ActionInv, KnownInv
    <2>2. /\ SameRun /\ run'.idx = run.idx
          /\ run'.mem.hash = run.mem.hash /\ run'.mem.step = run.mem.step
          /\ run'.mem.status = run.mem.status
          /\ disk' = disk \/ disk' = run'.mem
          /\ UNCHANGED <<config, truth>>
      BY <1>6, StartBodyIs
    <2>3. Known(run.mem)' /\ Known(disk)'
      BY <2>1, <2>2 DEF Known
    <2>4. ASSUME Step \in Trusted, run.mem.status[Owner] = "deployed" PROVE FALSE
      <3>1. Step \in Steps /\ Owner \in Services
            /\ Step \notin Checked \cup Producers
        BY <1>b, <2>4 DEF Owner, Gated
      <3>2. run.mem.step[Step].status = "ok"
        BY <2>1, <2>4 DEF Known, Owner, ReachesGate, WhenFalse
      <3>3. ~run.force
        BY <2>1, <2>4, <3>1 DEF KnownInv
      <3>4. run.mem.hash[Owner] = ConfigHash(run.cfg, Owner)
        BY <2>1, <2>4, <3>1 DEF HashedInv
      <3>5. run.mem.step[Step].action = ActionHash(run.cfg, Step)
        BY <1>a, <2>1, <3>1, <3>2 DEF ActionInv
      <3> QED
        BY <2>1, <3>1, <3>2, <3>3, <3>4, <3>5 DEF ReachesGate, SkipsByState, JournalSkips,
           Skippable
    <2>5. Step' = Step /\ Owner' = Owner
      BY <2>2 DEF Step, Owner
    <2>6. run'.force => \A s \in Services : run'.mem.status[s] # "deployed"
      BY <2>1, <2>2 DEF KnownInv, SameRun
    <2>7. Step' \in Trusted => run'.mem.status[Owner'] # "deployed"
      BY <2>2, <2>4, <2>5
    <2> QED
      BY <2>3, <2>6, <2>7 DEF KnownInv
  <1>7. CASE BodyOk
    <2>1. Deploying
      BY <1>7 DEF BodyOk, Deploying
    <2>2. SameRun /\ Written("ok") /\ pc' = "step" /\ UNCHANGED <<config, truth>>
      BY <1>7, BodyOkIs
    <2> QED
      BY <1>d, <2>1, <2>2 DEF StepStatuses
  <1>8. CASE BodyFail
    <2>1. Deploying /\ (Step \in Trusted => run.mem.status[Owner] # "deployed")
      BY <1>8 DEF BodyFail, Deploying, KnownInv
    <2>2. SameRun /\ Written("failed") /\ pc' # "body" /\ UNCHANGED <<config, truth>>
      BY <1>8, BodyFailIs
    <2> QED
      BY <1>d, <2>1, <2>2 DEF StepStatuses
  <1>9. CASE PipelineFinish
    <2>1. PICK success \in BOOLEAN : Finish(success)
      BY <1>9 DEF PipelineFinish
    <2>2. Deploying /\ run.cfg \in Configs /\ (pc = "abort" \/ (pc = "step" /\ ~MoreSteps))
      BY <1>9 DEF PipelineFinish, Deploying, RunInv
    <2>3. /\ disk' = Finished(success) /\ pc' \in {"clear", "idle"}
          /\ UNCHANGED <<config, truth>>
      BY <1>a, <2>1, <2>2, FinishIs
    <2>4. Known(Finished(success))
      BY <2>2, FinishKnown DEF KnownInv
    <2> QED
      BY <1>c, <2>3, <2>4 DEF Deploying
  <1>10. CASE ClearDeployedPending
    <2>1. /\ disk'.step = disk.step /\ disk'.hash = disk.hash /\ disk'.status = disk.status
          /\ pc' = "idle" /\ UNCHANGED <<config, truth>>
      BY <1>10 DEF ClearDeployedPending, ClearPendingServices, TypeOK, Journals
    <2>2. Known(disk')
      BY <2>1, KnownKept DEF KnownInv
    <2> QED
      BY <1>c, <2>1, <2>2 DEF Deploying
  <1>11. CASE ResetFinish
    <2>1. pc' = "idle" /\ UNCHANGED <<config, truth>>
      BY <1>11 DEF ResetFinish
    <2>2. CASE run.scope = {}
      <3>1. disk' = EmptyJournal
        BY <1>11, <2>2 DEF ResetFinish
      <3> QED
        BY <1>c, <2>1, <3>1, EmptyKnown DEF Deploying
    <2>3. CASE run.scope # {}
      <3>1. PICK s \in Services : run.scope = {s}
        BY <1>11, <2>3 DEF RunInv, ResetFinish
      <3>2. disk' = ReplaceServiceWithPending(disk, s) /\ disk \in Journals /\ Known(disk)
        BY <1>11, <2>3, <3>1 DEF ResetFinish, TypeOK, KnownInv
      <3>3. \A t \in Services :
               \/ /\ disk'.status[t] = "none" /\ disk'.hash[t] = NoHash
                  /\ \A st \in Steps : OwnerOf[st] = t => disk'.step[st] = NoRecord
               \/ /\ disk'.status[t] = disk.status[t] /\ disk'.hash[t] = disk.hash[t]
                  /\ \A st \in Steps : OwnerOf[st] = t => disk'.step[st] = disk.step[st]
        BY <3>2, ReplaceLeaves
      <3>4. Known(disk')
        BY <1>b, <3>2, <3>3, ServiceHash DEF Known, NoRecord
      <3> QED
        BY <1>c, <2>1, <3>4 DEF Deploying
    <2> QED
      BY <2>2, <2>3
  <1>12. CASE Crash
    BY <1>12, <1>c DEF Crash, KnownInv, Deploying
  <1>13. CASE StateRepair
    <2>1. disk' = Recompute(disk) /\ disk \in Journals /\ Known(disk) /\ pc' = "idle"
          /\ UNCHANGED <<config, truth>>
      BY <1>13 DEF StateRepair, TypeOK, KnownInv
    <2>2. Known(disk')
      BY <2>1, RecomputeKeeps, RecomputeSays, KnownKept
    <2> QED
      BY <1>c, <2>1, <2>2 DEF Deploying
  <1>14. CASE StateClear
    BY <1>14, <1>c, EmptyKnown DEF StateClear, Deploying
  <1>15. ASSUME NEW scope \in SUBSET Services, ResetBegin(scope) PROVE KnownInv'
    BY <1>15, <1>c DEF ResetBegin, KnownInv, Deploying
  <1>16. ~(WhenError \/ GateError \/ Edit \/ ConditionChange \/ ResetFail)
    BY <1>a DEF WhenError, GateError, Edit, ConditionChange, ResetFail
  <1> QED
    BY <1>1, <1>2, <1>3, <1>4, <1>5, <1>6, <1>7, <1>8, <1>9, <1>10, <1>11, <1>12, <1>13,
       <1>14, <1>15, <1>16 DEF Next, Progress, Mishap, ResetEnds,
         ResetOutcomes

-----------------------------------------------------------------------------
(* The theorems.                                                           *)

LEMMA InitFacts ==
    ASSUME Init
    PROVE  AgainInv /\ OkInv /\ CrashInv /\ FullInv /\ SaidAll
PROOF
  <1>1. TypeOK
    BY EmptyType, NoRunType, OutcomeTypes DEF Init, TypeOK
  <1>2. pc = "idle" /\ settled = "no" /\ \A st \in Steps : disk.step[st].status = "none"
    BY DEF Init, EmptyJournal, NoRecord
  <1>3. StampInv /\ RunInv /\ SettledInv /\ TryingInv /\ MarkInv
    BY <1>2 DEF StampInv, RunInv, SettledInv, TryingInv, MarkInv, Deploying
  <1>4. MemInv /\ ActionInv /\ AheadInv /\ PassedInv /\ OkMeansDeployed /\ DiskInv
    BY <1>2 DEF MemInv, ActionInv, AheadInv, PassedInv, OkMeansDeployed, DiskInv, Believed,
       Deploying
  <1>5. FullInv
    BY PlanFacts DEF FullInv, LastOf, Whole, Init, EmptyJournal
  <1>6. \A s \in Services : disk.status[s] = "none"
    BY PlanFacts DEF Init, EmptyJournal
  <1>7. \A st \in OfServices : OwnerOf[st] \in Services
    BY PlanFacts DEF OfServices, Scopes
  <1>8. HashedInv /\ SeenInv /\ AbortInv /\ SaidInv
    BY <1>2, <1>6, <1>7 DEF HashedInv, SeenInv, AbortInv, SaidInv, AsSaid, Says, Deploying
  <1> QED
    BY <1>1, <1>3, <1>4, <1>5, <1>8 DEF AgainInv, OkInv, CrashInv, SaidAll

(* Every variable keeps its type: a journal stays one, the place of a run   *)
(* stays in the plan or just after it.                                      *)
THEOREM TypeCorrect == Spec => []TypeOK
PROOF
  <1>1. Init => TypeOK /\ StampInv /\ RunInv
    BY InitFacts DEF AgainInv
  <1>2. TypeOK /\ StampInv /\ RunInv /\ [Next]_vars => TypeOK' /\ StampInv' /\ RunInv'
    BY BaseStep
  <1> QED
    BY <1>1, <1>2, PTL DEF Spec

LEMMA AgainInvariance == Spec => []AgainInv
PROOF
  <1>1. Init => AgainInv
    BY InitFacts
  <1>2. AgainInv /\ [Next]_vars => AgainInv'
    BY BaseStep, AgainStep DEF AgainInv
  <1> QED
    BY <1>1, <1>2, PTL DEF Spec

(* Deploying again changes nothing, whatever else may happen: as long as    *)
(* nothing happened since a full deploy that ended well, the journal skips  *)
(* every body it may answer for.                                            *)
THEOREM AgainNothing == Spec => []Idempotent
PROOF
  <1>1. AgainInv => Idempotent
    BY DEF AgainInv, SettledInv, Idempotent
  <1> QED
    BY <1>1, AgainInvariance, PTL

LEMMA OkInvariance == ASSUME Orderly PROVE Spec => []OkInv
PROOF
  <1>1. Init => OkInv
    BY InitFacts
  <1>2. OkInv /\ [Next]_vars => OkInv'
    BY BaseStep, OkStep DEF OkInv
  <1> QED
    BY <1>1, <1>2, PTL DEF Spec

(* Exit code 0 is a promise, under Orderly: every step of the plan is done  *)
(* as configured, skipped for a reason of its own, or lenient.              *)
THEOREM ExitZero == ASSUME Orderly PROVE Spec => []OkMeansDeployed
PROOF
  <1>1. OkInv => OkMeansDeployed
    BY DEF OkInv
  <1> QED
    BY <1>1, OkInvariance, PTL

(* A step skipped for its journal record has done its work as now           *)
(* configured, under Orderly.                                               *)
THEOREM SkipsAreSound == ASSUME Orderly PROVE Spec => []SkipSound
PROOF
  <1>1. OkInv => SkipSound
    BY StepFacts DEF OkInv, SkipSound, MemInv, AtStep, Deploying, SkipsByState,
       JournalSkips, Skippable
  <1> QED
    BY <1>1, OkInvariance, PTL

(* While the body of a service's step runs, the service's last run is       *)
(* in_progress on disk, so that a crash shows: where writes do not fail.    *)
THEOREM CrashShows == ASSUME "save_error" \notin Env PROVE Spec => []ServiceCrashVisible
PROOF
  <1>1. Init => CrashInv
    BY InitFacts
  <1>2. CrashInv /\ [Next]_vars => CrashInv'
    <2> SUFFICES ASSUME CrashInv, [Next]_vars PROVE CrashInv'
      OBVIOUS
    <2> QED
      BY BaseStep, MarkStep DEF CrashInv
  <1>3. CrashInv => ServiceCrashVisible
    BY StepFacts DEF CrashInv, RunInv, MarkInv, ServiceCrashVisible
  <1> QED
    BY <1>1, <1>2, <1>3, PTL DEF Spec

(* The journal is sound under FullRunsOnly: what a step is skipped for, that *)
(* "already up-to-date" is true, what exit code 0 says and that a crash      *)
(* would show.                                                               *)
THEOREM JournalIsSound == ASSUME FullRunsOnly PROVE Spec => []JournalSound
PROOF
  <1>1. Orderly /\ "save_error" \notin Env /\ RunScopes = {{}}
    BY DEF FullRunsOnly, Orderly, LeftBehind, RunScopes
  <1>2. Init => FullInv
    BY InitFacts
  <1>3. OkInv /\ FullInv /\ [Next]_vars => FullInv'
    BY FullStep DEF OkInv
  <1>4. OkInv /\ FullInv => UpToDateSound
    <2> SUFFICES ASSUME OkInv, FullInv, pc = "idle", UpToDate(disk, config, {}),
                        NEW st \in Steps \ Lenient
                 PROVE  disk.step[st].status = "skipped" \/ Effective(config, st)
      BY <1>1 DEF UpToDateSound, InScope
    <2>1. /\ disk.status[Project] = "deployed" /\ disk.last[Project] # "failed"
          /\ disk.hash[Project] = ConfigHash(config, Project)
          /\ \A s \in Services : /\ disk.status[s] = "deployed"
                                 /\ disk.hash[s] = ConfigHash(config, s)
          /\ st \notin Checked \cup Gated
      BY FullRun DEF UpToDate, ScopeStatus, LastRuns, HashesMatch, AllTrackedDeployed,
         ForcedSteps
    <2>2. disk.last[Project] = "ok"
      BY <2>1, PlanFacts DEF FullInv, Deploying, LastOf
    <2>3. OwnerOf[st] \in Services \cup {Project}
      BY PlanFacts DEF Scopes
    <2>4. disk.step[st].status \in {"skipped", "ok"}
      BY <2>1, <2>2, <2>3 DEF FullInv, Deploying, Whole
    <2>5. disk.hash[OwnerOf[st]] = ConfigHash(config, OwnerOf[st])
      BY <2>1, <2>3
    <2>6. disk.step[st].status = "ok" => done[st] = DoneUnder(config, st)
      BY <2>1, <2>5 DEF OkInv, DiskInv, Deploying, Believed, BeingReset, DoneUnder, Gated
    <2> QED
      BY <2>4, <2>6 DEF Effective
  <1> QED
    BY <1>1, <1>2, <1>3, <1>4, OkInvariance, ExitZero, SkipsAreSound, CrashShows, PTL DEF
       Spec, JournalSound

LEMMA SaidInvariance == ASSUME EndsRecorded PROVE Spec => []SaidAll
PROOF
  <1>1. Orderly /\ "save_error" \notin Env
    BY DEF EndsRecorded
  <1>2. Init => SaidAll
    BY InitFacts
  <1>3. OkInv /\ SaidAll /\ [Next]_vars => SaidAll'
    <2> SUFFICES ASSUME OkInv, SaidAll, [Next]_vars PROVE SaidAll'
      OBVIOUS
    <2>1. OkInv'
      BY <1>1, BaseStep, OkStep DEF OkInv
    <2>2. CrashInv'
      BY <1>1, BaseStep, MarkStep DEF SaidAll, CrashInv
    <2>3. SaidInv' /\ HashedInv' /\ SeenInv' /\ AbortInv'
      BY SaidStep DEF SaidAll, CrashInv
    <2> QED
      BY <2>1, <2>2, <2>3 DEF SaidAll, OkInv
  <1> QED
    BY <1>1, <1>2, <1>3, OkInvariance, PTL DEF Spec

(* A service the journal calls deployed, with a last run that came to its   *)
(* end, has all its steps done under the hash it is journaled with, under   *)
(* EndsRecorded.                                                            *)
THEOREM ServiceIsDone == ASSUME EndsRecorded PROVE Spec => []DeployedMeansDone
PROOF
  <1>1. SaidAll => DeployedMeansDone
    BY DEF SaidAll, SaidInv, AsSaid, Says, OfServices, BeingReset, DeployedMeansDone
  <1> QED
    BY <1>1, SaidInvariance, PTL

(* The journal is sound under NeverQuiet, too: with kills, failing steps,    *)
(* service runs, resets and repairs, or with --force instead of the kills,   *)
(* skips, "already up-to-date", exit code 0 and crash marks are true.        *)
THEOREM SoundWithKills == ASSUME NeverQuiet PROVE Spec => []JournalSound
PROOF
  <1>1. EndsRecorded /\ Orderly /\ "save_error" \notin Env
    BY DEF NeverQuiet, EndsRecorded
  <1>2. Init => KnownInv
    BY EmptyKnown DEF Init, KnownInv, Deploying
  <1>3. OkInv /\ SaidAll /\ KnownInv /\ [Next]_vars => KnownInv'
    BY KnownStep DEF OkInv, SaidAll
  <1>4. OkInv /\ KnownInv => UpToDateSound
    <2> SUFFICES ASSUME OkInv, KnownInv, pc = "idle", NEW scope \in RunScopes,
                        UpToDate(disk, config, scope), NEW st \in InScope(scope) \ Lenient
                 PROVE  disk.step[st].status = "skipped" \/ Effective(config, st)
      BY DEF UpToDateSound
    <2>1. /\ ScopeStatus(disk, scope) = "deployed" /\ HashesMatch(disk, config, scope)
          /\ Plan(scope) \cap (Checked \cup Gated) = {} /\ scope \in SUBSET Services
      BY DEF UpToDate, ForcedSteps, RunScopes
    <2>2. scope # {}
      BY <2>1, FullRun DEF NeverQuiet
    <2>3. PICK s \in scope : st \in StepsOf(s)
      BY <2>2 DEF InScope
    <2>4. s \in Services /\ s # Project /\ st \in Steps /\ OwnerOf[st] = s
      BY <2>1, <2>3, PlanFacts DEF StepsOf
    <2>5. disk.hash[s] = ConfigHash(config, s) /\ disk.status[s] # "failed"
      BY <2>1, <2>2, <2>3 DEF ScopeStatus, HashesMatch
    <2>6. disk.status[s] = "deployed"
      BY <2>4, <2>5 DEF KnownInv, Known
    <2>7. st \in Trusted
      BY <2>1, <2>3, <2>4 DEF Trusted, OfServices, Plan
    <2>8. disk.step[st].status \in {"ok", "skipped"}
      BY <2>4, <2>6, <2>7 DEF KnownInv, Known
    <2>9. st \notin Checked \cup Producers
      BY <2>7 DEF Trusted, Gated
    <2>10. disk.step[st].status = "ok" => done[st] = DoneUnder(config, st)
      BY <2>4, <2>5, <2>9 DEF OkInv, DiskInv, Deploying, Believed, BeingReset, DoneUnder
    <2> QED
      BY <2>8, <2>10 DEF Effective
  <1>5. Spec => []SaidAll
    BY <1>1, SaidInvariance
  <1> QED
    BY <1>1, <1>2, <1>3, <1>4, <1>5, OkInvariance, ExitZero, SkipsAreSound, CrashShows, PTL
       DEF Spec, JournalSound
=============================================================================
