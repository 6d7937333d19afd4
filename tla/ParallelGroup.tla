---------------------------- MODULE ParallelGroup ----------------------------
(***************************************************************************)
(* A parallel group of steps.  There are two implementations, alike:       *)
(*                                                                         *)
(*   "pipeline"  executeParallelGroup of                                   *)
(*               src/internal/core/execution/pipeline/executor.go, whose   *)
(*               sub-steps report to the deploy journal (FileRecorder);    *)
(*   "workflow"  runParallelGroup of src/internal/core/usercommands/       *)
(*               runtime/runners/workflow/parallel.go, with no journal.    *)
(*                                                                         *)
(* The main goroutine hands the sub-steps to an errgroup in order, waiting *)
(* for a free place; every one runs in a goroutine of its own.  With       *)
(* fail_fast the first error cancels the group's context.  SIGINT cancels  *)
(* it too, a kill ends the process, and the next run goes by the journal.  *)
(* The group is taken for the whole of a service's pipeline, of steps that *)
(* have no check: and no files_gate state: missing, which DeployRun has.   *)
(***************************************************************************)
EXTENDS Naturals, FiniteSets

CONSTANTS
    N,             \* the number of sub-steps
    MaxConcurrent, \* max_concurrent, or a number of CPUs
    Lenient,       \* the sub-steps with continue_on_error
    MaxRuns,       \* bound on the runs of the pipeline or the workflow
    Kinds          \* the implementations looked at

ASSUME ParallelAssumption ==
    /\ N \in Nat \ {0} /\ MaxConcurrent \in Nat \ {0} /\ MaxRuns \in Nat
    /\ Lenient \subseteq 1 .. N
    /\ Kinds \subseteq {"pipeline", "workflow"}

Subs == 1 .. N

VARIABLES
    kind,        \* the implementation
    failFast,    \* fail_fast of the group
    pc,          \* the main goroutine: idle, launch, wait or finish
    next,        \* the next sub-step to hand over
    at,          \* where each sub-step's goroutine is
    res,         \* how each sub-step of this run came out
    cancelled,   \* the group's context is
    interrupted, \* the parent context is
    egErr,       \* the errgroup has an error
    errs,        \* groupErrs is not empty
    outcome,     \* what the last run returned
    rec,         \* the journal: the record of each sub-step
    last,        \* the journal: last_run of the service
    seen,        \* servicesSeenInThisRun has it
    runs,        \* how many have been started
    did,         \* what the bodies did
    unrecorded,  \* an error of this run left no record
    excused      \* the run that set last was interrupted, had such an error, or a
                 \* files gate has failed since, which leaves last as it is

control == <<pc, next, at, res, cancelled, interrupted, egErr, errs, outcome, runs>>
journal == <<rec, last, seen>>
flags == <<unrecorded, excused>>
vars == <<kind, failFast, control, journal, did, flags>>

Journaled == kind = "pipeline"

Init ==
    /\ kind \in Kinds /\ failFast \in BOOLEAN
    /\ pc = "idle" /\ next = 1
    /\ at = [i \in Subs |-> "none"] /\ res = [i \in Subs |-> "none"]
    /\ cancelled = FALSE /\ interrupted = FALSE /\ egErr = FALSE /\ errs = FALSE
    /\ outcome = "none" /\ runs = 0
    /\ rec = [i \in Subs |-> "none"] /\ last = "none" /\ seen = FALSE
    /\ did = [i \in Subs |-> "no"] /\ unrecorded = FALSE /\ excused = FALSE

Same == UNCHANGED <<kind, failFast, runs>>

\* The next run, of the same configuration.
Run ==
    /\ pc = "idle" /\ runs < MaxRuns /\ runs' = runs + 1
    /\ pc' = "group" /\ next' = 1 /\ outcome' = "none"
    /\ at' = [i \in Subs |-> "none"] /\ res' = [i \in Subs |-> "none"]
    /\ cancelled' = FALSE /\ interrupted' = FALSE /\ egErr' = FALSE /\ errs' = FALSE
    /\ seen' = FALSE /\ unrecorded' = FALSE
    /\ did' = IF Journaled THEN did ELSE [i \in Subs |-> "no"]
    /\ UNCHANGED <<kind, failFast, rec, last, excused>>

\* The group's own when: is evaluated once.  The workflow's preflight refuses
\* a sub-step that would have to be confirmed.
GroupWhenFalse ==
    /\ pc = "group" /\ Journaled /\ pc' = "finish"
    /\ rec' = [i \in Subs |-> "skipped"] /\ res' = [i \in Subs |-> "skipped"] /\ seen' = TRUE
    /\ Same /\ UNCHANGED <<next, at, cancelled, interrupted, egErr, errs, outcome, last, did, flags>>

GroupRefused ==
    /\ pc = "group" /\ pc' = "finish"
    /\ errs' = TRUE /\ egErr' = TRUE /\ unrecorded' = TRUE
    /\ Same /\ UNCHANGED <<next, at, res, cancelled, interrupted, outcome, journal, did, excused>>

GroupStart ==
    /\ pc = "group" /\ pc' = "launch"
    /\ Same /\ UNCHANGED <<next, at, res, cancelled, interrupted, egErr, errs, outcome, journal, did, flags>>

\* eg.Go blocks while MaxConcurrent goroutines are at work.
Active == {i \in Subs : at[i] \notin {"none", "ended"}}

Launch ==
    /\ pc = "launch" /\ Cardinality(Active) < MaxConcurrent
    /\ at' = [at EXCEPT ![next] = "begin"]
    /\ next' = next + 1
    /\ pc' = IF next = N THEN "wait" ELSE "launch"
    /\ Same /\ UNCHANGED <<res, cancelled, interrupted, egErr, errs, outcome, journal, did, flags>>

(***************************************************************************)
(* A sub-step                                                              *)
(***************************************************************************)

\* The goroutine ends without an error.
Succeed(i, r) ==
    /\ at' = [at EXCEPT ![i] = "ended"] /\ res' = [res EXCEPT ![i] = r]
    /\ UNCHANGED <<cancelled, egErr, errs>>

\* The goroutine ends with an error: returned to the errgroup, which cancels the
\* context, with fail_fast, and collected without.
Err(i, r) ==
    /\ at' = [at EXCEPT ![i] = "ended"] /\ res' = [res EXCEPT ![i] = r]
    /\ IF failFast
       THEN cancelled' = TRUE /\ egErr' = TRUE /\ UNCHANGED errs
       ELSE errs' = TRUE /\ UNCHANGED <<cancelled, egErr>>

SubStep(i, where) ==
    /\ at[i] = where /\ Same
    /\ UNCHANGED <<pc, next, interrupted, outcome>>

\* Mutant: the pipeline too returns no error.
CancelledSilently(i) ==
    /\ SubStep(i, "begin") /\ cancelled
    /\ at' = [at EXCEPT ![i] = "ended"] /\ res' = [res EXCEPT ![i] = "cancelled"]
    /\ UNCHANGED <<cancelled, egErr, errs, journal, did, flags>>

\* A sub-step that finds the context cancelled does not start and leaves no
\* record.  The pipeline returns an error to the errgroup, fail_fast or not;
\* the workflow returns none.
Cancelled(i) ==
    /\ SubStep(i, "begin") /\ cancelled
    /\ at' = [at EXCEPT ![i] = "ended"] /\ res' = [res EXCEPT ![i] = "cancelled"]
    /\ egErr' = (egErr \/ Journaled)
    /\ UNCHANGED <<cancelled, errs, journal, did, flags>>

Check(i) ==
    /\ SubStep(i, "begin") /\ ~cancelled
    /\ at' = [at EXCEPT ![i] = "checked"]
    /\ UNCHANGED <<res, cancelled, egErr, errs, journal, did, flags>>

\* Its condition cannot be evaluated, or its log cannot be opened.
Unevaluated(i) ==
    /\ SubStep(i, "checked") /\ Err(i, "error")
    /\ unrecorded' = TRUE /\ UNCHANGED <<journal, did, excused>>

\* Its when: is false, its command hidden, or its files gate not satisfied.
Skip(i) ==
    /\ SubStep(i, "checked") /\ Succeed(i, "skipped")
    /\ IF Journaled THEN rec' = [rec EXCEPT ![i] = "skipped"] /\ seen' = TRUE
                    ELSE UNCHANGED <<rec, seen>>
    /\ UNCHANGED <<last, did, flags>>

\* Its files gate cannot be probed: a failure, continue_on_error or not, of a
\* step that has not been started: the service is not seen by it.
GateFails(i) ==
    /\ SubStep(i, "checked") /\ Err(i, "error")
    /\ IF Journaled THEN rec' = [rec EXCEPT ![i] = "failed"] /\ UNCHANGED unrecorded
                    ELSE unrecorded' = TRUE /\ UNCHANGED rec
    /\ excused' = (excused \/ last # "in_progress")
    /\ UNCHANGED <<last, seen, did>>

\* The journal has it as done under the same hash.
SkipState(i) ==
    /\ SubStep(i, "checked") /\ Journaled /\ rec[i] = "ok" /\ Succeed(i, "skipped")
    /\ UNCHANGED <<journal, did, flags>>

\* OnStepStart puts the service in progress on the disk before the body runs.
Start(i) ==
    /\ SubStep(i, "checked") /\ (Journaled => rec[i] # "ok")
    /\ at' = [at EXCEPT ![i] = "body"]
    /\ IF Journaled THEN last' = "in_progress" /\ seen' = TRUE ELSE UNCHANGED <<last, seen>>
    /\ UNCHANGED <<res, cancelled, egErr, errs, rec, did, flags>>

BodyEnds(i, how, effect) ==
    /\ SubStep(i, "body")
    /\ at' = [at EXCEPT ![i] = how] /\ did' = [did EXCEPT ![i] = effect]
    /\ UNCHANGED <<res, cancelled, egErr, errs, journal, flags>>

\* The body, the hook and the check are all well.
BodyWorks(i) == BodyEnds(i, "worked", "done")
\* The body fails, or it works and its hook or its check does not.
BodyFails(i) == BodyEnds(i, "failed", "partial") \/ BodyEnds(i, "failed", "done")
\* Mutant: the body is given the context of the pipeline, not of the group.
BodyStoppedByParent(i) ==
    /\ interrupted
    /\ BodyEnds(i, "failed", IF did[i] = "done" THEN "done" ELSE "partial")

\* A cancelled body gets SIGTERM and then is killed.
BodyStopped(i) ==
    /\ cancelled
    /\ BodyEnds(i, "failed", IF did[i] = "done" THEN "done" ELSE "partial")

\* OnStepFinish and OnStepFail write the record and save the journal.
Recorded(i, status) ==
    /\ rec' = IF Journaled THEN [rec EXCEPT ![i] = status] ELSE rec
    /\ UNCHANGED <<last, seen>>

Finish(i) ==
    /\ SubStep(i, "worked") /\ Succeed(i, "ok") /\ Recorded(i, "ok")
    /\ UNCHANGED <<did, flags>>

\* Mutant: a failure that is let pass is recorded as a success.
FailLenientOk(i) ==
    /\ SubStep(i, "failed") /\ Recorded(i, IF i \in Lenient THEN "ok" ELSE "failed")
    /\ IF i \in Lenient THEN Succeed(i, "lenient") ELSE Err(i, "failed")
    /\ UNCHANGED <<did, flags>>

Fail(i) ==
    /\ SubStep(i, "failed") /\ Recorded(i, "failed")
    /\ IF i \in Lenient THEN Succeed(i, "lenient") ELSE Err(i, "failed")
    /\ UNCHANGED <<did, flags>>

(***************************************************************************)
(* The end of the group and of the pipeline                                *)
(***************************************************************************)

\* Wait returns the first error with fail_fast; without it what Wait returns is
\* dropped and the collected errors count.  The workflow adds the parent's.
GroupFailed ==
    \/ failFast /\ egErr
    \/ ~failFast /\ errs
    \/ ~Journaled /\ interrupted

Wait ==
    /\ pc = "wait" /\ Active = {} /\ pc' = "finish"
    /\ Same /\ UNCHANGED <<next, at, res, cancelled, interrupted, egErr, errs, outcome, journal, did, flags>>

\* Mutant: the service gets the outcome of the pipeline.
PipelineFinishGlobal ==
    /\ pc = "finish" /\ pc' = "idle"
    /\ outcome' = IF GroupFailed THEN "failed" ELSE "ok"
    /\ IF Journaled /\ seen
       THEN /\ last' = IF GroupFailed THEN "failed" ELSE "ok"
            /\ excused' = (interrupted \/ unrecorded)
       ELSE UNCHANGED <<last, excused>>
    /\ UNCHANGED <<kind, failFast, next, at, res, cancelled, interrupted, egErr, errs, runs,
                   rec, seen, did, unrecorded>>

\* OnPipelineFinish judges a service that was seen by the records it has.
PipelineFinish ==
    /\ pc = "finish" /\ pc' = "idle"
    /\ outcome' = IF GroupFailed THEN "failed" ELSE "ok"
    /\ IF Journaled /\ seen
       THEN /\ last' = IF \E i \in Subs : rec[i] = "failed" THEN "failed" ELSE "ok"
            /\ excused' = (interrupted \/ unrecorded)
       ELSE UNCHANGED <<last, excused>>
    /\ UNCHANGED <<kind, failFast, next, at, res, cancelled, interrupted, egErr, errs, runs,
                   rec, seen, did, unrecorded>>

\* SIGINT or SIGTERM.
Interrupt ==
    /\ pc # "idle" /\ ~interrupted
    /\ interrupted' = TRUE /\ cancelled' = TRUE
    /\ Same /\ UNCHANGED <<pc, next, at, res, egErr, errs, outcome, journal, did, flags>>

\* The process is killed, and its children with it.
Kill ==
    /\ pc # "idle" /\ pc' = "idle" /\ outcome' = "killed"
    /\ at' = [i \in Subs |-> "none"]
    /\ did' = [i \in Subs |-> IF at[i] = "body" /\ did[i] = "no" THEN "partial" ELSE did[i]]
    /\ Same /\ UNCHANGED <<next, res, cancelled, interrupted, egErr, errs, journal, flags>>

Sub(i) ==
    \/ Cancelled(i) \/ Check(i) \/ Unevaluated(i) \/ Skip(i) \/ GateFails(i)
    \/ SkipState(i) \/ Start(i) \/ BodyWorks(i) \/ BodyFails(i) \/ BodyStopped(i)
    \/ Finish(i) \/ Fail(i)

Group == GroupWhenFalse \/ GroupRefused \/ GroupStart \/ Launch \/ Wait \/ PipelineFinish

Next == Run \/ Group \/ (\E i \in Subs : Sub(i)) \/ Interrupt \/ Kill

Spec == Init /\ [][Next]_vars

\* The main goroutine and the goroutines of the sub-steps run, and what is told
\* to stop does; a body may hang for ever as long as it is not cancelled.
Fairness ==
    /\ WF_vars(Group)
    /\ \A i \in Subs :
          /\ WF_vars(Cancelled(i) \/ Check(i))
          /\ WF_vars(Unevaluated(i) \/ Skip(i) \/ GateFails(i) \/ SkipState(i) \/ Start(i))
          /\ WF_vars(BodyStopped(i))
          /\ WF_vars(Finish(i) \/ Fail(i))

FairSpec == Spec /\ Fairness

-----------------------------------------------------------------------------

TypeOK ==
    /\ kind \in Kinds /\ failFast \in BOOLEAN
    /\ pc \in {"idle", "group", "launch", "wait", "finish"} /\ next \in 1 .. N + 1
    /\ at \in [Subs -> {"none", "begin", "checked", "body", "worked", "failed", "ended"}]
    /\ res \in [Subs -> {"none", "ok", "skipped", "failed", "lenient", "error", "cancelled"}]
    /\ {cancelled, interrupted, egErr, errs, seen, unrecorded, excused} \subseteq BOOLEAN
    /\ outcome \in {"none", "ok", "failed", "killed"} /\ runs \in 0 .. MaxRuns
    /\ rec \in [Subs -> {"none", "ok", "failed", "skipped"}]
    /\ last \in {"none", "in_progress", "ok", "failed"}
    /\ did \in [Subs -> {"no", "partial", "done"}]

\* The journal is right.  What the next run skips is done: a record says ok only of
\* a sub-step whose body, hook and check all worked, whatever the order in which
\* the others ended, failed or were cut (file_recorder.go:194).  And between two
\* runs, a service whose last run is ok has every sub-step done or skipped
\* (file_recorder.go:344, "a service whose steps all passed is deployed"), unless
\* the run that said so was interrupted or had an error that leaves no record, or
\* a files gate failed in a run nothing was started in.
JournalTruth ==
    /\ \A i \in Subs : rec[i] = "ok" => did[i] = "done"
    /\ pc = "idle" /\ last = "ok" /\ ~excused =>
           \A i \in Subs : rec[i] = "skipped" \/ did[i] = "done"

Complete == \A i \in Subs : res[i] \in {"ok", "skipped", "lenient"}

\* A group that returns no error has run or skipped every sub-step, but for
\* those with continue_on_error (executor.go:1121): none that was cancelled,
\* could not be evaluated or failed is passed over.  A pipeline that was
\* interrupted without fail_fast is left out: see OkAlwaysMeansComplete.
OkMeansComplete ==
    pc = "idle" /\ outcome = "ok" /\ (Journaled => failFast \/ ~interrupted) => Complete

\* The same of an interrupted pipeline without fail_fast: "errors are collected
\* and joined into a single returned error" (executor.go:1071).
OkAlwaysMeansComplete == pc = "idle" /\ outcome = "ok" => Complete

\* Once the context is cancelled the group ends, even when a body would have
\* hung (executor.go:1110).
EndsWhenCancelled == (pc # "idle" /\ cancelled) ~> (pc = "idle")
=============================================================================
