------------------------- MODULE ParallelGroupProofs -------------------------
(***************************************************************************)
(* Proofs about the parallel groups, for any number of sub-steps, any      *)
(* limit on those at work, any choice of continue_on_error and any number  *)
(* of runs, of both implementations.                                       *)
(***************************************************************************)
EXTENDS ParallelGroup, TLAPS

\* Where the goroutines can be, by where the main one is.
PlaceInv ==
    /\ pc = "group" => next = 1 /\ \A i \in Subs : at[i] = "none"
    /\ pc = "launch" => next \in Subs
    /\ pc = "wait" => next = N + 1
    /\ pc \in {"launch", "wait"} => \A i \in Subs : at[i] = "none" <=> i >= next
    /\ pc \in {"idle", "finish"} => \A i \in Subs : at[i] \in {"none", "ended"}

\* A group is at its end when all its sub-steps are, or it was refused, or its
\* own condition was false.
FinishInv == pc = "finish" =>
    \/ \A i \in Subs : at[i] = "ended"
    \/ unrecorded /\ egErr /\ errs
    \/ \A i \in Subs : rec[i] = "skipped" /\ res[i] = "skipped"

\* Only a pipeline has a journal.
JournalInv == ~Journaled =>
    last = "none" /\ ~seen /\ \A i \in Subs : rec[i] = "none"

\* What is at work is not recorded as done, and the service is in progress.
AtWork(i) == at[i] \in {"body", "worked", "failed"}
WorkInv == \A i \in Subs :
    /\ rec[i] = "ok" => did[i] = "done"
    /\ at[i] = "worked" => did[i] = "done"
    /\ AtWork(i) /\ Journaled => rec[i] # "ok" /\ last = "in_progress"

\* Every error is somewhere: in the errgroup or among those collected.
ErrorInv ==
    /\ cancelled => interrupted \/ (failFast /\ egErr)
    /\ \A i \in Subs :
          /\ res[i] \in {"failed", "error"} => IF failFast THEN egErr ELSE errs
          /\ res[i] = "cancelled" => cancelled /\ (Journaled => egErr)
          /\ at[i] = "ended" => res[i] # "none"

\* In a run that was not interrupted and whose errors all left records, every
\* sub-step that has ended is skipped, done or recorded as failed, or another
\* one is recorded as failed.
Settled(i) == rec[i] = "skipped" \/ did[i] = "done"
FailureRecorded == \E j \in Subs : at[j] = "ended" /\ rec[j] = "failed"
RecordInv == Journaled /\ pc # "idle" /\ ~unrecorded =>
    /\ cancelled => interrupted \/ FailureRecorded
    /\ \A i \in Subs : at[i] = "ended" => Settled(i) \/ rec[i] = "failed" \/ cancelled

\* A service that is ok has everything done or skipped, in the middle of the
\* next run too, until that run starts something.
DeployedInv == last = "ok" /\ ~excused => \A i \in Subs : Settled(i)

Inv ==
    /\ TypeOK /\ PlaceInv /\ FinishInv /\ JournalInv
    /\ WorkInv /\ ErrorInv /\ RecordInv /\ DeployedInv /\ OkMeansComplete

LEMMA InvStep == Inv /\ [Next]_vars => Inv'
  <1> SUFFICES ASSUME Inv, [Next]_vars PROVE Inv'
    OBVIOUS
  <1>1. CASE Run
    <2>1. TypeOK'
      <3>1. cancelled \in BOOLEAN /\ excused \in BOOLEAN
        BY DEF Inv, TypeOK
      <3>2. {cancelled, interrupted, egErr, errs, seen, unrecorded, excused}' \subseteq BOOLEAN
        BY <1>1, <3>1, Zenon DEF Run
      <3>3. runs' \in 0 .. MaxRuns
        BY <1>1, ParallelAssumption DEF Run, Inv, TypeOK
      <3> QED
        BY <1>1, <3>2, <3>3, ParallelAssumption DEF Run, Inv, TypeOK, Subs
    <2>2. PlaceInv'
      BY <1>1, ParallelAssumption DEF Inv, PlaceInv, TypeOK, Run, Journaled, Subs
    <2>3. FinishInv'
      BY <1>1, ParallelAssumption DEF Inv, FinishInv, PlaceInv, TypeOK, Run, Journaled, Subs
    <2>4. JournalInv'
      BY <1>1, ParallelAssumption DEF Inv, JournalInv, Run, Journaled, Subs
    <2>5. WorkInv'
      BY <1>1, ParallelAssumption DEF Inv, WorkInv, AtWork, PlaceInv, JournalInv, TypeOK,
         Run, Journaled, Subs
    <2>6. ErrorInv'
      BY <1>1, ParallelAssumption DEF Inv, ErrorInv, TypeOK, PlaceInv, Run, Journaled, Subs
    <2>7. RecordInv'
      BY <1>1, ParallelAssumption DEF Inv, RecordInv, FailureRecorded, Settled, TypeOK,
         PlaceInv, WorkInv, Run, Journaled, Subs
    <2>8. DeployedInv'
      BY <1>1, ParallelAssumption DEF Inv, DeployedInv, Settled, WorkInv, AtWork, TypeOK,
         JournalInv, FinishInv, RecordInv, FailureRecorded, Run, Journaled, Subs
    <2>9. OkMeansComplete'
      BY <1>1, ParallelAssumption DEF Inv, OkMeansComplete, Complete, PlaceInv, FinishInv,
         ErrorInv, TypeOK, Run, Journaled, Subs
    <2> QED
      BY <2>1, <2>2, <2>3, <2>4, <2>5, <2>6, <2>7, <2>8, <2>9 DEF Inv
  <1>2. CASE GroupWhenFalse
    <2>1. TypeOK'
      BY <1>2, ParallelAssumption DEF Inv, TypeOK, PlaceInv, GroupWhenFalse, Journaled,
         Subs, flags, Same
    <2>2. PlaceInv'
      BY <1>2, ParallelAssumption DEF Inv, PlaceInv, TypeOK, GroupWhenFalse, Journaled,
         Subs, flags, Same
    <2>3. FinishInv'
      BY <1>2, ParallelAssumption DEF Inv, FinishInv, PlaceInv, TypeOK, GroupWhenFalse,
         Journaled, Subs, flags, Same
    <2>4. JournalInv'
      BY <1>2, ParallelAssumption DEF Inv, JournalInv, GroupWhenFalse, Journaled, Subs,
         flags, Same
    <2>5. WorkInv'
      BY <1>2, ParallelAssumption DEF Inv, WorkInv, AtWork, PlaceInv, JournalInv, TypeOK,
         GroupWhenFalse, Journaled, Subs, flags, Same
    <2>6. ErrorInv'
      BY <1>2, ParallelAssumption DEF Inv, ErrorInv, TypeOK, PlaceInv, GroupWhenFalse,
         Journaled, Subs, flags, Same
    <2>7. RecordInv'
      BY <1>2, ParallelAssumption DEF Inv, RecordInv, FailureRecorded, Settled, TypeOK,
         PlaceInv, WorkInv, GroupWhenFalse, Journaled, Subs, flags, Same
    <2>8. DeployedInv'
      BY <1>2, ParallelAssumption DEF Inv, DeployedInv, Settled, WorkInv, AtWork, TypeOK,
         JournalInv, FinishInv, RecordInv, FailureRecorded, GroupWhenFalse, Journaled, Subs,
         flags, Same
    <2>9. OkMeansComplete'
      BY <1>2, ParallelAssumption DEF Inv, OkMeansComplete, Complete, PlaceInv, FinishInv,
         ErrorInv, TypeOK, GroupWhenFalse, Journaled, Subs, flags, Same
    <2> QED
      BY <2>1, <2>2, <2>3, <2>4, <2>5, <2>6, <2>7, <2>8, <2>9 DEF Inv
  <1>3. CASE GroupRefused
    <2>1. TypeOK'
      BY <1>3, ParallelAssumption DEF Inv, TypeOK, PlaceInv, GroupRefused, Subs, journal,
         Same
    <2>2. PlaceInv'
      BY <1>3, ParallelAssumption DEF Inv, PlaceInv, TypeOK, GroupRefused, Subs, journal,
         Same
    <2>3. FinishInv'
      BY <1>3, ParallelAssumption DEF Inv, FinishInv, PlaceInv, TypeOK, GroupRefused, Subs,
         journal, Same
    <2>4. JournalInv'
      BY <1>3, ParallelAssumption DEF Inv, JournalInv, GroupRefused, Journaled, Subs,
         journal, Same
    <2>5. WorkInv'
      BY <1>3, ParallelAssumption DEF Inv, WorkInv, AtWork, PlaceInv, JournalInv, TypeOK,
         GroupRefused, Journaled, Subs, journal, Same
    <2>6. ErrorInv'
      BY <1>3, ParallelAssumption DEF Inv, ErrorInv, TypeOK, PlaceInv, GroupRefused,
         Journaled, Subs, journal, Same
    <2>7. RecordInv'
      BY <1>3, ParallelAssumption DEF Inv, RecordInv, FailureRecorded, Settled, TypeOK,
         PlaceInv, WorkInv, GroupRefused, Journaled, Subs, journal, Same
    <2>8. DeployedInv'
      BY <1>3, ParallelAssumption DEF Inv, DeployedInv, Settled, WorkInv, AtWork, TypeOK,
         JournalInv, FinishInv, RecordInv, FailureRecorded, GroupRefused, Journaled, Subs,
         journal, Same
    <2>9. OkMeansComplete'
      BY <1>3, ParallelAssumption DEF Inv, OkMeansComplete, Complete, PlaceInv, FinishInv,
         ErrorInv, TypeOK, GroupRefused, Journaled, Subs, journal, Same
    <2> QED
      BY <2>1, <2>2, <2>3, <2>4, <2>5, <2>6, <2>7, <2>8, <2>9 DEF Inv
  <1>4. CASE GroupStart
    <2>1. TypeOK'
      BY <1>4, ParallelAssumption DEF Inv, TypeOK, PlaceInv, GroupStart, Subs, journal,
         flags, Same
    <2>2. PlaceInv'
      BY <1>4, ParallelAssumption DEF Inv, PlaceInv, TypeOK, GroupStart, Subs, journal,
         flags, Same
    <2>3. FinishInv'
      BY <1>4, ParallelAssumption DEF Inv, FinishInv, PlaceInv, TypeOK, GroupStart, Subs,
         journal, flags, Same
    <2>4. JournalInv'
      BY <1>4, ParallelAssumption DEF Inv, JournalInv, GroupStart, Journaled, Subs, journal,
         flags, Same
    <2>5. WorkInv'
      BY <1>4, ParallelAssumption DEF Inv, WorkInv, AtWork, PlaceInv, JournalInv, TypeOK,
         GroupStart, Journaled, Subs, journal, flags, Same
    <2>6. ErrorInv'
      BY <1>4, ParallelAssumption DEF Inv, ErrorInv, TypeOK, PlaceInv, GroupStart,
         Journaled, Subs, journal, flags, Same
    <2>7. RecordInv'
      BY <1>4, ParallelAssumption DEF Inv, RecordInv, FailureRecorded, Settled, TypeOK,
         PlaceInv, WorkInv, GroupStart, Journaled, Subs, journal, flags, Same
    <2>8. DeployedInv'
      BY <1>4, ParallelAssumption DEF Inv, DeployedInv, Settled, WorkInv, AtWork, TypeOK,
         JournalInv, FinishInv, RecordInv, FailureRecorded, GroupStart, Journaled, Subs,
         journal, flags, Same
    <2>9. OkMeansComplete'
      BY <1>4, ParallelAssumption DEF Inv, OkMeansComplete, Complete, PlaceInv, FinishInv,
         ErrorInv, TypeOK, GroupStart, Journaled, Subs, journal, flags, Same
    <2> QED
      BY <2>1, <2>2, <2>3, <2>4, <2>5, <2>6, <2>7, <2>8, <2>9 DEF Inv
  <1>5. CASE Launch
    <2>1. TypeOK'
      BY <1>5, ParallelAssumption DEF Inv, TypeOK, PlaceInv, Launch, Subs, journal, flags,
         Same
    <2>2. PlaceInv'
      BY <1>5, ParallelAssumption DEF Inv, PlaceInv, TypeOK, Launch, Subs, journal, flags,
         Same
    <2>3. FinishInv'
      BY <1>5, ParallelAssumption DEF Inv, FinishInv, PlaceInv, TypeOK, Launch, Subs,
         journal, flags, Same
    <2>4. JournalInv'
      BY <1>5, ParallelAssumption DEF Inv, JournalInv, Launch, Journaled, Subs, journal,
         flags, Same
    <2>5. WorkInv'
      BY <1>5, ParallelAssumption DEF Inv, WorkInv, AtWork, PlaceInv, JournalInv, TypeOK,
         Launch, Journaled, Subs, journal, flags, Same
    <2>6. ErrorInv'
      BY <1>5, ParallelAssumption DEF Inv, ErrorInv, TypeOK, PlaceInv, Launch, Journaled,
         Subs, journal, flags, Same
    <2>7. RecordInv'
      BY <1>5, ParallelAssumption DEF Inv, RecordInv, FailureRecorded, Settled, TypeOK,
         PlaceInv, WorkInv, Launch, Journaled, Subs, journal, flags, Same
    <2>8. DeployedInv'
      BY <1>5, ParallelAssumption DEF Inv, DeployedInv, Settled, WorkInv, AtWork, TypeOK,
         JournalInv, FinishInv, RecordInv, FailureRecorded, Launch, Journaled, Subs,
         journal, flags, Same
    <2>9. OkMeansComplete'
      BY <1>5, ParallelAssumption DEF Inv, OkMeansComplete, Complete, PlaceInv, FinishInv,
         ErrorInv, TypeOK, Launch, Journaled, Subs, journal, flags, Same
    <2> QED
      BY <2>1, <2>2, <2>3, <2>4, <2>5, <2>6, <2>7, <2>8, <2>9 DEF Inv
  <1>6. CASE Wait
    <2>1. TypeOK'
      BY <1>6, ParallelAssumption DEF Inv, TypeOK, PlaceInv, Wait, Active, Subs, journal,
         flags, Same
    <2>2. PlaceInv'
      BY <1>6, ParallelAssumption DEF Inv, PlaceInv, TypeOK, Wait, Active, Subs, journal,
         flags, Same
    <2>3. FinishInv'
      BY <1>6, ParallelAssumption DEF Inv, FinishInv, PlaceInv, TypeOK, Wait, Active, Subs,
         journal, flags, Same
    <2>4. JournalInv'
      BY <1>6, ParallelAssumption DEF Inv, JournalInv, Wait, Active, Journaled, Subs,
         journal, flags, Same
    <2>5. WorkInv'
      BY <1>6, ParallelAssumption DEF Inv, WorkInv, AtWork, PlaceInv, JournalInv, TypeOK,
         Wait, Active, Journaled, Subs, journal, flags, Same
    <2>6. ErrorInv'
      BY <1>6, ParallelAssumption DEF Inv, ErrorInv, TypeOK, PlaceInv, Wait, Active,
         Journaled, Subs, journal, flags, Same
    <2>7. RecordInv'
      BY <1>6, ParallelAssumption DEF Inv, RecordInv, FailureRecorded, Settled, TypeOK,
         PlaceInv, WorkInv, Wait, Active, Journaled, Subs, journal, flags, Same
    <2>8. DeployedInv'
      BY <1>6, ParallelAssumption DEF Inv, DeployedInv, Settled, WorkInv, AtWork, TypeOK,
         JournalInv, FinishInv, RecordInv, FailureRecorded, Wait, Active, Journaled, Subs,
         journal, flags, Same
    <2>9. OkMeansComplete'
      BY <1>6, ParallelAssumption DEF Inv, OkMeansComplete, Complete, PlaceInv, FinishInv,
         ErrorInv, TypeOK, Wait, Active, Journaled, Subs, journal, flags, Same
    <2> QED
      BY <2>1, <2>2, <2>3, <2>4, <2>5, <2>6, <2>7, <2>8, <2>9 DEF Inv
  <1>7. CASE PipelineFinish
    <2>1. TypeOK'
      BY <1>7, ParallelAssumption DEF Inv, TypeOK, PlaceInv, PipelineFinish, GroupFailed,
         Journaled, Subs
    <2>2. PlaceInv'
      BY <1>7, ParallelAssumption DEF Inv, PlaceInv, TypeOK, PipelineFinish, GroupFailed,
         Journaled, Subs
    <2>3. FinishInv'
      BY <1>7, ParallelAssumption DEF Inv, FinishInv, PlaceInv, TypeOK, PipelineFinish,
         GroupFailed, Journaled, Subs
    <2>4. JournalInv'
      BY <1>7, ParallelAssumption DEF Inv, JournalInv, PipelineFinish, GroupFailed,
         Journaled, Subs
    <2>5. WorkInv'
      BY <1>7, ParallelAssumption DEF Inv, WorkInv, AtWork, PlaceInv, JournalInv, TypeOK,
         PipelineFinish, GroupFailed, Journaled, Subs
    <2>6. ErrorInv'
      BY <1>7, ParallelAssumption DEF Inv, ErrorInv, TypeOK, PlaceInv, PipelineFinish,
         GroupFailed, Journaled, Subs
    <2>7. RecordInv'
      BY <1>7, ParallelAssumption DEF Inv, RecordInv, FailureRecorded, Settled, TypeOK,
         PlaceInv, WorkInv, PipelineFinish, GroupFailed, Journaled, Subs
    <2>8. DeployedInv'
      BY <1>7, ParallelAssumption DEF Inv, DeployedInv, Settled, WorkInv, AtWork, TypeOK,
         JournalInv, FinishInv, RecordInv, FailureRecorded, PipelineFinish, GroupFailed,
         Journaled, Subs
    <2>9. OkMeansComplete'
      BY <1>7, ParallelAssumption DEF Inv, OkMeansComplete, Complete, PlaceInv, FinishInv,
         ErrorInv, TypeOK, PipelineFinish, GroupFailed, Journaled, Subs
    <2> QED
      BY <2>1, <2>2, <2>3, <2>4, <2>5, <2>6, <2>7, <2>8, <2>9 DEF Inv
  <1>8. CASE Interrupt
    <2>1. TypeOK'
      BY <1>8, ParallelAssumption DEF Inv, TypeOK, PlaceInv, Interrupt, Subs, journal,
         flags, Same
    <2>2. PlaceInv'
      BY <1>8, ParallelAssumption DEF Inv, PlaceInv, TypeOK, Interrupt, Subs, journal,
         flags, Same
    <2>3. FinishInv'
      BY <1>8, ParallelAssumption DEF Inv, FinishInv, PlaceInv, TypeOK, Interrupt, Subs,
         journal, flags, Same
    <2>4. JournalInv'
      BY <1>8, ParallelAssumption DEF Inv, JournalInv, Interrupt, Journaled, Subs, journal,
         flags, Same
    <2>5. WorkInv'
      BY <1>8, ParallelAssumption DEF Inv, WorkInv, AtWork, PlaceInv, JournalInv, TypeOK,
         Interrupt, Journaled, Subs, journal, flags, Same
    <2>6. ErrorInv'
      BY <1>8, ParallelAssumption DEF Inv, ErrorInv, TypeOK, PlaceInv, Interrupt, Journaled,
         Subs, journal, flags, Same
    <2>7. RecordInv'
      BY <1>8, ParallelAssumption DEF Inv, RecordInv, FailureRecorded, Settled, TypeOK,
         PlaceInv, WorkInv, Interrupt, Journaled, Subs, journal, flags, Same
    <2>8. DeployedInv'
      BY <1>8, ParallelAssumption DEF Inv, DeployedInv, Settled, WorkInv, AtWork, TypeOK,
         JournalInv, FinishInv, RecordInv, FailureRecorded, Interrupt, Journaled, Subs,
         journal, flags, Same
    <2>9. OkMeansComplete'
      BY <1>8, ParallelAssumption DEF Inv, OkMeansComplete, Complete, PlaceInv, FinishInv,
         ErrorInv, TypeOK, Interrupt, Journaled, Subs, journal, flags, Same
    <2> QED
      BY <2>1, <2>2, <2>3, <2>4, <2>5, <2>6, <2>7, <2>8, <2>9 DEF Inv
  <1>9. CASE Kill
    <2>1. TypeOK'
      BY <1>9, ParallelAssumption DEF Inv, TypeOK, PlaceInv, Kill, Subs, journal, flags,
         Same
    <2>2. PlaceInv'
      BY <1>9, ParallelAssumption DEF Inv, PlaceInv, TypeOK, Kill, Subs, journal, flags,
         Same
    <2>3. FinishInv'
      BY <1>9, ParallelAssumption DEF Inv, FinishInv, PlaceInv, TypeOK, Kill, Subs, journal,
         flags, Same
    <2>4. JournalInv'
      BY <1>9, ParallelAssumption DEF Inv, JournalInv, Kill, Journaled, Subs, journal,
         flags, Same
    <2>5. WorkInv'
      BY <1>9, ParallelAssumption DEF Inv, WorkInv, AtWork, PlaceInv, JournalInv, TypeOK,
         Kill, Journaled, Subs, journal, flags, Same
    <2>6. ErrorInv'
      BY <1>9, ParallelAssumption DEF Inv, ErrorInv, TypeOK, PlaceInv, Kill, Journaled,
         Subs, journal, flags, Same
    <2>7. RecordInv'
      BY <1>9, ParallelAssumption DEF Inv, RecordInv, FailureRecorded, Settled, TypeOK,
         PlaceInv, WorkInv, Kill, Journaled, Subs, journal, flags, Same
    <2>8. DeployedInv'
      BY <1>9, ParallelAssumption DEF Inv, DeployedInv, Settled, WorkInv, AtWork, TypeOK,
         JournalInv, FinishInv, RecordInv, FailureRecorded, Kill, Journaled, Subs, journal,
         flags, Same
    <2>9. OkMeansComplete'
      BY <1>9, ParallelAssumption DEF Inv, OkMeansComplete, Complete, PlaceInv, FinishInv,
         ErrorInv, TypeOK, Kill, Journaled, Subs, journal, flags, Same
    <2> QED
      BY <2>1, <2>2, <2>3, <2>4, <2>5, <2>6, <2>7, <2>8, <2>9 DEF Inv
  <1>10. CASE UNCHANGED vars
    <2>1. TypeOK'
      BY <1>10, ParallelAssumption DEF Inv, TypeOK, PlaceInv, vars, Subs, control, journal,
         flags
    <2>2. PlaceInv'
      BY <1>10, ParallelAssumption DEF Inv, PlaceInv, TypeOK, vars, Subs, control, journal,
         flags
    <2>3. FinishInv'
      BY <1>10, ParallelAssumption DEF Inv, FinishInv, PlaceInv, TypeOK, vars, Subs,
         control, journal, flags
    <2>4. JournalInv'
      BY <1>10, ParallelAssumption DEF Inv, JournalInv, vars, Journaled, Subs, control,
         journal, flags
    <2>5. WorkInv'
      BY <1>10, ParallelAssumption DEF Inv, WorkInv, AtWork, PlaceInv, JournalInv, TypeOK,
         vars, Journaled, Subs, control, journal, flags
    <2>6. ErrorInv'
      BY <1>10, ParallelAssumption DEF Inv, ErrorInv, TypeOK, PlaceInv, vars, Journaled,
         Subs, control, journal, flags
    <2>7. RecordInv'
      BY <1>10, ParallelAssumption DEF Inv, RecordInv, FailureRecorded, Settled, TypeOK,
         PlaceInv, WorkInv, vars, Journaled, Subs, control, journal, flags
    <2>8. DeployedInv'
      BY <1>10, ParallelAssumption DEF Inv, DeployedInv, Settled, WorkInv, AtWork, TypeOK,
         JournalInv, FinishInv, RecordInv, FailureRecorded, vars, Journaled, Subs, control,
         journal, flags
    <2>9. OkMeansComplete'
      BY <1>10, ParallelAssumption DEF Inv, OkMeansComplete, Complete, PlaceInv, FinishInv,
         ErrorInv, TypeOK, vars, Journaled, Subs, control, journal, flags
    <2> QED
      BY <2>1, <2>2, <2>3, <2>4, <2>5, <2>6, <2>7, <2>8, <2>9 DEF Inv
  <1>11. ASSUME NEW i \in Subs, Cancelled(i)
        PROVE  Inv'
    <2>1. TypeOK'
      BY <1>11, ParallelAssumption DEF Inv, TypeOK, PlaceInv, Cancelled, SubStep, Journaled,
         Subs, journal, flags, Same
    <2>2. PlaceInv'
      BY <1>11, ParallelAssumption DEF Inv, PlaceInv, TypeOK, Cancelled, SubStep, Journaled,
         Subs, journal, flags, Same
    <2>3. FinishInv'
      BY <1>11, ParallelAssumption DEF Inv, FinishInv, PlaceInv, TypeOK, Cancelled, SubStep,
         Journaled, Subs, journal, flags, Same
    <2>4. JournalInv'
      BY <1>11, ParallelAssumption DEF Inv, JournalInv, Cancelled, SubStep, Journaled, Subs,
         journal, flags, Same
    <2>5. WorkInv'
      BY <1>11, ParallelAssumption DEF Inv, WorkInv, AtWork, PlaceInv, JournalInv, TypeOK,
         Cancelled, SubStep, Journaled, Subs, journal, flags, Same
    <2>6. ErrorInv'
      BY <1>11, ParallelAssumption DEF Inv, ErrorInv, TypeOK, PlaceInv, Cancelled, SubStep,
         Journaled, Subs, journal, flags, Same
    <2>7. RecordInv'
      BY <1>11, ParallelAssumption DEF Inv, RecordInv, FailureRecorded, Settled, TypeOK,
         PlaceInv, WorkInv, Cancelled, SubStep, Journaled, Subs, journal, flags, Same
    <2>8. DeployedInv'
      BY <1>11, ParallelAssumption DEF Inv, DeployedInv, Settled, WorkInv, AtWork, TypeOK,
         JournalInv, FinishInv, RecordInv, FailureRecorded, Cancelled, SubStep, Journaled,
         Subs, journal, flags, Same
    <2>9. OkMeansComplete'
      BY <1>11, ParallelAssumption DEF Inv, OkMeansComplete, Complete, PlaceInv, FinishInv,
         ErrorInv, TypeOK, Cancelled, SubStep, Journaled, Subs, journal, flags, Same
    <2> QED
      BY <2>1, <2>2, <2>3, <2>4, <2>5, <2>6, <2>7, <2>8, <2>9 DEF Inv
  <1>12. ASSUME NEW i \in Subs, Check(i)
        PROVE  Inv'
    <2>1. TypeOK'
      BY <1>12, ParallelAssumption DEF Inv, TypeOK, PlaceInv, Check, SubStep, Subs, journal,
         flags, Same
    <2>2. PlaceInv'
      BY <1>12, ParallelAssumption DEF Inv, PlaceInv, TypeOK, Check, SubStep, Subs, journal,
         flags, Same
    <2>3. FinishInv'
      BY <1>12, ParallelAssumption DEF Inv, FinishInv, PlaceInv, TypeOK, Check, SubStep,
         Subs, journal, flags, Same
    <2>4. JournalInv'
      BY <1>12, ParallelAssumption DEF Inv, JournalInv, Check, SubStep, Journaled, Subs,
         journal, flags, Same
    <2>5. WorkInv'
      BY <1>12, ParallelAssumption DEF Inv, WorkInv, AtWork, PlaceInv, JournalInv, TypeOK,
         Check, SubStep, Journaled, Subs, journal, flags, Same
    <2>6. ErrorInv'
      BY <1>12, ParallelAssumption DEF Inv, ErrorInv, TypeOK, PlaceInv, Check, SubStep,
         Journaled, Subs, journal, flags, Same
    <2>7. RecordInv'
      BY <1>12, ParallelAssumption DEF Inv, RecordInv, FailureRecorded, Settled, TypeOK,
         PlaceInv, WorkInv, Check, SubStep, Journaled, Subs, journal, flags, Same
    <2>8. DeployedInv'
      BY <1>12, ParallelAssumption DEF Inv, DeployedInv, Settled, WorkInv, AtWork, TypeOK,
         JournalInv, FinishInv, RecordInv, FailureRecorded, Check, SubStep, Journaled, Subs,
         journal, flags, Same
    <2>9. OkMeansComplete'
      BY <1>12, ParallelAssumption DEF Inv, OkMeansComplete, Complete, PlaceInv, FinishInv,
         ErrorInv, TypeOK, Check, SubStep, Journaled, Subs, journal, flags, Same
    <2> QED
      BY <2>1, <2>2, <2>3, <2>4, <2>5, <2>6, <2>7, <2>8, <2>9 DEF Inv
  <1>13. ASSUME NEW i \in Subs, Unevaluated(i)
        PROVE  Inv'
    <2>1. TypeOK'
      BY <1>13, ParallelAssumption DEF Inv, TypeOK, PlaceInv, Unevaluated, SubStep, Err,
         Subs, journal, Same
    <2>2. PlaceInv'
      BY <1>13, ParallelAssumption DEF Inv, PlaceInv, TypeOK, Unevaluated, SubStep, Err,
         Subs, journal, Same
    <2>3. FinishInv'
      BY <1>13, ParallelAssumption DEF Inv, FinishInv, PlaceInv, TypeOK, Unevaluated,
         SubStep, Err, Subs, journal, Same
    <2>4. JournalInv'
      BY <1>13, ParallelAssumption DEF Inv, JournalInv, Unevaluated, SubStep, Err,
         Journaled, Subs, journal, Same
    <2>5. WorkInv'
      BY <1>13, ParallelAssumption DEF Inv, WorkInv, AtWork, PlaceInv, JournalInv, TypeOK,
         Unevaluated, SubStep, Err, Journaled, Subs, journal, Same
    <2>6. ErrorInv'
      BY <1>13, ParallelAssumption DEF Inv, ErrorInv, TypeOK, PlaceInv, Unevaluated,
         SubStep, Err, Journaled, Subs, journal, Same
    <2>7. RecordInv'
      BY <1>13, ParallelAssumption DEF Inv, RecordInv, FailureRecorded, Settled, TypeOK,
         PlaceInv, WorkInv, Unevaluated, SubStep, Err, Journaled, Subs, journal, Same
    <2>8. DeployedInv'
      BY <1>13, ParallelAssumption DEF Inv, DeployedInv, Settled, WorkInv, AtWork, TypeOK,
         JournalInv, FinishInv, RecordInv, FailureRecorded, Unevaluated, SubStep, Err,
         Journaled, Subs, journal, Same
    <2>9. OkMeansComplete'
      BY <1>13, ParallelAssumption DEF Inv, OkMeansComplete, Complete, PlaceInv, FinishInv,
         ErrorInv, TypeOK, Unevaluated, SubStep, Err, Journaled, Subs, journal, Same
    <2> QED
      BY <2>1, <2>2, <2>3, <2>4, <2>5, <2>6, <2>7, <2>8, <2>9 DEF Inv
  <1>14. ASSUME NEW i \in Subs, Skip(i)
        PROVE  Inv'
    <2>1. TypeOK'
      BY <1>14, ParallelAssumption DEF Inv, TypeOK, PlaceInv, Skip, SubStep, Succeed,
         Journaled, Subs, flags, Same
    <2>2. PlaceInv'
      BY <1>14, ParallelAssumption DEF Inv, PlaceInv, TypeOK, Skip, SubStep, Succeed,
         Journaled, Subs, flags, Same
    <2>3. FinishInv'
      BY <1>14, ParallelAssumption DEF Inv, FinishInv, PlaceInv, TypeOK, Skip, SubStep,
         Succeed, Journaled, Subs, flags, Same
    <2>4. JournalInv'
      BY <1>14, ParallelAssumption DEF Inv, JournalInv, Skip, SubStep, Succeed, Journaled,
         Subs, flags, Same
    <2>5. WorkInv'
      BY <1>14, ParallelAssumption DEF Inv, WorkInv, AtWork, PlaceInv, JournalInv, TypeOK,
         Skip, SubStep, Succeed, Journaled, Subs, flags, Same
    <2>6. ErrorInv'
      BY <1>14, ParallelAssumption DEF Inv, ErrorInv, TypeOK, PlaceInv, Skip, SubStep,
         Succeed, Journaled, Subs, flags, Same
    <2>7. RecordInv'
      BY <1>14, ParallelAssumption DEF Inv, RecordInv, FailureRecorded, Settled, TypeOK,
         PlaceInv, WorkInv, Skip, SubStep, Succeed, Journaled, Subs, flags, Same
    <2>8. DeployedInv'
      BY <1>14, ParallelAssumption DEF Inv, DeployedInv, Settled, WorkInv, AtWork, TypeOK,
         JournalInv, FinishInv, RecordInv, FailureRecorded, Skip, SubStep, Succeed,
         Journaled, Subs, flags, Same
    <2>9. OkMeansComplete'
      BY <1>14, ParallelAssumption DEF Inv, OkMeansComplete, Complete, PlaceInv, FinishInv,
         ErrorInv, TypeOK, Skip, SubStep, Succeed, Journaled, Subs, flags, Same
    <2> QED
      BY <2>1, <2>2, <2>3, <2>4, <2>5, <2>6, <2>7, <2>8, <2>9 DEF Inv
  <1>15. ASSUME NEW i \in Subs, GateFails(i)
        PROVE  Inv'
    <2>1. TypeOK'
      BY <1>15, ParallelAssumption DEF Inv, TypeOK, PlaceInv, GateFails, SubStep, Err,
         Journaled, Subs, Same
    <2>2. PlaceInv'
      BY <1>15, ParallelAssumption DEF Inv, PlaceInv, TypeOK, GateFails, SubStep, Err,
         Journaled, Subs, Same
    <2>3. FinishInv'
      BY <1>15, ParallelAssumption DEF Inv, FinishInv, PlaceInv, TypeOK, GateFails, SubStep,
         Err, Journaled, Subs, Same
    <2>4. JournalInv'
      BY <1>15, ParallelAssumption DEF Inv, JournalInv, GateFails, SubStep, Err, Journaled,
         Subs, Same
    <2>5. WorkInv'
      BY <1>15, ParallelAssumption DEF Inv, WorkInv, AtWork, PlaceInv, JournalInv, TypeOK,
         GateFails, SubStep, Err, Journaled, Subs, Same
    <2>6. ErrorInv'
      BY <1>15, ParallelAssumption DEF Inv, ErrorInv, TypeOK, PlaceInv, GateFails, SubStep,
         Err, Journaled, Subs, Same
    <2>7. RecordInv'
      BY <1>15, ParallelAssumption DEF Inv, RecordInv, FailureRecorded, Settled, TypeOK,
         PlaceInv, WorkInv, GateFails, SubStep, Err, Journaled, Subs, Same
    <2>8. DeployedInv'
      BY <1>15, ParallelAssumption DEF Inv, DeployedInv, Settled, WorkInv, AtWork, TypeOK,
         JournalInv, FinishInv, RecordInv, FailureRecorded, GateFails, SubStep, Err,
         Journaled, Subs, Same
    <2>9. OkMeansComplete'
      BY <1>15, ParallelAssumption DEF Inv, OkMeansComplete, Complete, PlaceInv, FinishInv,
         ErrorInv, TypeOK, GateFails, SubStep, Err, Journaled, Subs, Same
    <2> QED
      BY <2>1, <2>2, <2>3, <2>4, <2>5, <2>6, <2>7, <2>8, <2>9 DEF Inv
  <1>16. ASSUME NEW i \in Subs, SkipState(i)
        PROVE  Inv'
    <2>1. TypeOK'
      BY <1>16, ParallelAssumption DEF Inv, TypeOK, PlaceInv, SkipState, SubStep, Succeed,
         Journaled, Subs, journal, flags, Same
    <2>2. PlaceInv'
      BY <1>16, ParallelAssumption DEF Inv, PlaceInv, TypeOK, SkipState, SubStep, Succeed,
         Journaled, Subs, journal, flags, Same
    <2>3. FinishInv'
      BY <1>16, ParallelAssumption DEF Inv, FinishInv, PlaceInv, TypeOK, SkipState, SubStep,
         Succeed, Journaled, Subs, journal, flags, Same
    <2>4. JournalInv'
      BY <1>16, ParallelAssumption DEF Inv, JournalInv, SkipState, SubStep, Succeed,
         Journaled, Subs, journal, flags, Same
    <2>5. WorkInv'
      BY <1>16, ParallelAssumption DEF Inv, WorkInv, AtWork, PlaceInv, JournalInv, TypeOK,
         SkipState, SubStep, Succeed, Journaled, Subs, journal, flags, Same
    <2>6. ErrorInv'
      BY <1>16, ParallelAssumption DEF Inv, ErrorInv, TypeOK, PlaceInv, SkipState, SubStep,
         Succeed, Journaled, Subs, journal, flags, Same
    <2>7. RecordInv'
      BY <1>16, ParallelAssumption DEF Inv, RecordInv, FailureRecorded, Settled, TypeOK,
         PlaceInv, WorkInv, SkipState, SubStep, Succeed, Journaled, Subs, journal, flags,
         Same
    <2>8. DeployedInv'
      BY <1>16, ParallelAssumption DEF Inv, DeployedInv, Settled, WorkInv, AtWork, TypeOK,
         JournalInv, FinishInv, RecordInv, FailureRecorded, SkipState, SubStep, Succeed,
         Journaled, Subs, journal, flags, Same
    <2>9. OkMeansComplete'
      BY <1>16, ParallelAssumption DEF Inv, OkMeansComplete, Complete, PlaceInv, FinishInv,
         ErrorInv, TypeOK, SkipState, SubStep, Succeed, Journaled, Subs, journal, flags,
         Same
    <2> QED
      BY <2>1, <2>2, <2>3, <2>4, <2>5, <2>6, <2>7, <2>8, <2>9 DEF Inv
  <1>17. ASSUME NEW i \in Subs, Start(i)
        PROVE  Inv'
    <2>1. TypeOK'
      BY <1>17, ParallelAssumption DEF Inv, TypeOK, PlaceInv, Start, SubStep, Journaled,
         Subs, flags, Same
    <2>2. PlaceInv'
      BY <1>17, ParallelAssumption DEF Inv, PlaceInv, TypeOK, Start, SubStep, Journaled,
         Subs, flags, Same
    <2>3. FinishInv'
      BY <1>17, ParallelAssumption DEF Inv, FinishInv, PlaceInv, TypeOK, Start, SubStep,
         Journaled, Subs, flags, Same
    <2>4. JournalInv'
      BY <1>17, ParallelAssumption DEF Inv, JournalInv, Start, SubStep, Journaled, Subs,
         flags, Same
    <2>5. WorkInv'
      BY <1>17, ParallelAssumption DEF Inv, WorkInv, AtWork, PlaceInv, JournalInv, TypeOK,
         Start, SubStep, Journaled, Subs, flags, Same
    <2>6. ErrorInv'
      BY <1>17, ParallelAssumption DEF Inv, ErrorInv, TypeOK, PlaceInv, Start, SubStep,
         Journaled, Subs, flags, Same
    <2>7. RecordInv'
      BY <1>17, ParallelAssumption DEF Inv, RecordInv, FailureRecorded, Settled, TypeOK,
         PlaceInv, WorkInv, Start, SubStep, Journaled, Subs, flags, Same
    <2>8. DeployedInv'
      BY <1>17, ParallelAssumption DEF Inv, DeployedInv, Settled, WorkInv, AtWork, TypeOK,
         JournalInv, FinishInv, RecordInv, FailureRecorded, Start, SubStep, Journaled, Subs,
         flags, Same
    <2>9. OkMeansComplete'
      BY <1>17, ParallelAssumption DEF Inv, OkMeansComplete, Complete, PlaceInv, FinishInv,
         ErrorInv, TypeOK, Start, SubStep, Journaled, Subs, flags, Same
    <2> QED
      BY <2>1, <2>2, <2>3, <2>4, <2>5, <2>6, <2>7, <2>8, <2>9 DEF Inv
  <1>18. ASSUME NEW i \in Subs, NEW how \in {"worked", "failed"},
               NEW effect \in {"partial", "done"}, BodyEnds(i, how, effect),
               how = "worked" => effect = "done"
        PROVE  Inv'
    <2>1. TypeOK'
      BY <1>18, ParallelAssumption DEF Inv, TypeOK, PlaceInv, BodyEnds, SubStep, Subs,
         journal, flags, Same
    <2>2. PlaceInv'
      BY <1>18, ParallelAssumption DEF Inv, PlaceInv, TypeOK, BodyEnds, SubStep, Subs,
         journal, flags, Same
    <2>3. FinishInv'
      BY <1>18, ParallelAssumption DEF Inv, FinishInv, PlaceInv, TypeOK, BodyEnds, SubStep,
         Subs, journal, flags, Same
    <2>4. JournalInv'
      BY <1>18, ParallelAssumption DEF Inv, JournalInv, BodyEnds, SubStep, Journaled, Subs,
         journal, flags, Same
    <2>5. WorkInv'
      BY <1>18, ParallelAssumption DEF Inv, WorkInv, AtWork, PlaceInv, JournalInv, TypeOK,
         BodyEnds, SubStep, Journaled, Subs, journal, flags, Same
    <2>6. ErrorInv'
      BY <1>18, ParallelAssumption DEF Inv, ErrorInv, TypeOK, PlaceInv, BodyEnds, SubStep,
         Journaled, Subs, journal, flags, Same
    <2>7. RecordInv'
      BY <1>18, ParallelAssumption DEF Inv, RecordInv, FailureRecorded, Settled, TypeOK,
         PlaceInv, WorkInv, BodyEnds, SubStep, Journaled, Subs, journal, flags, Same
    <2>8. DeployedInv'
      BY <1>18, ParallelAssumption DEF Inv, DeployedInv, Settled, WorkInv, AtWork, TypeOK,
         JournalInv, FinishInv, RecordInv, FailureRecorded, BodyEnds, SubStep, Journaled,
         Subs, journal, flags, Same
    <2>9. OkMeansComplete'
      BY <1>18, ParallelAssumption DEF Inv, OkMeansComplete, Complete, PlaceInv, FinishInv,
         ErrorInv, TypeOK, BodyEnds, SubStep, Journaled, Subs, journal, flags, Same
    <2> QED
      BY <2>1, <2>2, <2>3, <2>4, <2>5, <2>6, <2>7, <2>8, <2>9 DEF Inv
  <1>19. ASSUME NEW i \in Subs, Finish(i)
        PROVE  Inv'
    <2>1. TypeOK'
      BY <1>19, ParallelAssumption DEF Inv, TypeOK, PlaceInv, Finish, SubStep, Succeed,
         Recorded, Journaled, Subs, flags, Same
    <2>2. PlaceInv'
      BY <1>19, ParallelAssumption DEF Inv, PlaceInv, TypeOK, Finish, SubStep, Succeed,
         Recorded, Journaled, Subs, flags, Same
    <2>3. FinishInv'
      BY <1>19, ParallelAssumption DEF Inv, FinishInv, PlaceInv, TypeOK, Finish, SubStep,
         Succeed, Recorded, Journaled, Subs, flags, Same
    <2>4. JournalInv'
      BY <1>19, ParallelAssumption DEF Inv, JournalInv, Finish, SubStep, Succeed, Recorded,
         Journaled, Subs, flags, Same
    <2>5. WorkInv'
      BY <1>19, ParallelAssumption DEF Inv, WorkInv, AtWork, PlaceInv, JournalInv, TypeOK,
         Finish, SubStep, Succeed, Recorded, Journaled, Subs, flags, Same
    <2>6. ErrorInv'
      BY <1>19, ParallelAssumption DEF Inv, ErrorInv, TypeOK, PlaceInv, Finish, SubStep,
         Succeed, Recorded, Journaled, Subs, flags, Same
    <2>7. RecordInv'
      BY <1>19, ParallelAssumption DEF Inv, RecordInv, FailureRecorded, Settled, TypeOK,
         PlaceInv, WorkInv, Finish, SubStep, Succeed, Recorded, Journaled, Subs, flags, Same
    <2>8. DeployedInv'
      BY <1>19, ParallelAssumption DEF Inv, DeployedInv, Settled, WorkInv, AtWork, TypeOK,
         JournalInv, FinishInv, RecordInv, FailureRecorded, Finish, SubStep, Succeed,
         Recorded, Journaled, Subs, flags, Same
    <2>9. OkMeansComplete'
      BY <1>19, ParallelAssumption DEF Inv, OkMeansComplete, Complete, PlaceInv, FinishInv,
         ErrorInv, TypeOK, Finish, SubStep, Succeed, Recorded, Journaled, Subs, flags, Same
    <2> QED
      BY <2>1, <2>2, <2>3, <2>4, <2>5, <2>6, <2>7, <2>8, <2>9 DEF Inv
  <1>20. ASSUME NEW i \in Subs, Fail(i)
        PROVE  Inv'
    <2>1. TypeOK'
      BY <1>20, ParallelAssumption DEF Inv, TypeOK, PlaceInv, Fail, SubStep, Succeed, Err,
         Recorded, Journaled, Subs, flags, Same
    <2>2. PlaceInv'
      BY <1>20, ParallelAssumption DEF Inv, PlaceInv, TypeOK, Fail, SubStep, Succeed, Err,
         Recorded, Journaled, Subs, flags, Same
    <2>3. FinishInv'
      BY <1>20, ParallelAssumption DEF Inv, FinishInv, PlaceInv, TypeOK, Fail, SubStep,
         Succeed, Err, Recorded, Journaled, Subs, flags, Same
    <2>4. JournalInv'
      BY <1>20, ParallelAssumption DEF Inv, JournalInv, Fail, SubStep, Succeed, Err,
         Recorded, Journaled, Subs, flags, Same
    <2>5. WorkInv'
      BY <1>20, ParallelAssumption DEF Inv, WorkInv, AtWork, PlaceInv, JournalInv, TypeOK,
         Fail, SubStep, Succeed, Err, Recorded, Journaled, Subs, flags, Same
    <2>6. ErrorInv'
      BY <1>20, ParallelAssumption DEF Inv, ErrorInv, TypeOK, PlaceInv, Fail, SubStep,
         Succeed, Err, Recorded, Journaled, Subs, flags, Same
    <2>7. RecordInv'
      BY <1>20, ParallelAssumption DEF Inv, RecordInv, FailureRecorded, Settled, TypeOK,
         PlaceInv, WorkInv, Fail, SubStep, Succeed, Err, Recorded, Journaled, Subs, flags,
         Same
    <2>8. DeployedInv'
      BY <1>20, ParallelAssumption DEF Inv, DeployedInv, Settled, WorkInv, AtWork, TypeOK,
         JournalInv, FinishInv, RecordInv, FailureRecorded, Fail, SubStep, Succeed, Err,
         Recorded, Journaled, Subs, flags, Same
    <2>9. OkMeansComplete'
      BY <1>20, ParallelAssumption DEF Inv, OkMeansComplete, Complete, PlaceInv, FinishInv,
         ErrorInv, TypeOK, Fail, SubStep, Succeed, Err, Recorded, Journaled, Subs, flags,
         Same
    <2> QED
      BY <2>1, <2>2, <2>3, <2>4, <2>5, <2>6, <2>7, <2>8, <2>9 DEF Inv
  <1>21. ASSUME NEW i \in Subs, BodyWorks(i) \/ BodyFails(i) \/ BodyStopped(i)
         PROVE  Inv'
    BY <1>18, <1>21 DEF BodyWorks, BodyFails, BodyStopped
  <1> QED
    BY <1>1, <1>2, <1>3, <1>4, <1>5, <1>6, <1>7, <1>8, <1>9, <1>10, <1>11, <1>12, <1>13,
       <1>14, <1>15, <1>16, <1>17, <1>18, <1>19, <1>20, <1>21 DEF Next, Group, Sub

LEMMA InitInv == Init => Inv
  <1> SUFFICES ASSUME Init PROVE Inv
    OBVIOUS
  <1> USE ParallelAssumption DEF Init, Subs
  <1>1. TypeOK
    <2>1. {cancelled, interrupted, egErr, errs, seen, unrecorded, excused} \subseteq BOOLEAN
      BY Zenon
    <2> QED
      BY <2>1 DEF TypeOK
  <1>2. PlaceInv /\ FinishInv /\ JournalInv /\ WorkInv /\ ErrorInv
    BY DEF PlaceInv, FinishInv, JournalInv, WorkInv, AtWork, ErrorInv
  <1>3. RecordInv /\ DeployedInv /\ OkMeansComplete
    BY DEF RecordInv, DeployedInv, OkMeansComplete
  <1> QED
    BY <1>1, <1>2, <1>3 DEF Inv

\* What the two properties rest on holds in every state of every behaviour.
THEOREM Invariance == Spec => []Inv
  <1> QED
    BY InitInv, InvStep, PTL DEF Spec

\* Whatever the order in which the sub-steps of a group end, fail, are cut or
\* are killed with the process, what the journal lets the next run skip is done,
\* and a service it calls ok has every sub-step done or skipped.
THEOREM JournalIsTrue == Spec => []JournalTruth
  <1>1. Inv => JournalTruth
    BY DEF Inv, WorkInv, DeployedInv, Settled, JournalTruth
  <1> QED
    BY <1>1, Invariance, PTL

\* A group that returns no error has passed over no sub-step, with either way of
\* collecting the errors.
THEOREM OkIsComplete == Spec => []OkMeansComplete
  <1>1. Inv => OkMeansComplete
    BY DEF Inv
  <1> QED
    BY <1>1, Invariance, PTL
==============================================================================
