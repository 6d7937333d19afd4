------------------------- MODULE ProjectLocksProofs -------------------------
(***************************************************************************)
(* Proofs about the project locks, for any number of processes: the state  *)
(* of the kernel's flocks follows from where the live processes are in the *)
(* lock code, whatever the PID files hold, and so the section between      *)
(* AcquireProjectLocks and its release function is exclusive.              *)
(***************************************************************************)
EXTENDS ProjectLocks, TLAPS

\* Where a live process holds the deploy lock, and where the snapshot lock.
HoldsDeploy(p) ==
    \/ pc[p] \in {"inside", "unlock"}
    \/ pc[p] \in Acquiring /\ target[p] = "snapshot"
    \/ pc[p] \in {"truncate", "write"}

HoldsSnapshot(p) ==
    \/ pc[p] = "inside" /\ op[p] = "project"
    \/ pc[p] \in {"truncate", "write"} /\ target[p] = "snapshot"

Holds(p, f) == IF f = "deploy" THEN HoldsDeploy(p) ELSE HoldsSnapshot(p)

\* A live process holds exactly the locks its place in the code says; a
\* command that wants the deploy lock only never reaches the other one.
HolderInv ==
    /\ \A p \in Procs, f \in Locks :
          /\ Holds(p, f) => holder[f] = p
          /\ holder[f] = p => Holds(p, f) \/ pc[p] = "dying"
    /\ \A p \in Procs :
          pc[p] \in Acquiring /\ op[p] = "state" => target[p] = "deploy"

Inv == TypeOK /\ HolderInv

-----------------------------------------------------------------------------
(* Every step keeps the variables of the lock code in their types.          *)
LEMMA TypingStep == TypeOK /\ [Next]_vars => TypeOK'
  <1> SUFFICES ASSUME TypeOK, [Next]_vars PROVE TypeOK'
    OBVIOUS
  <1> USE DEF TypeOK, Goto, GiveUp, ForgetAttempt, Pcs, Acquiring, Locks, Ops
  <1>1. CASE UNCHANGED vars
    BY <1>1 DEF vars
  <1>2. ASSUME NEW p \in Procs, Begin(p) PROVE TypeOK'
    BY <1>2 DEF Begin
  <1>3. ASSUME NEW p \in Procs, AcquireStep(p) PROVE TypeOK'
    <2>1. CASE Flock(p)
      BY <2>1 DEF Flock
    <2>2. CASE ReadPid(p)
      BY <2>2 DEF ReadPid
    <2>3. CASE ProbePid(p)
      BY <2>3 DEF ProbePid
    <2>4. CASE CleanStale(p)
      BY <2>4 DEF CleanStale
    <2>5. CASE Report(p)
      BY <2>5 DEF Report
    <2>6. CASE TruncatePid(p)
      BY <2>6 DEF TruncatePid
    <2>7. CASE WritePid(p)
      BY <2>7 DEF WritePid
    <2> QED
      BY <1>3, <2>1, <2>2, <2>3, <2>4, <2>5, <2>6, <2>7 DEF AcquireStep
  <1>4. ASSUME NEW p \in Procs, AcquireError(p) PROVE TypeOK'
    BY <1>4 DEF AcquireError
  <1>5. ASSUME NEW p \in Procs, ReleaseSnapshot(p) PROVE TypeOK'
    BY <1>5 DEF ReleaseSnapshot
  <1>6. ASSUME NEW p \in Procs, ReleaseDeploy(p) PROVE TypeOK'
    BY <1>6 DEF ReleaseDeploy
  <1>7. ASSUME NEW p \in Procs, Crash(p) PROVE TypeOK'
    BY <1>7 DEF Crash
  <1>8. ASSUME NEW p \in Procs, NEW f \in Locks, KernelClose(p, f)
        PROVE TypeOK'
    BY <1>8 DEF KernelClose
  <1>9. ASSUME NEW p \in Procs, Reap(p) \/ Exit(p) \/ Spawn(p) PROVE TypeOK'
    BY <1>9 DEF Reap, Exit, Spawn
  <1> QED
    BY <1>1, <1>2, <1>3, <1>4, <1>5, <1>6, <1>7, <1>8, <1>9
    DEF Next, ProcStep

(* Every step keeps the flocks where the processes' places say they are.    *)
LEMMA HolderStep == Inv /\ [Next]_vars => HolderInv'
  <1> SUFFICES ASSUME Inv, [Next]_vars PROVE HolderInv'
    OBVIOUS
  <1> USE ProcsAssumption
      DEF Inv, TypeOK, HolderInv, Holds, HoldsDeploy, HoldsSnapshot, Goto,
          Acquiring, Locks, Ops
  <1>1. CASE UNCHANGED vars
    BY <1>1 DEF vars
  <1>2. ASSUME NEW p \in Procs, Begin(p) PROVE HolderInv'
    BY <1>2 DEF Begin
  <1>3. ASSUME NEW p \in Procs, AcquireStep(p) PROVE HolderInv'
    <2>1. CASE Flock(p)
      BY <2>1 DEF Flock, ForgetAttempt
    <2>2. CASE ReadPid(p)
      BY <2>2 DEF ReadPid
    <2>3. CASE ProbePid(p)
      BY <2>3 DEF ProbePid
    <2>4. CASE CleanStale(p)
      BY <2>4 DEF CleanStale
    <2>5. CASE Report(p)
      BY <2>5 DEF Report, GiveUp, ForgetAttempt
    <2>6. CASE TruncatePid(p)
      BY <2>6 DEF TruncatePid
    <2>7. CASE WritePid(p)
      BY <2>7 DEF WritePid
    <2> QED
      BY <1>3, <2>1, <2>2, <2>3, <2>4, <2>5, <2>6, <2>7 DEF AcquireStep
  <1>4. ASSUME NEW p \in Procs, AcquireError(p) PROVE HolderInv'
    BY <1>4 DEF AcquireError, GiveUp
  <1>5. ASSUME NEW p \in Procs, ReleaseSnapshot(p) PROVE HolderInv'
    BY <1>5 DEF ReleaseSnapshot
  <1>6. ASSUME NEW p \in Procs, ReleaseDeploy(p) PROVE HolderInv'
    BY <1>6 DEF ReleaseDeploy
  <1>7. ASSUME NEW p \in Procs, Crash(p) PROVE HolderInv'
    BY <1>7 DEF Crash, ForgetAttempt
  <1>8. ASSUME NEW p \in Procs, NEW f \in Locks, KernelClose(p, f)
        PROVE HolderInv'
    BY <1>8 DEF KernelClose
  <1>9. ASSUME NEW p \in Procs, Reap(p) \/ Exit(p) \/ Spawn(p)
        PROVE HolderInv'
    BY <1>9 DEF Reap, Exit, Spawn
  <1> QED
    BY <1>1, <1>2, <1>3, <1>4, <1>5, <1>6, <1>7, <1>8, <1>9
    DEF Next, ProcStep

(* The inductive invariant of the lock code.                                *)
THEOREM Invariance == Spec => []Inv
  <1>1. Init => Inv
    BY ProcsAssumption
    DEF Init, Inv, TypeOK, HolderInv, Holds, HoldsDeploy, HoldsSnapshot,
        Pcs, Acquiring, Locks, Ops
  <1>2. Inv /\ [Next]_vars => Inv'
    BY TypingStep, HolderStep DEF Inv
  <1> QED
    BY <1>1, <1>2, PTL DEF Spec

-----------------------------------------------------------------------------
(* The lock code's variables keep their types.                              *)
THEOREM TypeCorrect == Spec => []TypeOK
  <1>1. Inv => TypeOK
    BY DEF Inv
  <1> QED
    BY <1>1, Invariance, PTL

LEMMA InvExcludes == Inv => MutualExclusion
  BY ProcsAssumption
  DEF Inv, MutualExclusion, Inside, HolderInv, Holds, HoldsDeploy, Locks

(* AcquireProjectLocks and lock.Acquire on the deploy lock let one process  *)
(* in at a time, however many compete, crash or clean up PID files.         *)
THEOREM Exclusion == Spec => []MutualExclusion
  BY Invariance, InvExcludes, PTL

(* Whoever is out of the lock code holds nothing: the release functions,    *)
(* the partial-acquire path and every error return give the locks back.     *)
THEOREM NothingLeaks == Spec => []NoLeak
  <1>1. Inv => NoLeak
    BY DEF Inv, NoLeak, HolderInv, Holds, HoldsDeploy, HoldsSnapshot,
           Acquiring, Locks
  <1> QED
    BY <1>1, Invariance, PTL

(* The order of the two locks: the snapshot lock is never held alone.       *)
THEOREM DeployFirst == Spec => []SnapshotImpliesDeploy
  <1>1. Inv => SnapshotImpliesDeploy
    BY DEF Inv, SnapshotImpliesDeploy, HolderInv, Holds, HoldsDeploy,
           HoldsSnapshot, Acquiring, Locks
  <1> QED
    BY <1>1, Invariance, PTL

-----------------------------------------------------------------------------
\* The process inside, when there is one, is the owner of the section.
LEMMA OwnerInside ==
    ASSUME MutualExclusion, NEW p \in Procs, Inside(p)
    PROVE  Owner = p
  BY DEF Owner, MutualExclusion

LEMMA OwnerNobody ==
    ASSUME \A p \in Procs : ~Inside(p)
    PROVE  Owner = NoProc
  BY DEF Owner

\* A step moves at most one process in or out of the section.
LEMMA OneMoves ==
    ASSUME TypeOK, [Next]_vars
    PROVE  \/ \A q \in Procs : Inside(q)' = Inside(q)
           \/ \E p \in Procs : \A q \in Procs \ {p} : Inside(q)' = Inside(q)
  <1> USE DEF TypeOK, Inside, Goto
  <1>1. CASE UNCHANGED vars
    BY <1>1 DEF vars
  <1>2. CASE Next
    <2>1. PICK p \in Procs : ProcStep(p)
      BY <1>2 DEF Next
    <2>2. \A q \in Procs \ {p} : pc'[q] = pc[q]
      BY <2>1 DEF ProcStep, AcquireStep, Begin, Flock, ReadPid, ProbePid,
         CleanStale, Report, GiveUp, TruncatePid, WritePid, AcquireError,
         ReleaseSnapshot, ReleaseDeploy, Crash, KernelClose, Reap, Exit, Spawn
    <2> QED
      BY <2>2
  <1> QED
    BY <1>1, <1>2

LEMMA SectionStep ==
    ASSUME TypeOK, MutualExclusion, MutualExclusion', [Next]_vars
    PROVE  [Section!Next]_Owner
  <1>1. CASE \A q \in Procs : Inside(q)' = Inside(q)
    <2>1. CASE \E p \in Procs : Inside(p)
      BY <1>1, <2>1, OwnerInside DEF Owner, MutualExclusion
    <2>2. CASE \A p \in Procs : ~Inside(p)
      BY <1>1, <2>2, OwnerNobody DEF Owner
    <2> QED
      BY <2>1, <2>2
  <1>2. ASSUME NEW p \in Procs, Inside(p)' # Inside(p),
               \A q \in Procs \ {p} : Inside(q)' = Inside(q)
        PROVE  Section!Enter(p) \/ Section!Leave(p)
    <2>1. CASE Inside(p)
      <3>1. Owner = p
        BY <2>1, OwnerInside
      <3>2. \A q \in Procs : ~Inside(q)'
        BY <1>2, <2>1 DEF MutualExclusion, Inside
      <3>3. Owner' = NoProc
        BY <3>2 DEF Owner
      <3> QED
        BY <3>1, <3>3 DEF Section!Leave
    <2>2. CASE ~Inside(p)
      <3>1. Inside(p)'
        BY <1>2, <2>2 DEF Inside
      <3>2. \A q \in Procs : ~Inside(q)
        BY <1>2, <2>2, <3>1 DEF MutualExclusion, Inside
      <3>3. Owner = NoProc
        BY <3>2, OwnerNobody
      <3>4. Owner' = p
        BY <3>1 DEF Owner, MutualExclusion
      <3> QED
        BY <3>3, <3>4 DEF Section!Enter
    <2> QED
      BY <2>1, <2>2
  <1> QED
    BY <1>1, <1>2, OneMoves DEF Section!Next

(* The lock code, with its PID files, its clean-ups and its crashes, is an  *)
(* exclusive section.                                                       *)
THEOREM Implementation == Spec => ImplementsSection
  <1>1. Init => Section!Init
    BY OwnerNobody DEF Init, Inside, Section!Init
  <1>2. TypeOK /\ MutualExclusion /\ MutualExclusion' /\ [Next]_vars
            => [Section!Next]_Owner
    BY SectionStep
  <1> QED
    BY <1>1, <1>2, TypeCorrect, Exclusion, PTL
    DEF Spec, ImplementsSection, Section!Spec
=============================================================================
