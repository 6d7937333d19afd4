---------------------------- MODULE ProjectLocks ----------------------------
(***************************************************************************)
(* The two advisory locks of a dwe project: deploy.lock and snapshot.lock  *)
(* (src/internal/shared/lock).  Each lock is a file: the kernel's flock on *)
(* it is the lock, the PID written in it is only a hint for the message of *)
(* a process that loses.  One step is one system call, so that the window  *)
(* between a successful flock and the write of the PID, and the window     *)
(* between reading a PID and truncating the file, are open to everybody.   *)
(***************************************************************************)
CONSTANTS Procs,    \* processes that run dwe commands in one project
          NoProc    \* no process: a free lock, an empty PID file

ASSUME ProcsAssumption == NoProc \notin Procs

VARIABLES
    holder,     \* lock -> the process whose open file holds the flock
    pidfile,    \* lock -> the PID in the lock file, NoProc when it is empty
    pc,         \* process -> where it is in Acquire / AcquireProjectLocks
    op,         \* process -> "project" (both locks) or "state" (deploy only)
    target,     \* process -> the lock it acquires or acquired last
    seenPid     \* process -> the PID checkAndCleanStaleLock read

vars == <<holder, pidfile, pc, op, target, seenPid>>

Locks == {"deploy", "snapshot"}

Ops == {"project", "state"}

(***************************************************************************)
(* "idle": a live process outside the lock code; "dying": killed, its      *)
(* files not all closed yet; "dead": kill(pid, 0) answers ESRCH.           *)
(***************************************************************************)
Acquiring == {"flock", "readpid", "probe", "clean", "retry", "report",
              "truncate", "write"}

Pcs == Acquiring \cup {"idle", "inside", "unlock", "dying", "dead"}

TypeOK ==
    /\ holder \in [Locks -> Procs \cup {NoProc}]
    /\ pidfile \in [Locks -> Procs \cup {NoProc}]
    /\ pc \in [Procs -> Pcs]
    /\ op \in [Procs -> Ops]
    /\ target \in [Procs -> Locks]
    /\ seenPid \in [Procs -> Procs \cup {NoProc}]

Init ==
    /\ holder = [f \in Locks |-> NoProc]
    /\ pidfile = [f \in Locks |-> NoProc]
    /\ pc = [p \in Procs |-> "dead"]
    /\ op = [p \in Procs |-> "project"]
    /\ target = [p \in Procs |-> "deploy"]
    /\ seenPid = [p \in Procs |-> NoProc]

Goto(p, label) == pc' = [pc EXCEPT ![p] = label]

Alive(p) == pc[p] # "dead"

\* Mutant of GiveUp: a failed snapshot lock forgets the deploy lock.
GiveUpLeaking(p) == Goto(p, "idle")

\* Where a failed acquisition leads: AcquireProjectLocks releases the deploy
\* lock it holds before it returns, a failure on the deploy lock just returns.
GiveUp(p) == Goto(p, IF target[p] = "snapshot" THEN "unlock" ELSE "idle")

\* The locals of Acquire end with the call.
ForgetAttempt(p) == seenPid' = [seenPid EXCEPT ![p] = NoProc]

-----------------------------------------------------------------------------
(***************************************************************************)
(* Acquire                                                                 *)
(***************************************************************************)

\* A command calls AcquireProjectLocks, or lock.Acquire on the deploy lock.
Begin(p) ==
    /\ pc[p] = "idle"
    /\ \E o \in Ops : op' = [op EXCEPT ![p] = o]
    /\ target' = [target EXCEPT ![p] = "deploy"]
    /\ Goto(p, "flock")
    /\ UNCHANGED <<holder, pidfile, seenPid>>

\* Mutants of Flock: the clean-up unlinks the file, so that the second attempt
\* locks a new inode; and a second refusal goes back to the PID.
FlockUnlinked(p) ==
    /\ pc[p] \in {"flock", "retry"}
    /\ IF holder[target[p]] = NoProc \/ pc[p] = "retry"
       THEN /\ holder' = [holder EXCEPT ![target[p]] = p]
            /\ Goto(p, "truncate")
            /\ ForgetAttempt(p)
       ELSE /\ Goto(p, "readpid")
            /\ UNCHANGED <<holder, seenPid>>
    /\ UNCHANGED <<pidfile, op, target>>

FlockLooping(p) ==
    /\ pc[p] \in {"flock", "retry"}
    /\ IF holder[target[p]] = NoProc
       THEN /\ holder' = [holder EXCEPT ![target[p]] = p]
            /\ Goto(p, "truncate")
            /\ ForgetAttempt(p)
       ELSE /\ Goto(p, "readpid")
            /\ UNCHANGED <<holder, seenPid>>
    /\ UNCHANGED <<pidfile, op, target>>

\* flock(LOCK_EX|LOCK_NB), the first attempt or the one after the clean-up.
Flock(p) ==
    /\ pc[p] \in {"flock", "retry"}
    /\ IF holder[target[p]] = NoProc
       THEN /\ holder' = [holder EXCEPT ![target[p]] = p]
            /\ Goto(p, "truncate")
            /\ ForgetAttempt(p)
       ELSE /\ Goto(p, IF pc[p] = "flock" THEN "readpid" ELSE "report")
            /\ UNCHANGED <<holder, seenPid>>
    /\ UNCHANGED <<pidfile, op, target>>

\* checkAndCleanStaleLock reads the PID; an empty file counts as stale.
ReadPid(p) ==
    /\ pc[p] = "readpid"
    /\ seenPid' = [seenPid EXCEPT ![p] = pidfile[target[p]]]
    /\ Goto(p, IF pidfile[target[p]] = NoProc THEN "clean" ELSE "probe")
    /\ UNCHANGED <<holder, pidfile, op, target>>

\* kill(pid, 0): ESRCH sends it to the clean-up, anything else gives up.
ProbePid(p) ==
    /\ pc[p] = "probe"
    /\ Goto(p, IF Alive(seenPid[p]) THEN "report" ELSE "clean")
    /\ UNCHANGED <<holder, pidfile, op, target, seenPid>>

\* The clean-up truncates the file of a lock this process does not hold.
CleanStale(p) ==
    /\ pc[p] = "clean"
    /\ pidfile' = [pidfile EXCEPT ![target[p]] = NoProc]
    /\ Goto(p, "retry")
    /\ UNCHANGED <<holder, op, target, seenPid>>

\* The HeldError, with the PID in the file as it is by now, goes to the caller.
Report(p) ==
    /\ pc[p] = "report"
    /\ GiveUp(p)
    /\ ForgetAttempt(p)
    /\ UNCHANGED <<holder, pidfile, op, target>>

\* finalizeAcquire: the old PID goes, then the new one is written; the project
\* command goes on to the snapshot lock, the other one has what it asked for.
TruncatePid(p) ==
    /\ pc[p] = "truncate"
    /\ pidfile' = [pidfile EXCEPT ![target[p]] = NoProc]
    /\ Goto(p, "write")
    /\ UNCHANGED <<holder, op, target, seenPid>>

WritePid(p) ==
    /\ pc[p] = "write"
    /\ pidfile' = [pidfile EXCEPT ![target[p]] = p]
    /\ IF op[p] = "project" /\ target[p] = "deploy"
       THEN /\ target' = [target EXCEPT ![p] = "snapshot"]
            /\ Goto(p, "flock")
       ELSE /\ Goto(p, "inside")
            /\ UNCHANGED target
    /\ UNCHANGED <<holder, op, seenPid>>

\* An I/O error: opening the file fails, or one of finalizeAcquire's writes
\* does; closing the file drops the flock.
AcquireError(p) ==
    /\ \/ /\ pc[p] = "flock"
          /\ UNCHANGED holder
       \/ /\ pc[p] \in {"truncate", "write"}
          /\ holder' = [holder EXCEPT ![target[p]] = NoProc]
    /\ GiveUp(p)
    /\ UNCHANGED <<pidfile, op, target, seenPid>>

-----------------------------------------------------------------------------
(***************************************************************************)
(* Release, in the reverse order; the files keep the PID.                  *)
(***************************************************************************)
ReleaseSnapshot(p) ==
    /\ pc[p] = "inside"
    /\ op[p] = "project"
    /\ holder' = [holder EXCEPT !["snapshot"] = NoProc]
    /\ Goto(p, "unlock")
    /\ UNCHANGED <<pidfile, op, target, seenPid>>

ReleaseDeploy(p) ==
    /\ \/ pc[p] = "unlock"
       \/ pc[p] = "inside" /\ op[p] = "state"
    /\ holder' = [holder EXCEPT !["deploy"] = NoProc]
    /\ Goto(p, "idle")
    /\ op' = [op EXCEPT ![p] = "project"]
    /\ target' = [target EXCEPT ![p] = "deploy"]
    /\ UNCHANGED <<pidfile, seenPid>>

-----------------------------------------------------------------------------
(***************************************************************************)
(* The operating system: a killed process loses its files one by one, in   *)
(* any order, then its PID; a PID is used again.                           *)
(***************************************************************************)
Crash(p) ==
    /\ pc[p] \in Acquiring \cup {"inside", "unlock"}
    /\ Goto(p, "dying")
    /\ ForgetAttempt(p)
    /\ op' = [op EXCEPT ![p] = "project"]
    /\ target' = [target EXCEPT ![p] = "deploy"]
    /\ UNCHANGED <<holder, pidfile>>

\* Mutant of KernelClose: a child process inherited the snapshot lock's file.
KernelCloseInherited(p, f) ==
    /\ pc[p] = "dying"
    /\ holder[f] = p
    /\ f = "deploy"
    /\ holder' = [holder EXCEPT ![f] = NoProc]
    /\ UNCHANGED <<pidfile, pc, op, target, seenPid>>

KernelClose(p, f) ==
    /\ pc[p] = "dying"
    /\ holder[f] = p
    /\ holder' = [holder EXCEPT ![f] = NoProc]
    /\ UNCHANGED <<pidfile, pc, op, target, seenPid>>

Reap(p) ==
    /\ pc[p] = "dying"
    /\ \A f \in Locks : holder[f] # p
    /\ Goto(p, "dead")
    /\ UNCHANGED <<holder, pidfile, op, target, seenPid>>

Exit(p) ==
    /\ pc[p] = "idle"
    /\ Goto(p, "dead")
    /\ UNCHANGED <<holder, pidfile, op, target, seenPid>>

Spawn(p) ==
    /\ pc[p] = "dead"
    /\ Goto(p, "idle")
    /\ UNCHANGED <<holder, pidfile, op, target, seenPid>>

-----------------------------------------------------------------------------
\* The steps of Acquire: none of them waits for another process.
AcquireStep(p) ==
    \/ Flock(p)
    \/ ReadPid(p)
    \/ ProbePid(p)
    \/ CleanStale(p)
    \/ Report(p)
    \/ TruncatePid(p)
    \/ WritePid(p)

ProcStep(p) ==
    \/ Begin(p)
    \/ AcquireStep(p)
    \/ AcquireError(p)
    \/ ReleaseSnapshot(p)
    \/ ReleaseDeploy(p)
    \/ Crash(p)
    \/ \E f \in Locks : KernelClose(p, f)
    \/ Reap(p)
    \/ Exit(p)
    \/ Spawn(p)

Next == \E p \in Procs : ProcStep(p)

Spec == Init /\ [][Next]_vars

(***************************************************************************)
(* Fairness: a process that acquires makes its system calls, and the       *)
(* kernel closes the files of a process it killed.  Nothing obliges a      *)
(* command to begin, to fail, to crash or to leave its critical section: a *)
(* deploy runs user commands, and `deploy state clear` waits for an answer *)
(* to its prompt with the lock held.                                       *)
(***************************************************************************)
FairSpec ==
    /\ Spec
    /\ \A p \in Procs :
          /\ WF_vars(AcquireStep(p))
          /\ WF_vars(pc[p] = "unlock" /\ ReleaseDeploy(p))
          /\ WF_vars(Reap(p) \/ \E f \in Locks : KernelClose(p, f))

-----------------------------------------------------------------------------
(***************************************************************************)
(* Properties                                                              *)
(***************************************************************************)

\* A command's locks: what it holds between a successful acquisition and the
\* release function.
LocksOf(p) == IF op[p] = "project" THEN Locks ELSE {"deploy"}

Inside(p) == pc[p] = "inside"

(* Deploys, snapshots and the repair or clearing of the deploy journal      *)
(* exclude one another: no two processes are past Acquire at the same time. *)
MutualExclusion ==
    \A p, q \in Procs : Inside(p) /\ Inside(q) => p = q

(* The release functions and the partial-acquire path leak nothing: a       *)
(* process that is out of the lock code, or gone, holds no lock.            *)
NoLeak ==
    \A p \in Procs, f \in Locks : pc[p] \in {"idle", "dead"} => holder[f] # p

(* Deploy first, then snapshot, released in the reverse order: a live       *)
(* process holds the snapshot lock only with the deploy lock, so that two   *)
(* commands cannot hold one lock each and refuse each other.                *)
SnapshotImpliesDeploy ==
    \A p \in Procs :
        holder["snapshot"] = p /\ pc[p] # "dying" => holder["deploy"] = p

(* The two locks together are one exclusive section.                        *)
Owner ==
    IF \E p \in Procs : Inside(p)
    THEN CHOOSE p \in Procs : Inside(p)
    ELSE NoProc

Section == INSTANCE ExclusiveSection WITH owner <- Owner

ImplementsSection == Section!Spec

(* Nobody stays in the way: Acquire never waits, so that an attempt ends,   *)
(* inside or outside, unless the process is killed; and a killed process    *)
(* gives its locks back without anybody's help.                             *)
NeverStuck ==
    \A p \in Procs :
        /\ pc[p] \in Acquiring ~> pc[p] \notin Acquiring
        /\ pc[p] = "dying" ~> \A f \in Locks : holder[f] # p
=============================================================================
