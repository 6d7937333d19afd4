---------------------------- MODULE BridgeDaemon ----------------------------
(***************************************************************************)
(* The life of the host bridge daemon: commands that ensure, cycle, stop   *)
(* and probe it (core/bridge/ensure.go), and the daemon process itself     *)
(* (cli/bridge/daemon.go, core/bridge/daemon.go).  All of them meet at the *)
(* flock on daemon.pid, through the same lock.Acquire as in ProjectLocks:  *)
(* a command that finds the flock free holds it for a moment and writes    *)
(* its own PID.  The truncation and the write of the PID are one step.     *)
(***************************************************************************)
EXTENDS FiniteSets

CONSTANTS Commands,   \* dwe commands that deal with the daemon
          Daemons,    \* processes `dwe bridge daemon`, by PID
          Jobs,       \* what the commands do: "ensure", "cycle", "stop", "status"
          Faults,     \* what may go wrong: "kill" any process, fail to "start"
          Nobody      \* a free flock, an empty PID file, no endpoint

ASSUME BridgeAssumption ==
    /\ Commands \cap Daemons = {}
    /\ Nobody \notin Commands \cup Daemons
    /\ Jobs \subseteq {"ensure", "cycle", "stop", "status"}

VARIABLES
    holder,     \* the process with the flock on daemon.pid
    pidfile,    \* the PID in daemon.pid
    sock, port, \* the daemon that made host.sock and the port file
    pc,         \* process -> where it is
    phase,      \* command -> its call: a job, or Cycle's second call, "wait"
    target,     \* command -> the PID of the HeldError
    answer,     \* ghost: what the last successful Ensure's answer is worth
    void        \* ghost: the Ensures under way that were overtaken

lifeVars == <<holder, pidfile, sock, port, pc, phase, target, answer, void>>

Procs == Commands \cup Daemons

Acquiring == {"flock", "look", "clean", "retry", "held", "write"}

CommandPcs == Acquiring \cup {"gone", "busy", "owner", "port", "release", "spawn", "kill"}

DaemonPcs == Acquiring \cup {"gone", "sock", "port", "boot", "serve", "drain", "release"}

DaemonTypeOK ==
    /\ holder \in Procs \cup {Nobody}
    /\ pidfile \in Procs \cup {Nobody}
    /\ {sock, port} \subseteq Daemons \cup {Nobody}
    /\ pc \in [Procs -> CommandPcs \cup DaemonPcs]
    /\ \A c \in Commands : pc[c] \in CommandPcs
    /\ \A d \in Daemons : pc[d] \in DaemonPcs
    /\ phase \in [Commands -> Jobs \cup {"none", "wait", "ensure"}]
    /\ target \in [Commands -> Procs \cup {Nobody}]
    /\ answer \in {"none", "claimed", "sound"}
    /\ void \subseteq Commands

\* A daemon ran before, so that the PID file is there.
DaemonInit ==
    /\ holder = Nobody
    /\ pidfile \in Daemons
    /\ sock = Nobody
    /\ port = Nobody
    /\ pc = [p \in Procs |-> "gone"]
    /\ phase = [c \in Commands |-> "none"]
    /\ target = [c \in Commands |-> Nobody]
    /\ answer = "none"
    /\ void = {}

Goto(p, label) == pc' = [pc EXCEPT ![p] = label]

Alive(p) == pc[p] # "gone"

(***************************************************************************)
(* "sound": no daemon ended since the Ensure looked, and no status or stop *)
(* took the flock for a moment meanwhile; "claimed": Ensure answered, and  *)
(* nothing that is meant to end the daemon began since.                    *)
(***************************************************************************)
Undo(worth) ==
    /\ answer' = worth
    /\ void' = {c \in Commands : phase[c] = "ensure"}

Doubted == IF answer = "sound" THEN "claimed" ELSE answer

Probing == \E c \in Commands : phase[c] \in {"status", "stop"}

EnsureAnswers(c) ==
    /\ answer' = IF Probing \/ c \in void THEN "claimed" ELSE "sound"
    /\ void' = void \ {c}

Unlock(p) == holder' = IF holder = p THEN Nobody ELSE holder

-----------------------------------------------------------------------------
(***************************************************************************)
(* lock.Acquire on daemon.pid, by commands and daemons                     *)
(***************************************************************************)
Flock(p) ==
    /\ pc[p] \in {"flock", "retry"}
    /\ IF holder = Nobody
       THEN holder' = p /\ Goto(p, "write")
       ELSE /\ Goto(p, IF pc[p] = "flock" THEN "look" ELSE "held")
            /\ UNCHANGED holder
    /\ UNCHANGED <<pidfile, sock, port, phase, target, answer, void>>

\* The PID in the file and kill(pid, 0).
Look(p) ==
    /\ pc[p] = "look"
    /\ Goto(p, IF pidfile # Nobody /\ Alive(pidfile) THEN "held" ELSE "clean")
    /\ UNCHANGED <<holder, pidfile, sock, port, phase, target, answer, void>>

Clean(p) ==
    /\ pc[p] = "clean"
    /\ pidfile' = Nobody
    /\ Goto(p, "retry")
    /\ UNCHANGED <<holder, sock, port, phase, target, answer, void>>

WritePid(p) ==
    /\ pc[p] = "write"
    /\ pidfile' = p
    /\ Goto(p, IF p \in Daemons THEN "sock" ELSE "owner")
    /\ UNCHANGED <<holder, sock, port, phase, target, answer, void>>

-----------------------------------------------------------------------------
(***************************************************************************)
(* The commands                                                            *)
(***************************************************************************)
Call(c, what) ==
    /\ Goto(c, "flock")
    /\ phase' = [phase EXCEPT ![c] = what]
    /\ target' = [target EXCEPT ![c] = Nobody]

ReturnCall(c) ==
    /\ Goto(c, "busy")
    /\ phase' = [phase EXCEPT ![c] = "none"]
    /\ target' = [target EXCEPT ![c] = Nobody]

EndProbe(c) ==
    /\ ReturnCall(c)
    /\ Undo(Doubted)

EnsureNext(c) ==
    /\ Call(c, "ensure")
    /\ UNCHANGED <<answer, void>>

\* A command begins its job.
Begin(c, j) ==
    /\ pc[c] = "gone"
    /\ Call(c, j)
    /\ CASE j = "stop" -> Undo("none")
         [] j = "status" -> Undo(Doubted)
         [] j \in {"ensure", "cycle"} -> UNCHANGED <<answer, void>>
    /\ UNCHANGED <<holder, pidfile, sock, port>>

CommandExit(c) ==
    /\ pc[c] = "busy"
    /\ Goto(c, "gone")
    /\ UNCHANGED <<holder, pidfile, sock, port, phase, target, answer, void>>

\* ProbeDaemon and waitPidfileReleased got the flock: there is no daemon.
ProbeFree(c) ==
    /\ pc[c] = "owner"
    /\ phase[c] # "ensure"
    /\ Unlock(c)
    /\ IF phase[c] \in {"cycle", "wait"} THEN EnsureNext(c) ELSE EndProbe(c)
    /\ UNCHANGED <<pidfile, sock, port>>

\* The HeldError reads the PID again; what the caller makes of it.
StatusHeld(c) ==
    /\ pc[c] = "held"
    /\ phase[c] = "status"
    /\ EndProbe(c)
    /\ UNCHANGED <<holder, pidfile, sock, port>>

StopHeld(c) ==
    /\ pc[c] = "held"
    /\ phase[c] \in {"stop", "cycle"}
    /\ IF pidfile # Nobody
       THEN /\ Goto(c, "kill")
            /\ target' = [target EXCEPT ![c] = pidfile]
            /\ UNCHANGED <<phase, answer, void>>
       ELSE IF phase[c] \in {"cycle", "wait"} THEN EnsureNext(c) ELSE EndProbe(c)
    /\ UNCHANGED <<holder, pidfile, sock, port>>

\* waitPidfileReleased polls, or gives up after five seconds.
WaitHeld(c) ==
    /\ pc[c] = "held"
    /\ phase[c] = "wait"
    /\ \/ Call(c, "wait") /\ UNCHANGED <<answer, void>>
       \/ ReturnCall(c) /\ Undo("none")
    /\ UNCHANGED <<holder, pidfile, sock, port>>

EnsureHeld(c) ==
    /\ pc[c] = "held"
    /\ phase[c] = "ensure"
    /\ ReturnCall(c)
    /\ EnsureAnswers(c)
    /\ UNCHANGED <<holder, pidfile, sock, port>>

\* Mutant of RemoveSock: the probe's flock is released before the removals.
RemoveSockUnlocked(c) ==
    /\ pc[c] = "owner"
    /\ phase[c] = "ensure"
    /\ sock' = Nobody
    /\ Unlock(c)
    /\ Goto(c, "port")
    /\ UNCHANGED <<pidfile, port, phase, target, answer, void>>

\* Ensure got the flock: it removes the endpoints, unlocks, and spawns.
RemoveSock(c) ==
    /\ pc[c] = "owner"
    /\ phase[c] = "ensure"
    /\ sock' = Nobody
    /\ Goto(c, "port")
    /\ UNCHANGED <<holder, pidfile, port, phase, target, answer, void>>

RemovePort(c) ==
    /\ pc[c] = "port"
    /\ port' = Nobody
    /\ Goto(c, "release")
    /\ UNCHANGED <<holder, pidfile, sock, phase, target, answer, void>>

\* Mutant of ReleaseProbe: the flock is kept until the command exits.
ReleaseProbeLate(c) ==
    /\ pc[c] = "release"
    /\ Goto(c, "spawn")
    /\ UNCHANGED <<holder, pidfile, sock, port, phase, target, answer, void>>

ReleaseProbe(c) ==
    /\ pc[c] = "release"
    /\ Unlock(c)
    /\ Goto(c, "spawn")
    /\ UNCHANGED <<pidfile, sock, port, phase, target, answer, void>>

SpawnDaemon(c, d) ==
    /\ pc[c] = "spawn"
    /\ pc[d] = "gone"
    /\ pc' = [pc EXCEPT ![c] = "busy", ![d] = "flock"]
    /\ phase' = [phase EXCEPT ![c] = "none"]
    /\ EnsureAnswers(c)
    /\ UNCHANGED <<holder, pidfile, sock, port, target>>

-----------------------------------------------------------------------------
(***************************************************************************)
(* SIGTERM.  The daemon's handler is there from "serve" on; any other      *)
(* process of this model dies of the signal, and the kernel closes its     *)
(* files.                                                                  *)
(***************************************************************************)
Handles(p) == p \in Daemons /\ pc[p] \in {"serve", "drain", "release"}

Gone(p) ==
    /\ Goto(p, "gone")
    /\ Unlock(p)
    /\ phase' = [c \in Commands |-> IF c = p THEN "none" ELSE phase[c]]
    /\ target' = [c \in Commands |-> IF c = p THEN Nobody ELSE target[c]]

\* A process that a SIGTERM is sent to and that does not handle it.
Doomed(p) == Alive(p) /\ ~Handles(p)

Die(p) ==
    /\ \E c \in Commands : pc[c] = "kill" /\ target[c] = p
    /\ Doomed(p)
    /\ Gone(p)
    /\ Undo("none")
    /\ UNCHANGED <<pidfile, sock, port>>

\* The signal is sent; Cycle waits for the flock, StopDaemon does not.
SendTerm(c) ==
    /\ pc[c] = "kill"
    /\ ~Doomed(target[c])
    /\ IF phase[c] = "cycle"
       THEN Call(c, "wait") /\ UNCHANGED <<answer, void>>
       ELSE EndProbe(c)
    /\ UNCHANGED <<holder, pidfile, sock, port>>

\* SIGKILL, at any moment.
Crash(p) ==
    /\ "kill" \in Faults
    /\ Alive(p)
    /\ Gone(p)
    /\ Undo("none")
    /\ UNCHANGED <<pidfile, sock, port>>

-----------------------------------------------------------------------------
(***************************************************************************)
(* The daemon process: runDaemon, Start, RunAutoStop, Close                *)
(***************************************************************************)
\* "already running": it exits without an error.
DaemonHeld(d) ==
    /\ pc[d] = "held"
    /\ Gone(d)
    /\ UNCHANGED <<pidfile, sock, port, answer, void>>

OpenSock(d) ==
    /\ pc[d] = "sock"
    /\ sock' = d
    /\ Goto(d, "port")
    /\ UNCHANGED <<holder, pidfile, port, phase, target, answer, void>>

WritePort(d) ==
    /\ pc[d] = "port"
    /\ port' = d
    /\ Goto(d, "boot")
    /\ UNCHANGED <<holder, pidfile, sock, phase, target, answer, void>>

\* The configuration does not load, or a listener or the port file fails; the
\* closed unix listener takes its socket with it.
StartFails(d) ==
    /\ "start" \in Faults
    /\ pc[d] \in {"sock", "port"}
    /\ sock' = IF pc[d] = "port" THEN Nobody ELSE sock
    /\ Gone(d)
    /\ Undo("none")
    /\ UNCHANGED <<pidfile, port>>

\* signal.NotifyContext
Serve(d) ==
    /\ pc[d] = "boot"
    /\ Goto(d, "serve")
    /\ UNCHANGED <<holder, pidfile, sock, port, phase, target, answer, void>>

\* RunAutoStop returns: SIGTERM, or no container of the project runs.
\* Close begins with the listeners; the unix one removes its socket.
CloseListeners(d) ==
    /\ pc[d] = "serve"
    /\ Undo("none")
    /\ sock' = Nobody
    /\ Goto(d, "drain")
    /\ UNCHANGED <<holder, pidfile, port, phase, target>>

\* Mutant of CloseEnds: the sessions are waited for last, and not at all.
CloseEndsEarly(d) ==
    /\ pc[d] = "drain"
    /\ Goto(d, "release")
    /\ UNCHANGED <<holder, pidfile, sock, port, phase, target, answer, void>>

\* The sessions have ended; Close removes the port file.
CloseEnds(d) ==
    /\ pc[d] = "drain"
    /\ port' = Nobody
    /\ Goto(d, "release")
    /\ UNCHANGED <<holder, pidfile, sock, phase, target, answer, void>>

ReleasePid(d) ==
    /\ pc[d] = "release"
    /\ Gone(d)
    /\ Undo(Doubted)
    /\ UNCHANGED <<pidfile, sock, port>>

-----------------------------------------------------------------------------
CommandStep(c) ==
    \/ \E j \in Jobs : Begin(c, j)
    \/ CommandExit(c)
    \/ ProbeFree(c)
    \/ StatusHeld(c)
    \/ StopHeld(c)
    \/ WaitHeld(c)
    \/ EnsureHeld(c)
    \/ RemoveSock(c)
    \/ RemovePort(c)
    \/ ReleaseProbe(c)
    \/ \E d \in Daemons : SpawnDaemon(c, d)
    \/ SendTerm(c)

DaemonStep(d) ==
    \/ DaemonHeld(d)
    \/ OpenSock(d)
    \/ WritePort(d)
    \/ StartFails(d)
    \/ Serve(d)
    \/ CloseListeners(d)
    \/ CloseEnds(d)
    \/ ReleasePid(d)

AcquireStep(p) ==
    \/ Flock(p)
    \/ Look(p)
    \/ Clean(p)
    \/ WritePid(p)

DaemonNext ==
    \/ \E p \in Procs : AcquireStep(p) \/ Die(p) \/ Crash(p)
    \/ \E c \in Commands : CommandStep(c)
    \/ \E d \in Daemons : DaemonStep(d)

DaemonSpec == DaemonInit /\ [][DaemonNext]_lifeVars

-----------------------------------------------------------------------------
(***************************************************************************)
(* Properties                                                              *)
(***************************************************************************)
Up(d) == pc[d] \in {"boot", "serve"}

(* One daemon serves, and the socket and the port file the shims dial are   *)
(* its own: neither a starting daemon, nor a closing one, nor an Ensure     *)
(* that removes stale endpoints takes them away.  And whoever gives the     *)
(* flock back after Ensure's removals or after Close leaves no endpoint     *)
(* behind, of a killed daemon either, for a shim to dial while the next     *)
(* daemon boots.                                                            *)
EndpointsOwned ==
    /\ \A d \in Daemons : Up(d) => sock = d /\ port = d /\ holder = d
    /\ \A p \in Procs : pc[p] = "release" => sock = Nobody /\ port = Nobody

Quiet ==
    /\ \A c \in Commands : pc[c] \in {"gone", "busy"}
    /\ \A d \in Daemons : pc[d] \in {"gone", "serve"}

(* ensure.go:124-125: an Ensure that loses the race of two spawns "only     *)
(* spawns a daemon that sees the flock held and exits cleanly".  Whatever   *)
(* ensures and cycles race, and however their probes get in the way of the  *)
(* daemons they spawn, a daemon is left when all is quiet.                  *)
Served ==
    Quiet /\ answer = "sound" => \E d \in Daemons : pc[d] = "serve"

(* ensure.go:120-123: "the flock held means a daemon is alive and Ensure is *)
(* a no-op": after an Ensure that succeeded there is a daemon.              *)
EnsureLeavesDaemon ==
    Quiet /\ answer # "none" => \E d \in Daemons : pc[d] = "serve"

(* ensure.go:245: "StopDaemon delivers SIGTERM to the daemon holding the    *)
(* pidfile flock", and to no other process.                                 *)
SignalsDaemonsOnly ==
    \A c \in Commands : pc[c] = "kill" => target[c] \in Daemons
=============================================================================
