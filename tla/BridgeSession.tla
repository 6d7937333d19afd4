---------------------------- MODULE BridgeSession ----------------------------
(***************************************************************************)
(* One bridged command: the shim in a container (shared/bridgeclient), its *)
(* connection to the host daemon, the daemon's session (core/bridge/       *)
(* session.go) and the dwe process it forks.                               *)
(*                                                                         *)
(* The shim's reader, its stdin and its signals, the session, its reader   *)
(* and its two output pumps all run at once.  The container dies or the    *)
(* connection breaks, the daemon is told to stop or is killed, the command *)
(* hangs, at any point.  BridgeDaemon has the daemons' hand-over.          *)
(***************************************************************************)
EXTENDS Naturals, Sequences

CONSTANTS
    MaxOut,     \* bound on the chunks the command writes to each output
    MaxIn,      \* bound on the chunks of the shim's stdin
    MaxSignals, \* bound on the signals the shim forwards
    PipeCap,    \* what a pipe of the command holds
    NetCap      \* what the connection holds in each direction

ASSUME SessionAssumption ==
    /\ {MaxOut, MaxIn, MaxSignals} \subseteq Nat
    /\ {PipeCap, NetCap} \subseteq Nat \ {0}

Outputs == {"stdout", "stderr"}

VARIABLES
    daemon,  \* up, closing, closed or killed
    conn,    \* none, dialled, open, shut (by the daemon) or cut
    up,      \* the frames on their way to the daemon
    down,    \* and to the shim
    shim,    \* start, hello, reading, done or dead
    result,  \* how the shim ended
    gotFrame,
    sent,    \* what the shim has sent: chunks of stdin, its end, signals
    got,     \* the chunks of each output the shim has written
    ses,     \* the session: none, check, hello, launch, running, reaped, over
    pump,    \* pumpConn: none, read, write, terminate, grace, done
    outs,    \* the output pumps at work
    connOK,  \* the outputs whose pump has had no write error
    proc,    \* the command: none, alive, dead or reaped
    code,    \* its exit code
    told,    \* it has been sent SIGINT or SIGTERM
    stdin,   \* its stdin: open at the daemon's end, chunks in the pipe, chunks read
    pipe,    \* chunks in its output pipes
    written  \* chunks it has written

shimVars == <<shim, result, gotFrame, sent, got>>
daemonVars == <<ses, pump, outs, connOK>>
procVars == <<proc, code, told, stdin, pipe, written>>
vars == <<daemon, conn, up, down, shimVars, daemonVars, procVars>>

Frame(type) == [type |-> type, code |-> 0]
Exit(c) == [type |-> "exit", code |-> c]

Init ==
    /\ daemon = "up" /\ conn = "none" /\ up = <<>> /\ down = <<>>
    /\ shim = "start" /\ result = Frame("none") /\ gotFrame = FALSE
    /\ sent = [stdin |-> 0, close |-> FALSE, signals |-> 0] /\ got = [o \in Outputs |-> 0]
    /\ ses = "none" /\ pump = "none" /\ outs = {} /\ connOK = Outputs
    /\ proc = "none" /\ code = 0 /\ told = FALSE
    /\ stdin = [open |-> TRUE, held |-> 0, read |-> 0]
    /\ pipe = [o \in Outputs |-> 0] /\ written = [o \in Outputs |-> 0]

(***************************************************************************)
(* The shim                                                                *)
(***************************************************************************)

Return(frame) == shim' = "done" /\ result' = frame

\* Nothing answers on the socket and on the port: the listeners are closed.
Dial ==
    /\ shim = "start"
    /\ IF daemon = "up"
       THEN shim' = "hello" /\ conn' = "dialled" /\ UNCHANGED result
       ELSE Return(Frame("unreachable")) /\ UNCHANGED conn
    /\ UNCHANGED <<daemon, up, down, gotFrame, sent, got, daemonVars, procVars>>

\* The proxy of Docker Desktop takes the connection before it knows that
\* nothing listens behind it.
ProxyDial ==
    /\ shim = "start" /\ daemon # "up" /\ shim' = "hello" /\ conn' = "shut"
    /\ UNCHANGED <<daemon, up, down, result, gotFrame, sent, got, daemonVars, procVars>>

SendHello ==
    /\ shim = "hello"
    /\ IF conn \in {"dialled", "open"}
       THEN shim' = "reading" /\ up' = Append(up, Frame("hello")) /\ UNCHANGED result
       ELSE Return(Frame("unreachable")) /\ UNCHANGED up
    /\ UNCHANGED <<daemon, conn, down, gotFrame, sent, got, daemonVars, procVars>>

\* A HELLO above the largest payload is not sent, and is reported alike.
HelloTooLarge ==
    /\ shim = "hello" /\ Return(Frame("unreachable"))
    /\ conn' = IF conn \in {"dialled", "open"} THEN "cut" ELSE conn
    /\ UNCHANGED <<daemon, up, down, gotFrame, sent, got, daemonVars, procVars>>

\* pumpStdin and pumpSignals.
Send(type) ==
    /\ shim = "reading" /\ conn \in {"dialled", "open"} /\ Len(up) < NetCap
    /\ up' = Append(up, Frame(type))
    /\ UNCHANGED <<daemon, conn, down, shim, result, gotFrame, got, daemonVars, procVars>>

SendStdin ==
    /\ Send("stdin") /\ ~sent.close /\ sent.stdin < MaxIn
    /\ sent' = [sent EXCEPT !.stdin = @ + 1]
SendClose == Send("close") /\ ~sent.close /\ sent' = [sent EXCEPT !.close = TRUE]
SendSignal ==
    /\ Send("signal") /\ sent.signals < MaxSignals
    /\ sent' = [sent EXCEPT !.signals = @ + 1]

\* readLoop: frames until EXIT or ERROR; a connection that dies before the first
\* of them counts as unreachable.
ReadFrame ==
    /\ shim = "reading" /\ down # <<>>
    /\ down' = Tail(down) /\ gotFrame' = TRUE
    /\ LET frame == Head(down) IN
       /\ got' = IF frame.type \in Outputs THEN [got EXCEPT ![frame.type] = @ + 1] ELSE got
       /\ IF frame.type \in {"exit", "error"} THEN Return(frame) ELSE UNCHANGED <<shim, result>>
    /\ UNCHANGED <<daemon, conn, up, sent, daemonVars, procVars>>

ReadFails ==
    /\ shim = "reading" /\ down = <<>> /\ conn \in {"shut", "cut"}
    /\ Return(Frame(IF gotFrame THEN "lost" ELSE "unreachable"))
    /\ UNCHANGED <<daemon, conn, up, down, gotFrame, sent, got, daemonVars, procVars>>

\* The container is stopped: what the shim has sent still arrives.
ContainerDies ==
    /\ shim \in {"hello", "reading"} /\ shim' = "dead"
    /\ conn' = "cut" /\ down' = <<>>
    /\ UNCHANGED <<daemon, up, result, gotFrame, sent, got, daemonVars, procVars>>

\* The connection breaks and both ends are told; frames on their way are lost.
Cut ==
    /\ conn = "open" /\ conn' = "cut"
    /\ up' \in {SubSeq(up, 1, n) : n \in 0 .. Len(up)}
    /\ down' \in {SubSeq(down, 1, n) : n \in 0 .. Len(down)}
    /\ UNCHANGED <<daemon, shimVars, daemonVars, procVars>>

(***************************************************************************)
(* The session                                                             *)
(***************************************************************************)

Accept ==
    /\ daemon = "up" /\ conn = "dialled" /\ conn' = "open" /\ ses' = "check"
    /\ UNCHANGED <<daemon, up, down, shimVars, pump, outs, connOK, procVars>>

\* WriteFrame: waits for room, and fails on a connection that is gone.
Answer(frames) == down' = IF conn = "open" THEN down \o frames ELSE down
Room == conn = "open" => Len(down) < NetCap

\* handleConn closes the connection when it returns.
EndSession(frames) ==
    /\ Answer(frames) /\ ses' = "over"
    /\ conn' = IF conn = "open" THEN "shut" ELSE conn

ShuttingDown ==
    /\ ses = "check" /\ daemon = "closing" /\ EndSession(<<Frame("error")>>)
    /\ UNCHANGED <<daemon, up, shimVars, pump, outs, connOK, procVars>>

Checked ==
    /\ ses = "check" /\ daemon = "up" /\ ses' = "hello"
    /\ UNCHANGED <<daemon, conn, up, down, shimVars, pump, outs, connOK, procVars>>

\* Mutant: the HELLO is waited for without a deadline.
HelloNoTimeout ==
    /\ ses = "hello" /\ up = <<>> /\ conn = "cut" /\ EndSession(<<Frame("error")>>)
    /\ UNCHANGED <<daemon, up, shimVars, pump, outs, connOK, procVars>>

\* No HELLO: within ten seconds, or ever, the connection being gone.
HelloTimeout ==
    /\ ses = "hello" /\ up = <<>> /\ EndSession(<<Frame("error")>>)
    /\ UNCHANGED <<daemon, up, shimVars, pump, outs, connOK, procVars>>

\* Mutant: no ERROR, and the connection stays open.
RejectSilently ==
    /\ ses = "hello" /\ up # <<>> /\ up' = Tail(up) /\ ses' = "over"
    /\ UNCHANGED <<daemon, conn, down, shimVars, pump, outs, connOK, procVars>>

\* A HELLO that is not accepted: its form, its token, its version, a terminal.
Reject ==
    /\ ses = "hello" /\ up # <<>> /\ up' = Tail(up) /\ EndSession(<<Frame("error")>>)
    /\ UNCHANGED <<daemon, shimVars, pump, outs, connOK, procVars>>

AcceptHello ==
    /\ ses = "hello" /\ up # <<>> /\ Head(up).type = "hello"
    /\ up' = Tail(up) /\ ses' = "launch"
    /\ UNCHANGED <<daemon, conn, down, shimVars, pump, outs, connOK, procVars>>

LaunchFails ==
    /\ ses = "launch" /\ EndSession(<<Frame("stderr"), Exit(127)>>)
    /\ UNCHANGED <<daemon, up, shimVars, pump, outs, connOK, procVars>>

Launch ==
    /\ ses = "launch" /\ ses' = "running" /\ proc' = "alive"
    /\ pump' = "read" /\ outs' = Outputs
    /\ UNCHANGED <<daemon, conn, up, down, shimVars, connOK, code, told, stdin, pipe, written>>

\* pumpOutput: after a write error it drains the pipe.
PumpChunk(o) ==
    /\ o \in outs /\ pipe[o] > 0 /\ pipe' = [pipe EXCEPT ![o] = @ - 1]
    /\ IF o \in connOK
       THEN Room /\ Answer(<<Frame(o)>>) /\ connOK' = IF conn = "open" THEN connOK ELSE connOK \ {o}
       ELSE UNCHANGED <<down, connOK>>
    /\ UNCHANGED <<daemon, conn, up, shimVars, ses, pump, outs, proc, code, told, stdin, written>>

PumpEOF(o) ==
    /\ o \in outs /\ pipe[o] = 0 /\ proc = "dead" /\ outs' = outs \ {o}
    /\ UNCHANGED <<daemon, conn, up, down, shimVars, ses, pump, connOK, procVars>>

\* Mutant: the command is reaped before its outputs have ended.
ReapEarly ==
    /\ ses = "running" /\ proc = "dead"
    /\ proc' = "reaped" /\ ses' = "reaped"
    /\ UNCHANGED <<daemon, conn, up, down, shimVars, pump, outs, connOK, code, told, stdin, pipe, written>>

\* The main goroutine reaps the command when both outputs have ended, closes
\* exited and sends EXIT.
Reap ==
    /\ ses = "running" /\ outs = {} /\ proc = "dead"
    /\ proc' = "reaped" /\ ses' = "reaped"
    /\ UNCHANGED <<daemon, conn, up, down, shimVars, pump, outs, connOK, code, told, stdin, pipe, written>>

\* Mutant: the connection is closed without EXIT.
SendExitNot ==
    /\ ses = "reaped" /\ Room /\ EndSession(<<>>)
    /\ UNCHANGED <<daemon, up, shimVars, pump, outs, connOK, procVars>>

SendExit ==
    /\ ses = "reaped" /\ Room /\ EndSession(<<Exit(code)>>)
    /\ UNCHANGED <<daemon, up, shimVars, pump, outs, connOK, procVars>>

(* pumpConn *)

PumpStdin ==
    /\ pump = "read" /\ up # <<>> /\ Head(up).type = "stdin"
    /\ up' = Tail(up) /\ pump' = IF stdin.open THEN "write" ELSE "read"
    /\ UNCHANGED <<daemon, conn, down, shimVars, ses, outs, connOK, procVars>>

\* The write waits for room in the pipe, and fails when the command is gone.
PumpWrite ==
    /\ pump = "write" /\ pump' = "read"
    /\ \/ proc # "alive" /\ stdin' = [stdin EXCEPT !.open = FALSE]
       \/ proc = "alive" /\ stdin.held < PipeCap /\ stdin' = [stdin EXCEPT !.held = @ + 1]
    /\ UNCHANGED <<daemon, conn, up, down, shimVars, ses, outs, connOK,
                   proc, code, told, pipe, written>>

PumpClose ==
    /\ pump = "read" /\ up # <<>> /\ Head(up).type = "close"
    /\ up' = Tail(up) /\ stdin' = [stdin EXCEPT !.open = FALSE]
    /\ UNCHANGED <<daemon, conn, down, shimVars, daemonVars, proc, code, told, pipe, written>>

PumpSignal ==
    /\ pump = "read" /\ up # <<>> /\ Head(up).type = "signal"
    /\ up' = Tail(up) /\ told' = (told \/ proc = "alive")
    /\ UNCHANGED <<daemon, conn, down, shimVars, daemonVars, proc, code, stdin, pipe, written>>

\* A read error after the command was reaped is the session's own end; before,
\* the container is gone: SIGTERM, the grace window, SIGKILL.
Exited == ses \in {"reaped", "over"}

\* Mutant: a connection that is gone ends the command's stdin too.
PumpLostCloses ==
    /\ pump = "read" /\ up = <<>> /\ conn \in {"shut", "cut"}
    /\ pump' = IF Exited THEN "done" ELSE "terminate"
    /\ stdin' = [stdin EXCEPT !.open = FALSE]
    /\ UNCHANGED <<daemon, conn, up, down, shimVars, ses, outs, connOK, proc, code, told, pipe, written>>

PumpLost ==
    /\ pump = "read" /\ up = <<>> /\ conn \in {"shut", "cut"}
    /\ pump' = IF Exited THEN "done" ELSE "terminate"
    /\ UNCHANGED <<daemon, conn, up, down, shimVars, ses, outs, connOK, procVars>>

Terminate ==
    /\ pump = "terminate" /\ pump' = "grace" /\ told' = (told \/ proc = "alive")
    /\ UNCHANGED <<daemon, conn, up, down, shimVars, ses, outs, connOK, proc, code, stdin, pipe, written>>

\* Mutant: no SIGKILL.
GraceOnly ==
    /\ pump = "grace" /\ pump' = "done"
    /\ UNCHANGED <<daemon, conn, up, down, shimVars, ses, outs, connOK, procVars>>

Grace ==
    /\ pump = "grace" /\ pump' = "done"
    /\ \/ Exited /\ UNCHANGED <<proc, code>>
       \/ IF proc = "alive" THEN proc' = "dead" /\ code' = 137 ELSE UNCHANGED <<proc, code>>
    /\ UNCHANGED <<daemon, conn, up, down, shimVars, ses, outs, connOK, told, stdin, pipe, written>>

(***************************************************************************)
(* The command                                                             *)
(***************************************************************************)

CommandWrites(o) ==
    /\ proc = "alive" /\ written[o] < MaxOut /\ pipe[o] < PipeCap
    /\ written' = [written EXCEPT ![o] = @ + 1] /\ pipe' = [pipe EXCEPT ![o] = @ + 1]
    /\ UNCHANGED <<daemon, conn, up, down, shimVars, daemonVars, proc, code, told, stdin>>

CommandReads ==
    /\ proc = "alive" /\ stdin.held > 0
    /\ stdin' = [stdin EXCEPT !.held = @ - 1, !.read = @ + 1]
    /\ UNCHANGED <<daemon, conn, up, down, shimVars, daemonVars, proc, code, told, pipe, written>>

\* It ends by itself, or of a signal it does not handle.
CommandEnds ==
    /\ proc = "alive" /\ proc' = "dead"
    /\ \/ code' = 0
       \/ told /\ code' = 143
    /\ UNCHANGED <<daemon, conn, up, down, shimVars, daemonVars, told, stdin, pipe, written>>

(***************************************************************************)
(* The daemon                                                              *)
(***************************************************************************)

\* Close: the listeners first, and the connections not yet accepted with them.
Close ==
    /\ daemon = "up" /\ daemon' = "closing"
    /\ conn' = IF conn = "dialled" THEN "shut" ELSE conn
    /\ UNCHANGED <<up, down, shimVars, daemonVars, procVars>>

\* Mutant: the sessions are not waited for.
ClosedAtOnce ==
    /\ daemon = "closing" /\ daemon' = "closed"
    /\ UNCHANGED <<conn, up, down, shimVars, daemonVars, procVars>>

Closed ==
    /\ daemon = "closing" /\ daemon' = "closed"
    /\ ses \in {"none", "over"} /\ pump \in {"none", "done"}
    /\ UNCHANGED <<conn, up, down, shimVars, daemonVars, procVars>>

\* Killed, it leaves the command, whose pipes are closed.
KillDaemon ==
    /\ daemon \in {"up", "closing"} /\ daemon' = "killed"
    /\ conn' = IF conn \in {"dialled", "open"} THEN "shut" ELSE conn
    /\ ses' = "over" /\ pump' = "done" /\ outs' = {}
    /\ pipe' = [o \in Outputs |-> 0]
    /\ UNCHANGED <<up, down, shimVars, connOK, proc, code, told, stdin, written>>

Shim == Dial \/ ProxyDial \/ SendHello \/ HelloTooLarge \/ SendStdin \/ SendClose \/ SendSignal \/ ReadFrame \/ ReadFails
Session ==
    \/ Accept \/ ShuttingDown \/ Checked \/ HelloTimeout \/ Reject \/ AcceptHello
    \/ LaunchFails \/ Launch \/ Reap \/ SendExit
OutputPump(o) == PumpChunk(o) \/ PumpEOF(o)
PumpConn == PumpStdin \/ PumpWrite \/ PumpClose \/ PumpSignal \/ PumpLost \/ Terminate \/ Grace
Command == (\E o \in Outputs : CommandWrites(o)) \/ CommandReads \/ CommandEnds

Next ==
    \/ Shim \/ Session \/ (\E o \in Outputs : OutputPump(o)) \/ PumpConn
    \/ Command \/ Close \/ Closed \/ KillDaemon \/ ContainerDies \/ Cut

Spec == Init /\ [][Next]_vars

\* The goroutines of the daemon run, its timeouts included, and so does the
\* shim's reader.  Nothing is assumed of what
\* the command does, of the shim's stdin, or of a client that never says HELLO.
Fairness ==
    /\ WF_vars(Session) /\ WF_vars(PumpConn) /\ WF_vars(Closed)
    /\ \A o \in Outputs : WF_vars(OutputPump(o))
    /\ WF_vars(ReadFrame \/ ReadFails)

FairSpec == Spec /\ Fairness

-----------------------------------------------------------------------------

Codes == {0, 127, 137, 143}
DownFrames == {Frame(t) : t \in Outputs \cup {"error"}} \cup {Exit(c) : c \in Codes}

TypeOK ==
    /\ daemon \in {"up", "closing", "closed", "killed"}
    /\ conn \in {"none", "dialled", "open", "shut", "cut"}
    /\ up \in Seq({Frame(t) : t \in {"hello", "stdin", "close", "signal"}}) /\ Len(up) <= NetCap + 1
    /\ down \in Seq(DownFrames) /\ Len(down) <= NetCap + 2
    /\ shim \in {"start", "hello", "reading", "done", "dead"}
    /\ result \in {Frame(t) : t \in {"none", "unreachable", "lost"}} \cup DownFrames
    /\ ses \in {"none", "check", "hello", "launch", "running", "reaped", "over"}
    /\ pump \in {"none", "read", "write", "terminate", "grace", "done"}
    /\ outs \subseteq Outputs /\ connOK \subseteq Outputs
    /\ proc \in {"none", "alive", "dead", "reaped"} /\ code \in Codes
    /\ stdin.held \in 0 .. PipeCap /\ stdin.read \in 0 .. MaxIn
    /\ pipe \in [Outputs -> 0 .. PipeCap] /\ written \in [Outputs -> 0 .. MaxOut]
    /\ {gotFrame, told} \subseteq BOOLEAN

\* Both directions are whole.  An exit code the shim returns is the command's, and
\* by then the shim has written all that the command wrote (session.go:137, "Wait
\* must come after both pipes hit EOF").  And a command that comes to the end of
\* its stdin has read all of the shim's: a container that dies in the middle does
\* not look like an end (session.go:158).
StreamsWhole ==
    /\ result.type = "exit" /\ result.code # 127 =>
           proc = "reaped" /\ result.code = code /\ got = written
    /\ proc = "alive" /\ daemon # "killed" /\ ~stdin.open /\ stdin.held = 0 =>
           sent.close /\ stdin.read = sent.stdin

\* A shim that says the daemon is not running, which may be no error at all
\* (on_unreachable: warn), has not had its command run (client.go:181), as long as
\* the connection held and no daemon was killed.
UnreachableNotRun ==
    result.type = "unreachable" /\ conn # "cut" /\ daemon # "killed" => proc = "none"

\* A daemon that has closed leaves no command behind (daemon.go:195).
ClosedLeavesNothing == daemon = "closed" => proc \in {"none", "reaped"}

\* The reader of the connection waits in a write to the command's stdin, which is
\* full, and sees neither the signals nor the end of the connection.
StdinFull == pump = "write" /\ stdin.held = PipeCap

\* The comment on pumpConn (session.go:148): when the container dies "the
\* subprocess gets SIGTERM, the grace window, then SIGKILL".  So it ends, whatever it
\* does with its signals.  It does not when its stdin is full (StdinFull), and
\* BridgeSessionFull shows it.
LostCommandEnds ==
    proc = "alive" /\ conn = "cut" ~> proc # "alive" \/ daemon = "killed"

\* What is true of it (session.go:159): the only command that outlives its container
\* for ever is one that leaves its stdin full for ever.
LostCommandHoldsStdin ==
    <>[](proc = "alive" /\ conn = "cut" /\ daemon # "killed") => <>[]StdinFull

\* A close that never ends (daemon.go:195, which has no bound) waits for a command:
\* for one whose client is still there, or for one that leaves its stdin full.  It
\* does not wait for a connection that says nothing (session.go:20), nor for one that
\* is gone while its reader can see that.
CloseWaitsForCommands ==
    <>[](daemon = "closing") => <>[](proc = "alive" /\ (conn = "open" \/ StdinFull))

\* A shim whose command or session has ended returns (client.go:183).
ShimReturns ==
    shim = "reading" /\ (proc \in {"dead", "reaped"} \/ ses = "over") ~> shim # "reading"
=============================================================================
