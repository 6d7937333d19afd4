---------------------------- MODULE BridgeProofs ----------------------------
(***************************************************************************)
(* Proofs about the host bridge.  First one bridged command, for any       *)
(* number of chunks and signals and any capacity of the pipes and of the   *)
(* connection; then the life of the daemon.  The two share no variable.    *)
(***************************************************************************)
EXTENDS BridgeSession, BridgeDaemon, FiniteSetTheorems, TLAPS

-----------------------------------------------------------------------------
(* How many frames of a type are under way.                                *)

Places(s, t) == {i \in 1 .. Len(s) : s[i].type = t}
Count(s, t) == Cardinality(Places(s, t))

LEMMA PlacesFinite ==
    ASSUME NEW S, NEW s \in Seq(S), NEW t
    PROVE  IsFiniteSet(Places(s, t)) /\ Count(s, t) \in Nat
  <1>1. IsFiniteSet(1 .. Len(s)) /\ Places(s, t) \subseteq 1 .. Len(s)
    BY FS_Interval DEF Places
  <1> QED
    BY <1>1, FS_Subset, FS_CardinalityType DEF Count

LEMMA CountNone ==
    ASSUME NEW S, NEW s \in Seq(S), NEW t, \A i \in 1 .. Len(s) : s[i].type # t
    PROVE  Count(s, t) = 0
  <1>1. Places(s, t) = {}
    BY DEF Places
  <1> QED
    BY <1>1, FS_EmptySet DEF Count

LEMMA CountAppend ==
    ASSUME NEW S, NEW s \in Seq(S), NEW f \in S, NEW t
    PROVE  Count(Append(s, f), t) = IF f.type = t THEN Count(s, t) + 1 ELSE Count(s, t)
  <1>1. CASE f.type = t
    <2>1. Places(Append(s, f), t) = Places(s, t) \cup {Len(s) + 1}
      BY <1>1 DEF Places
    <2>2. Len(s) + 1 \notin Places(s, t)
      BY DEF Places
    <2> QED
      BY <1>1, <2>1, <2>2, PlacesFinite, FS_AddElement, ZenonT(40) DEF Count
  <1>2. CASE f.type # t
    <2>1. Places(Append(s, f), t) = Places(s, t)
      BY <1>2 DEF Places
    <2> QED
      BY <1>2, <2>1 DEF Count
  <1> QED
    BY <1>1, <1>2

LEMMA CountTail ==
    ASSUME NEW S, NEW s \in Seq(S), s # <<>>, NEW t
    PROVE  Count(s, t) = IF Head(s).type = t THEN Count(Tail(s), t) + 1 ELSE Count(Tail(s), t)
  <1> DEFINE A == Places(Tail(s), t)
             B == Places(s, t) \ {1}
             f == [i \in A |-> i + 1]
  <1>1. Tail(s) \in Seq(S) /\ Len(s) \in Nat \ {0} /\ Len(Tail(s)) = Len(s) - 1
        /\ \A i \in 1 .. Len(s) - 1 : Tail(s)[i] = s[i + 1]
    OBVIOUS
  <1>2. f \in Bijection(A, B)
    <2>1. \A i \in A : i + 1 \in B
      BY <1>1 DEF Places
    <2>2. \A j \in B : j - 1 \in A /\ (j - 1) + 1 = j
      BY <1>1 DEF Places
    <2>3. \A i, j \in A : i + 1 = j + 1 => i = j
      BY <1>1 DEF Places
    <2> QED
      BY <2>1, <2>2, <2>3 DEF Bijection, Injection, Surjection, IsInjective
  <1>3. IsFiniteSet(B) /\ Cardinality(B) = Count(Tail(s), t) /\ Count(Tail(s), t) \in Nat
    <2>1. IsFiniteSet(A) /\ Count(Tail(s), t) \in Nat
      BY <1>1, PlacesFinite
    <2>2. ExistsBijection(A, B)
      BY <1>2 DEF ExistsBijection
    <2> HIDE DEF A, B
    <2>3. IsFiniteSet(B) /\ Cardinality(B) = Cardinality(A)
      BY <2>1, <2>2, FS_Bijection
    <2> QED
      BY <2>1, <2>3 DEF A, Count
  <1>4. CASE Head(s).type = t
    <2>1. Places(s, t) = B \cup {1} /\ 1 \notin B
      BY <1>1, <1>4 DEF Places
    <2> HIDE DEF B
    <2> QED
      BY <1>3, <1>4, <2>1, FS_AddElement DEF Count
  <1>5. CASE Head(s).type # t
    <2>1. Places(s, t) = B
      BY <1>1, <1>5 DEF Places
    <2> QED
      BY <1>3, <1>5, <2>1 DEF Count
  <1> QED
    BY <1>4, <1>5

\* What is cut off does not count when it holds nothing of the type.
LEMMA CountPrefix ==
    ASSUME NEW S, NEW s \in Seq(S), NEW n \in 0 .. Len(s), NEW t,
           \A i \in 1 .. Len(s) : i > n => s[i].type # t
    PROVE  Count(SubSeq(s, 1, n), t) = Count(s, t)
  <1>1. Places(SubSeq(s, 1, n), t) = Places(s, t)
    BY DEF Places
  <1> QED
    BY <1>1 DEF Count

LEMMA CountFewer ==
    ASSUME NEW S, NEW s \in Seq(S), NEW n \in 0 .. Len(s), NEW t
    PROVE  Count(SubSeq(s, 1, n), t) <= Count(s, t)
  <1>1. Places(SubSeq(s, 1, n), t) \subseteq Places(s, t)
    BY DEF Places
  <1> QED
    BY <1>1, PlacesFinite, FS_Subset DEF Count

LEMMA Bounds ==
    /\ MaxOut \in Nat /\ MaxIn \in Nat /\ MaxSignals \in Nat
    /\ PipeCap \in Nat \ {0} /\ NetCap \in Nat \ {0}
  BY SessionAssumption

-----------------------------------------------------------------------------
(* The invariant.                                                          *)

Starting == {"none", "check", "hello", "launch"}
AtWork == {"check", "hello", "launch", "running", "reaped"}

UpFrames == {Frame(t) : t \in {"hello", "stdin", "close", "signal"}}

Stdin == [open : BOOLEAN, held : 0 .. PipeCap, read : 0 .. MaxIn]

TypeInv ==
    /\ TypeOK
    /\ sent \in [stdin : 0 .. MaxIn, close : BOOLEAN, signals : Nat]
    /\ got \in [Outputs -> Nat]
    /\ stdin \in Stdin

\* Where the shim and the session are, by how the connection is.
ConnInv ==
    /\ conn = "none" => ses = "none" \/ (ses = "over" /\ daemon = "killed")
    /\ conn = "dialled" => ses = "none" /\ daemon = "up"
    /\ conn = "open" => ses \in AtWork
    /\ conn = "shut" => ses \in {"none", "over"}
    /\ ses \in AtWork => daemon \in {"up", "closing"}
    /\ shim = "start" => conn = "none" /\ down = <<>>
    /\ shim \in {"start", "hello"} =>
          up = <<>> /\ proc = "none" /\ ses \notin {"launch", "running", "reaped"}
    /\ shim # "done" => result = Frame("none")

\* The command is the session's, which reaps it before it is over, unless the
\* daemon is killed.
ProcInv ==
    /\ ses \in Starting => proc = "none" /\ pump = "none" /\ stdin.open
    /\ ses = "running" => proc \in {"alive", "dead"}
    /\ ses = "reaped" => proc = "reaped" /\ outs = {}
    /\ proc \in {"alive", "dead"} => ses = "running" \/ daemon = "killed"
    /\ proc = "none" => \A o \in Outputs : written[o] = 0 /\ pipe[o] = 0
    /\ ses \in {"running", "reaped"} =>
          \A o \in Outputs \ outs : pipe[o] = 0 /\ proc \in {"dead", "reaped"}
    /\ daemon = "closed" => ses \in {"none", "over"}
    /\ conn \in {"none", "dialled"} => proc = "none"

\* A session answers before it closes the connection.
AnswerInv ==
    /\ conn = "shut" /\ ses = "over" /\ daemon # "killed" /\ shim \in {"hello", "reading"} =>
          gotFrame \/ down # <<>>
    /\ result.type = "unreachable" => conn \in {"none", "shut", "cut"}
    /\ UnreachableNotRun

\* Only the last frame ends the shim, and it is sent when the session is over.
Ends(frame) == frame.type \in {"exit", "error"}
OrderInv ==
    /\ \A i \in 1 .. Len(down) : Ends(down[i]) => i = Len(down) /\ ses = "over"
    /\ conn \in {"none", "dialled", "open"} /\ ses \in Starting =>
          down = <<>> /\ \A o \in Outputs : got[o] = 0

\* What the command wrote is in its pipe, on the connection or at the shim.
Whole(o) == got[o] + Count(down, o) + pipe[o] = written[o]
OutputInv ==
    /\ conn \in {"none", "dialled", "open"} =>
          connOK = Outputs /\ \A o \in Outputs : Whole(o)
    /\ \A i \in 1 .. Len(down) : down[i].type = "exit" /\ down[i].code # 127 =>
          proc = "reaped" /\ down[i].code = code
          /\ \A o \in Outputs : got[o] + Count(down, o) = written[o]
    /\ result.type = "exit" /\ result.code # 127 =>
          proc = "reaped" /\ result.code = code /\ got = written

\* What the shim has sent of its stdin is on the connection, with pumpConn, in
\* the pipe or read; some of it may be lost, but never before its end.
Feeding == ses \in Starting \/ (ses = "running" /\ proc = "alive")
Held == stdin.read + stdin.held + IF pump = "write" THEN 1 ELSE 0
AllThere == Held + Count(up, "stdin") = sent.stdin
InputInv ==
    /\ Held + Count(up, "stdin") <= sent.stdin
    /\ pump = "write" => stdin.open
    /\ \A i \in 1 .. Len(up) : up[i].type = "close" =>
          sent.close /\ \A j \in 1 .. Len(up) : j > i => up[j].type # "stdin"
    /\ Feeding /\ conn # "cut" => AllThere
    /\ Feeding /\ (\E i \in 1 .. Len(up) : up[i].type = "close") => AllThere
    /\ Feeding /\ ~stdin.open =>
          sent.close /\ AllThere /\ \A i \in 1 .. Len(up) : up[i].type # "stdin"

Inv ==
    /\ TypeInv /\ ConnInv /\ ProcInv /\ AnswerInv
    /\ OrderInv /\ OutputInv /\ InputInv
-----------------------------------------------------------------------------
(* The two directions of the connection, after a frame is put or taken.    *)

UpGains(f) ==
    /\ up' \in Seq(UpFrames) /\ Len(up') = Len(up) + 1 /\ Len(up) \in Nat
    /\ \A i \in 1 .. Len(up) : up'[i] = up[i]
    /\ up'[Len(up) + 1] = f
    /\ Count(up, "stdin") \in Nat
    /\ Count(up', "stdin") =
          IF f.type = "stdin" THEN Count(up, "stdin") + 1 ELSE Count(up, "stdin")

UpLoses ==
    /\ up' \in Seq(UpFrames) /\ Len(up) = Len(up') + 1 /\ Len(up') \in Nat
    /\ \A i \in 1 .. Len(up') : up'[i] = up[i + 1] /\ i + 1 \in 1 .. Len(up)
    /\ Head(up) = up[1] /\ 1 \in 1 .. Len(up)
    /\ Count(up', "stdin") \in Nat
    /\ Count(up, "stdin") =
          IF Head(up).type = "stdin" THEN Count(up', "stdin") + 1 ELSE Count(up', "stdin")

DownGains(f) ==
    /\ down' \in Seq(DownFrames) /\ Len(down') = Len(down) + 1 /\ Len(down) \in Nat
    /\ \A i \in 1 .. Len(down) : down'[i] = down[i]
    /\ down'[Len(down) + 1] = f /\ down' # <<>>
    /\ \A o \in Outputs :
          /\ Count(down, o) \in Nat
          /\ Count(down', o) = IF f.type = o THEN Count(down, o) + 1 ELSE Count(down, o)

DownLoses ==
    /\ down' \in Seq(DownFrames) /\ Len(down) = Len(down') + 1 /\ Len(down') \in Nat
    /\ \A i \in 1 .. Len(down') : down'[i] = down[i + 1] /\ i + 1 \in 1 .. Len(down)
    /\ Head(down) = down[1] /\ 1 \in 1 .. Len(down) /\ Head(down) \in DownFrames
    /\ \A o \in Outputs :
          /\ Count(down', o) \in Nat
          /\ Count(down, o) =
                IF Head(down).type = o THEN Count(down', o) + 1 ELSE Count(down', o)

LEMMA UpPut ==
    ASSUME Inv, NEW f \in UpFrames, up' = Append(up, f)
    PROVE  UpGains(f)
  <1>1. up \in Seq(UpFrames)
    BY DEF Inv, TypeInv, TypeOK, UpFrames
  <1>2. Count(up, "stdin") \in Nat
    BY <1>1, PlacesFinite
  <1>3. Count(up', "stdin") =
           IF f.type = "stdin" THEN Count(up, "stdin") + 1 ELSE Count(up, "stdin")
    BY <1>1, CountAppend
  <1> QED
    BY <1>1, <1>2, <1>3 DEF UpGains

LEMMA UpTaken ==
    ASSUME Inv, up # <<>>, up' = Tail(up)
    PROVE  UpLoses
  <1>1. up \in Seq(UpFrames)
    BY DEF Inv, TypeInv, TypeOK, UpFrames
  <1>2. /\ up' \in Seq(UpFrames) /\ Len(up) = Len(up') + 1 /\ Len(up') \in Nat
        /\ \A i \in 1 .. Len(up') : up'[i] = up[i + 1] /\ i + 1 \in 1 .. Len(up)
        /\ Head(up) = up[1] /\ 1 \in 1 .. Len(up)
    BY <1>1
  <1>3. Count(up', "stdin") \in Nat
    BY <1>2, PlacesFinite
  <1>4. Count(up, "stdin") =
           IF Head(up).type = "stdin" THEN Count(up', "stdin") + 1 ELSE Count(up', "stdin")
    BY <1>1, CountTail
  <1> QED
    BY <1>2, <1>3, <1>4 DEF UpLoses

LEMMA DownPut ==
    ASSUME Inv, NEW f \in DownFrames, down' = down \o <<f>>
    PROVE  DownGains(f)
  <1>1. down \in Seq(DownFrames)
    BY DEF Inv, TypeInv, TypeOK
  <1>2. down' = Append(down, f)
    BY <1>1
  <1>3. ASSUME NEW o \in Outputs
        PROVE  /\ Count(down, o) \in Nat
               /\ Count(down', o) = IF f.type = o THEN Count(down, o) + 1 ELSE Count(down, o)
    <2>1. Count(down, o) \in Nat
      BY <1>1, PlacesFinite
    <2>2. Count(Append(down, f), o) =
             IF f.type = o THEN Count(down, o) + 1 ELSE Count(down, o)
      BY <1>1, CountAppend
    <2> QED
      BY <1>2, <2>1, <2>2
  <1> QED
    BY <1>1, <1>2, <1>3 DEF DownGains

LEMMA DownTaken ==
    ASSUME Inv, down # <<>>, down' = Tail(down)
    PROVE  DownLoses
  <1>1. down \in Seq(DownFrames)
    BY DEF Inv, TypeInv, TypeOK
  <1>2. /\ down' \in Seq(DownFrames) /\ Len(down) = Len(down') + 1 /\ Len(down') \in Nat
        /\ \A i \in 1 .. Len(down') : down'[i] = down[i + 1] /\ i + 1 \in 1 .. Len(down)
        /\ Head(down) = down[1] /\ 1 \in 1 .. Len(down) /\ Head(down) \in DownFrames
    BY <1>1
  <1>3. ASSUME NEW o \in Outputs
        PROVE  /\ Count(down', o) \in Nat
               /\ Count(down, o) =
                     IF Head(down).type = o THEN Count(down', o) + 1 ELSE Count(down', o)
    <2>1. Count(down', o) \in Nat
      BY <1>2, PlacesFinite
    <2>2. Count(down, o) =
             IF Head(down).type = o THEN Count(down', o) + 1 ELSE Count(down', o)
      BY <1>1, CountTail
    <2> QED
      BY <2>1, <2>2
  <1> QED
    BY <1>2, <1>3 DEF DownLoses

-----------------------------------------------------------------------------
(* The command's stdin, after it is written to or read from.               *)

LEMMA PumpWriteStdin ==
    ASSUME Inv, PumpWrite
    PROVE  /\ stdin' \in Stdin /\ stdin'.read = stdin.read
           /\ \/ stdin'.open = FALSE /\ stdin'.held = stdin.held /\ proc # "alive"
              \/ stdin'.open = stdin.open /\ stdin'.held = stdin.held + 1
  <1>1. CASE proc = "alive"
    BY <1>1, Bounds DEF PumpWrite, Inv, TypeInv, Stdin
  <1>2. CASE proc # "alive"
    BY <1>2, Bounds DEF PumpWrite, Inv, TypeInv, Stdin
  <1> QED
    BY <1>1, <1>2

LEMMA CommandReadsStdin ==
    ASSUME Inv, CommandReads
    PROVE  /\ stdin' \in Stdin /\ stdin'.open = stdin.open
           /\ stdin'.read = stdin.read + 1 /\ stdin'.held = stdin.held - 1
  <1>1. Count(up, "stdin") \in Nat
    BY PlacesFinite DEF Inv, TypeInv, TypeOK
  <1>2. stdin.read + 1 \in 0 .. MaxIn
    BY Bounds, <1>1 DEF CommandReads, Inv, TypeInv, InputInv, Held, Stdin
  <1>3. stdin.held - 1 \in 0 .. PipeCap
    BY Bounds DEF CommandReads, Inv, TypeInv, Stdin
  <1>4. stdin' = [stdin EXCEPT !.held = stdin.held - 1, !.read = stdin.read + 1]
    BY DEF CommandReads
  <1>5. stdin \in Stdin
    BY DEF Inv, TypeInv
  <1> QED
    BY <1>2, <1>3, <1>4, <1>5 DEF Stdin

\* What the leaves about the input direction need of the types.
LEMMA InputTypes ==
    ASSUME Inv
    PROVE  /\ Held \in Nat /\ sent.stdin \in Nat /\ up \in Seq(UpFrames)
           /\ Count(up, "stdin") \in Nat /\ Len(up) \in Nat
  <1>1. stdin.read \in Nat /\ stdin.held \in Nat /\ sent.stdin \in Nat
    BY Bounds DEF Inv, TypeInv, Stdin
  <1>2. up \in Seq(UpFrames)
    BY DEF Inv, TypeInv, TypeOK, UpFrames
  <1>3. Held \in Nat
    BY <1>1 DEF Held
  <1> QED
    BY <1>1, <1>2, <1>3, PlacesFinite

-----------------------------------------------------------------------------
(* The shim.                                                               *)

LEMMA DialPreserves ==
    ASSUME Inv, Dial
    PROVE  Inv'
  <1>1. TypeInv'
    BY Bounds DEF Inv, TypeInv, TypeOK, Outputs, ConnInv, ProcInv, InputInv, Held, Stdin,
       Dial, Return, daemonVars, procVars, Frame
  <1>2. ConnInv'
    BY Bounds DEF Inv, ConnInv, AtWork, TypeInv, TypeOK, Dial, Return, daemonVars, procVars,
       Frame
  <1>3. ProcInv'
    BY Bounds DEF Inv, ProcInv, Starting, Outputs, ConnInv, AtWork, TypeInv, TypeOK, Dial,
       Return, daemonVars, procVars, Frame
  <1>4. AnswerInv'
    BY Bounds DEF Inv, AnswerInv, UnreachableNotRun, ConnInv, AtWork, ProcInv, TypeInv,
       TypeOK, Dial, Return, daemonVars, procVars, Frame
  <1>5. OrderInv'
    BY Bounds DEF Inv, OrderInv, Ends, Outputs, TypeInv, TypeOK, ConnInv, AtWork, Starting,
       Dial, Return, daemonVars, procVars, Frame
  <1>6. OutputInv'
    BY Bounds DEF Inv, OutputInv, Whole, Outputs, TypeInv, TypeOK, ConnInv, AtWork, ProcInv,
       Starting, OrderInv, Dial, Return, daemonVars, procVars, Frame
  <1>7. InputInv'
    BY Bounds DEF Inv, InputInv, Feeding, Held, Stdin, AllThere, Starting, TypeInv, TypeOK,
       ConnInv, ProcInv, AtWork, Dial, Return, daemonVars, procVars, Frame
  <1> QED
    BY <1>1, <1>2, <1>3, <1>4, <1>5, <1>6, <1>7 DEF Inv

LEMMA ProxyDialPreserves ==
    ASSUME Inv, ProxyDial
    PROVE  Inv'
  <1>1. TypeInv'
    BY Bounds DEF Inv, TypeInv, TypeOK, Outputs, ConnInv, ProcInv, InputInv, Held, Stdin,
       ProxyDial, daemonVars, procVars, Frame
  <1>2. ConnInv'
    BY Bounds DEF Inv, ConnInv, AtWork, TypeInv, TypeOK, ProxyDial, daemonVars, procVars,
       Frame
  <1>3. ProcInv'
    BY Bounds DEF Inv, ProcInv, Starting, Outputs, ConnInv, AtWork, TypeInv, TypeOK,
       ProxyDial, daemonVars, procVars, Frame
  <1>4. AnswerInv'
    BY Bounds DEF Inv, AnswerInv, UnreachableNotRun, ConnInv, AtWork, ProcInv, TypeInv,
       TypeOK, ProxyDial, daemonVars, procVars, Frame
  <1>5. OrderInv'
    BY Bounds DEF Inv, OrderInv, Ends, Outputs, TypeInv, TypeOK, ConnInv, AtWork, Starting,
       ProxyDial, daemonVars, procVars, Frame
  <1>6. OutputInv'
    BY Bounds DEF Inv, OutputInv, Whole, Outputs, TypeInv, TypeOK, ConnInv, AtWork, ProcInv,
       Starting, OrderInv, ProxyDial, daemonVars, procVars, Frame
  <1>7. InputInv'
    BY Bounds DEF Inv, InputInv, Feeding, Held, Stdin, AllThere, Starting, TypeInv, TypeOK,
       ConnInv, ProcInv, AtWork, ProxyDial, daemonVars, procVars, Frame
  <1> QED
    BY <1>1, <1>2, <1>3, <1>4, <1>5, <1>6, <1>7 DEF Inv

LEMMA SendHelloPreserves ==
    ASSUME Inv, SendHello
    PROVE  Inv'
  <1>1. conn \in {"dialled", "open"} => UpGains(Frame("hello"))
    <2>1. Frame("hello") \in UpFrames
      BY DEF UpFrames
    <2> QED
      BY <2>1, UpPut DEF SendHello
  <1>2. TypeInv'
    <2>1. up' \in Seq(UpFrames) /\ Len(up') <= NetCap + 1
      <3>1. up \in Seq(UpFrames) /\ Len(up) <= NetCap + 1
        BY DEF Inv, TypeInv, TypeOK, UpFrames
      <3>2. up = <<>>
        BY DEF SendHello, Inv, ConnInv
      <3>3. UpGains(Frame("hello")) \/ up' = up
        BY <1>1 DEF SendHello
      <3> QED
        <4>1. CASE up' = up
          BY <3>1, <4>1
        <4>2. CASE UpGains(Frame("hello"))
          BY <3>2, <4>2, Bounds DEF UpGains
        <4> QED
          BY <3>3, <4>1, <4>2
    <2>2. down' \in Seq(DownFrames) /\ Len(down') <= NetCap + 2
      BY <1>1, Bounds DEF Inv, TypeInv, TypeOK, OrderInv, Starting, SendHello, Return,
         UpGains
    <2>3. {gotFrame, told}' \subseteq BOOLEAN
      <3>1. gotFrame \in BOOLEAN /\ told \in BOOLEAN
        BY DEF Inv, TypeInv, TypeOK
      <3> QED
        BY <3>1, Zenon DEF SendHello, Return, UpGains, procVars, daemonVars
    <2>4. /\ daemon' \in {"up", "closing", "closed", "killed"}
          /\ conn' \in {"none", "dialled", "open", "shut", "cut"}
          /\ shim' \in {"start", "hello", "reading", "done", "dead"}
          /\ ses' \in {"none", "check", "hello", "launch", "running", "reaped", "over"}
          /\ pump' \in {"none", "read", "write", "terminate", "grace", "done"}
          /\ outs' \subseteq Outputs /\ connOK' \subseteq Outputs
          /\ proc' \in {"none", "alive", "dead", "reaped"} /\ code' \in Codes
      BY <1>1, Bounds DEF Inv, TypeInv, TypeOK, Codes, SendHello, Return, UpGains,
         daemonVars, procVars
    <2>5. result' \in {Frame(t) : t \in {"none", "unreachable", "lost"}} \cup DownFrames
      BY <1>1, Bounds DEF Inv, TypeInv, TypeOK, SendHello, Return, UpGains, daemonVars,
         procVars
    <2>6. /\ stdin'.held \in 0 .. PipeCap /\ stdin'.read \in 0 .. MaxIn
          /\ stdin' \in Stdin
      BY <1>1, Bounds, PlacesFinite DEF Inv, TypeInv, TypeOK, InputInv, Held, Stdin,
         SendHello, Return, UpGains, daemonVars, procVars
    <2>7. pipe' \in [Outputs -> 0 .. PipeCap] /\ written' \in [Outputs -> 0 .. MaxOut]
      BY <1>1, Bounds DEF Inv, TypeInv, TypeOK, SendHello, Return, UpGains, daemonVars,
         procVars
    <2>8. /\ sent' \in [stdin : 0 .. MaxIn, close : BOOLEAN, signals : Nat]
          /\ got' \in [Outputs -> Nat]
      BY <1>1, Bounds DEF Inv, TypeInv, TypeOK, SendHello, Return, UpGains, daemonVars,
         procVars
    <2> QED
      BY <2>1, <2>2, <2>3, <2>4, <2>5, <2>6, <2>7, <2>8 DEF TypeInv, TypeOK, UpFrames
  <1>3. ConnInv'
    BY <1>1, Bounds DEF Inv, ConnInv, AtWork, TypeInv, TypeOK, SendHello, Return, UpGains,
       daemonVars, procVars, Frame
  <1>4. ProcInv'
    BY <1>1, Bounds DEF Inv, ProcInv, Starting, Outputs, ConnInv, AtWork, TypeInv, TypeOK,
       SendHello, Return, UpGains, daemonVars, procVars, Frame
  <1>5. AnswerInv'
    BY <1>1, Bounds DEF Inv, AnswerInv, UnreachableNotRun, ConnInv, AtWork, ProcInv,
       TypeInv, TypeOK, SendHello, Return, UpGains, daemonVars, procVars, Frame
  <1>6. OrderInv'
    BY <1>1, Bounds DEF Inv, OrderInv, Ends, Outputs, TypeInv, TypeOK, ConnInv, AtWork,
       Starting, SendHello, Return, UpGains, daemonVars, procVars, Frame
  <1>7. OutputInv'
    BY <1>1, Bounds DEF Inv, OutputInv, Whole, Outputs, TypeInv, TypeOK, ConnInv, AtWork,
       ProcInv, Starting, OrderInv, SendHello, Return, UpGains, daemonVars, procVars, Frame
  <1>8. InputInv'
    BY <1>1, Bounds DEF Inv, InputInv, Feeding, Held, Stdin, AllThere, Starting, TypeInv,
       TypeOK, ConnInv, ProcInv, AtWork, SendHello, Return, UpGains, daemonVars, procVars,
       Frame
  <1> QED
    BY <1>2, <1>3, <1>4, <1>5, <1>6, <1>7, <1>8 DEF Inv

LEMMA HelloTooLargePreserves ==
    ASSUME Inv, HelloTooLarge
    PROVE  Inv'
  <1>1. TypeInv'
    BY Bounds DEF Inv, TypeInv, TypeOK, Outputs, ConnInv, ProcInv, InputInv, Held, Stdin,
       HelloTooLarge, Return, daemonVars, procVars, Frame
  <1>2. ConnInv'
    BY Bounds DEF Inv, ConnInv, AtWork, TypeInv, TypeOK, HelloTooLarge, Return, daemonVars,
       procVars, Frame
  <1>3. ProcInv'
    BY Bounds DEF Inv, ProcInv, Starting, Outputs, ConnInv, AtWork, TypeInv, TypeOK,
       HelloTooLarge, Return, daemonVars, procVars, Frame
  <1>4. AnswerInv'
    BY Bounds DEF Inv, AnswerInv, UnreachableNotRun, ConnInv, AtWork, ProcInv, TypeInv,
       TypeOK, HelloTooLarge, Return, daemonVars, procVars, Frame
  <1>5. OrderInv'
    BY Bounds DEF Inv, OrderInv, Ends, Outputs, TypeInv, TypeOK, ConnInv, AtWork, Starting,
       HelloTooLarge, Return, daemonVars, procVars, Frame
  <1>6. OutputInv'
    BY Bounds DEF Inv, OutputInv, Whole, Outputs, TypeInv, TypeOK, ConnInv, AtWork, ProcInv,
       Starting, OrderInv, HelloTooLarge, Return, daemonVars, procVars, Frame
  <1>7. InputInv'
    BY Bounds DEF Inv, InputInv, Feeding, Held, Stdin, AllThere, Starting, TypeInv, TypeOK,
       ConnInv, ProcInv, AtWork, HelloTooLarge, Return, daemonVars, procVars, Frame
  <1> QED
    BY <1>1, <1>2, <1>3, <1>4, <1>5, <1>6, <1>7 DEF Inv

LEMMA SendStdinPreserves ==
    ASSUME Inv, SendStdin
    PROVE  Inv'
  <1>1. UpGains(Frame("stdin"))
    <2>1. Frame("stdin") \in UpFrames
      BY DEF UpFrames
    <2> QED
      BY <2>1, UpPut DEF SendStdin, Send
  <1>2. /\ sent' \in [stdin : 0 .. MaxIn, close : BOOLEAN, signals : Nat]
        /\ sent'.stdin = sent.stdin + 1 /\ sent'.close = sent.close
    BY Bounds DEF SendStdin, Send, Inv, TypeInv
  <1>3. TypeInv'
    <2>1. up' \in Seq(UpFrames) /\ Len(up') <= NetCap + 1
      BY <1>1, <1>2, Bounds DEF Inv, TypeInv, TypeOK, UpFrames, ConnInv, SendStdin, Send,
         UpGains
    <2>2. down' \in Seq(DownFrames) /\ Len(down') <= NetCap + 2
      BY <1>1, <1>2, Bounds DEF Inv, TypeInv, TypeOK, OrderInv, Starting, SendStdin, Send,
         UpGains
    <2>3. {gotFrame, told}' \subseteq BOOLEAN
      <3>1. gotFrame \in BOOLEAN /\ told \in BOOLEAN
        BY DEF Inv, TypeInv, TypeOK
      <3> QED
        BY <3>1, Zenon DEF SendStdin, Send, UpGains, procVars, daemonVars
    <2>4. /\ daemon' \in {"up", "closing", "closed", "killed"}
          /\ conn' \in {"none", "dialled", "open", "shut", "cut"}
          /\ shim' \in {"start", "hello", "reading", "done", "dead"}
          /\ ses' \in {"none", "check", "hello", "launch", "running", "reaped", "over"}
          /\ pump' \in {"none", "read", "write", "terminate", "grace", "done"}
          /\ outs' \subseteq Outputs /\ connOK' \subseteq Outputs
          /\ proc' \in {"none", "alive", "dead", "reaped"} /\ code' \in Codes
      BY <1>1, <1>2, Bounds, SMTT(20) DEF Inv, TypeInv, TypeOK, Codes, SendStdin, Send,
         UpGains,
         daemonVars, procVars
    <2>5. result' \in {Frame(t) : t \in {"none", "unreachable", "lost"}} \cup DownFrames
      BY <1>1, <1>2, Bounds DEF Inv, TypeInv, TypeOK, SendStdin, Send, UpGains, daemonVars,
         procVars
    <2>6. /\ stdin'.held \in 0 .. PipeCap /\ stdin'.read \in 0 .. MaxIn
          /\ stdin' \in Stdin
      BY <1>1, <1>2, Bounds, PlacesFinite DEF Inv, TypeInv, TypeOK, InputInv, Held, Stdin,
         SendStdin, Send, UpGains, daemonVars, procVars
    <2>7. pipe' \in [Outputs -> 0 .. PipeCap] /\ written' \in [Outputs -> 0 .. MaxOut]
      BY <1>1, <1>2, Bounds DEF Inv, TypeInv, TypeOK, SendStdin, Send, UpGains, daemonVars,
         procVars
    <2>8. /\ sent' \in [stdin : 0 .. MaxIn, close : BOOLEAN, signals : Nat]
          /\ got' \in [Outputs -> Nat]
      BY <1>1, <1>2, Bounds DEF Inv, TypeInv, TypeOK, SendStdin, Send, UpGains, daemonVars,
         procVars
    <2> QED
      BY <2>1, <2>2, <2>3, <2>4, <2>5, <2>6, <2>7, <2>8 DEF TypeInv, TypeOK, UpFrames
  <1>4. ConnInv'
    BY <1>1, <1>2, Bounds DEF Inv, ConnInv, AtWork, TypeInv, TypeOK, SendStdin, Send,
       UpGains, daemonVars, procVars, Frame
  <1>5. ProcInv'
    BY <1>1, <1>2, Bounds DEF Inv, ProcInv, Starting, Outputs, ConnInv, AtWork, TypeInv,
       TypeOK, SendStdin, Send, UpGains, daemonVars, procVars, Frame
  <1>6. AnswerInv'
    BY <1>1, <1>2, Bounds DEF Inv, AnswerInv, UnreachableNotRun, ConnInv, AtWork, ProcInv,
       TypeInv, TypeOK, SendStdin, Send, UpGains, daemonVars, procVars, Frame
  <1>7. OrderInv'
    BY <1>1, <1>2, Bounds DEF Inv, OrderInv, Ends, Outputs, TypeInv, TypeOK, ConnInv,
       AtWork, Starting, SendStdin, Send, UpGains, daemonVars, procVars, Frame
  <1>8. OutputInv'
    BY <1>1, <1>2, Bounds DEF Inv, OutputInv, Whole, Outputs, TypeInv, TypeOK, ConnInv,
       AtWork, ProcInv, Starting, OrderInv, SendStdin, Send, UpGains, daemonVars, procVars,
       Frame
  <1>9. InputInv'
    <2>1. /\ Held \in Nat /\ sent.stdin \in Nat /\ up \in Seq(UpFrames)
          /\ Count(up, "stdin") \in Nat /\ Len(up) \in Nat /\ InputInv
      BY InputTypes DEF Inv
    <2>2. /\ Held' = Held /\ Feeding' = Feeding /\ conn' = conn /\ ~sent.close
          /\ pump' = pump /\ stdin' = stdin
      BY DEF SendStdin, Send, Held, Feeding, daemonVars, procVars
    <2>3. Held' + Count(up', "stdin") <= sent'.stdin
      BY <1>1, <1>2, <2>1, <2>2 DEF InputInv, AllThere, Frame, UpGains
    <2>4. pump' = "write" => stdin'.open
      BY <1>1, <1>2, <2>1, <2>2 DEF InputInv, AllThere, Frame, UpGains
    <2>5. \A i \in 1 .. Len(up') : up'[i].type = "close" =>
             sent'.close /\ \A j \in 1 .. Len(up') : j > i => up'[j].type # "stdin"
      BY <1>1, <1>2, <2>1, <2>2 DEF InputInv, AllThere, Frame, UpGains
    <2>6. Feeding' /\ conn' # "cut" => AllThere'
      BY <1>1, <1>2, <2>1, <2>2 DEF InputInv, AllThere, Frame, UpGains
    <2>7. Feeding' /\ (\E i \in 1 .. Len(up') : up'[i].type = "close") => AllThere'
      <3>1. \A i \in 1 .. Len(up') : i \in 1 .. Len(up) \/ i = Len(up) + 1
        BY <1>1, <2>1 DEF UpGains
      <3> QED
        BY <1>1, <1>2, <2>1, <2>2, <3>1 DEF InputInv, Frame, UpGains
    <2>8. Feeding' /\ ~stdin'.open =>
             sent'.close /\ AllThere' /\ \A i \in 1 .. Len(up') : up'[i].type # "stdin"
      BY <1>1, <1>2, <2>1, <2>2 DEF InputInv, AllThere, Frame, UpGains
    <2> QED
      BY <2>3, <2>4, <2>5, <2>6, <2>7, <2>8 DEF InputInv
  <1> QED
    BY <1>3, <1>4, <1>5, <1>6, <1>7, <1>8, <1>9 DEF Inv

LEMMA SendClosePreserves ==
    ASSUME Inv, SendClose
    PROVE  Inv'
  <1>1. UpGains(Frame("close"))
    <2>1. Frame("close") \in UpFrames
      BY DEF UpFrames
    <2> QED
      BY <2>1, UpPut DEF SendClose, Send
  <1>2. TypeInv'
    <2>1. up' \in Seq(UpFrames) /\ Len(up') <= NetCap + 1
      BY <1>1, Bounds DEF Inv, TypeInv, TypeOK, UpFrames, ConnInv, SendClose, Send, UpGains
    <2>2. down' \in Seq(DownFrames) /\ Len(down') <= NetCap + 2
      BY <1>1, Bounds DEF Inv, TypeInv, TypeOK, OrderInv, Starting, SendClose, Send, UpGains
    <2>3. {gotFrame, told}' \subseteq BOOLEAN
      <3>1. gotFrame \in BOOLEAN /\ told \in BOOLEAN
        BY DEF Inv, TypeInv, TypeOK
      <3> QED
        BY <3>1, Zenon DEF SendClose, Send, UpGains, procVars, daemonVars
    <2>4. /\ daemon' \in {"up", "closing", "closed", "killed"}
          /\ conn' \in {"none", "dialled", "open", "shut", "cut"}
          /\ shim' \in {"start", "hello", "reading", "done", "dead"}
          /\ ses' \in {"none", "check", "hello", "launch", "running", "reaped", "over"}
          /\ pump' \in {"none", "read", "write", "terminate", "grace", "done"}
          /\ outs' \subseteq Outputs /\ connOK' \subseteq Outputs
          /\ proc' \in {"none", "alive", "dead", "reaped"} /\ code' \in Codes
      BY <1>1, Bounds DEF Inv, TypeInv, TypeOK, Codes, SendClose, Send, UpGains, daemonVars,
         procVars
    <2>5. result' \in {Frame(t) : t \in {"none", "unreachable", "lost"}} \cup DownFrames
      BY <1>1, Bounds DEF Inv, TypeInv, TypeOK, SendClose, Send, UpGains, daemonVars,
         procVars
    <2>6. /\ stdin'.held \in 0 .. PipeCap /\ stdin'.read \in 0 .. MaxIn
          /\ stdin' \in Stdin
      BY <1>1, Bounds, PlacesFinite DEF Inv, TypeInv, TypeOK, InputInv, Held, Stdin,
         SendClose, Send, UpGains, daemonVars, procVars
    <2>7. pipe' \in [Outputs -> 0 .. PipeCap] /\ written' \in [Outputs -> 0 .. MaxOut]
      BY <1>1, Bounds DEF Inv, TypeInv, TypeOK, SendClose, Send, UpGains, daemonVars,
         procVars
    <2>8. /\ sent' \in [stdin : 0 .. MaxIn, close : BOOLEAN, signals : Nat]
          /\ got' \in [Outputs -> Nat]
      BY <1>1, Bounds DEF Inv, TypeInv, TypeOK, SendClose, Send, UpGains, daemonVars,
         procVars
    <2> QED
      BY <2>1, <2>2, <2>3, <2>4, <2>5, <2>6, <2>7, <2>8 DEF TypeInv, TypeOK, UpFrames
  <1>3. ConnInv'
    BY <1>1, Bounds DEF Inv, ConnInv, AtWork, TypeInv, TypeOK, SendClose, Send, UpGains,
       daemonVars, procVars, Frame
  <1>4. ProcInv'
    BY <1>1, Bounds DEF Inv, ProcInv, Starting, Outputs, ConnInv, AtWork, TypeInv, TypeOK,
       SendClose, Send, UpGains, daemonVars, procVars, Frame
  <1>5. AnswerInv'
    BY <1>1, Bounds DEF Inv, AnswerInv, UnreachableNotRun, ConnInv, AtWork, ProcInv,
       TypeInv, TypeOK, SendClose, Send, UpGains, daemonVars, procVars, Frame
  <1>6. OrderInv'
    BY <1>1, Bounds DEF Inv, OrderInv, Ends, Outputs, TypeInv, TypeOK, ConnInv, AtWork,
       Starting, SendClose, Send, UpGains, daemonVars, procVars, Frame
  <1>7. OutputInv'
    BY <1>1, Bounds DEF Inv, OutputInv, Whole, Outputs, TypeInv, TypeOK, ConnInv, AtWork,
       ProcInv, Starting, OrderInv, SendClose, Send, UpGains, daemonVars, procVars, Frame
  <1>8. InputInv'
    BY <1>1, Bounds, SMTT(20) DEF Inv, InputInv, Feeding, Held, Stdin, AllThere,
       Starting, TypeInv,
       TypeOK, ConnInv, ProcInv, AtWork, SendClose, Send, UpGains, daemonVars, procVars,
       Frame
  <1> QED
    BY <1>2, <1>3, <1>4, <1>5, <1>6, <1>7, <1>8 DEF Inv

LEMMA SendSignalPreserves ==
    ASSUME Inv, SendSignal
    PROVE  Inv'
  <1>1. UpGains(Frame("signal"))
    <2>1. Frame("signal") \in UpFrames
      BY DEF UpFrames
    <2> QED
      BY <2>1, UpPut DEF SendSignal, Send
  <1>2. /\ sent' \in [stdin : 0 .. MaxIn, close : BOOLEAN, signals : Nat]
        /\ sent'.stdin = sent.stdin /\ sent'.close = sent.close
    BY Bounds DEF SendSignal, Send, Inv, TypeInv
  <1>3. TypeInv'
    <2>1. up' \in Seq(UpFrames) /\ Len(up') <= NetCap + 1
      BY <1>1, Bounds DEF Inv, TypeInv, TypeOK, UpFrames, ConnInv, SendSignal, Send, UpGains
    <2>2. down' \in Seq(DownFrames) /\ Len(down') <= NetCap + 2
      BY <1>1, Bounds DEF Inv, TypeInv, TypeOK, OrderInv, Starting, SendSignal, Send,
         UpGains
    <2>3. {gotFrame, told}' \subseteq BOOLEAN
      <3>1. gotFrame \in BOOLEAN /\ told \in BOOLEAN
        BY DEF Inv, TypeInv, TypeOK
      <3> QED
        BY <3>1, Zenon DEF SendSignal, Send, UpGains, procVars, daemonVars
    <2>4. /\ daemon' \in {"up", "closing", "closed", "killed"}
          /\ conn' \in {"none", "dialled", "open", "shut", "cut"}
          /\ shim' \in {"start", "hello", "reading", "done", "dead"}
          /\ ses' \in {"none", "check", "hello", "launch", "running", "reaped", "over"}
          /\ pump' \in {"none", "read", "write", "terminate", "grace", "done"}
          /\ outs' \subseteq Outputs /\ connOK' \subseteq Outputs
          /\ proc' \in {"none", "alive", "dead", "reaped"} /\ code' \in Codes
      BY <1>1, Bounds DEF Inv, TypeInv, TypeOK, Codes, SendSignal, Send, UpGains,
         daemonVars, procVars
    <2>5. result' \in {Frame(t) : t \in {"none", "unreachable", "lost"}} \cup DownFrames
      BY <1>1, Bounds DEF Inv, TypeInv, TypeOK, SendSignal, Send, UpGains, daemonVars,
         procVars
    <2>6. /\ stdin'.held \in 0 .. PipeCap /\ stdin'.read \in 0 .. MaxIn
          /\ stdin' \in Stdin
      BY <1>1, Bounds, PlacesFinite DEF Inv, TypeInv, TypeOK, InputInv, Held, Stdin,
         SendSignal, Send, UpGains, daemonVars, procVars
    <2>7. pipe' \in [Outputs -> 0 .. PipeCap] /\ written' \in [Outputs -> 0 .. MaxOut]
      BY <1>1, Bounds DEF Inv, TypeInv, TypeOK, SendSignal, Send, UpGains, daemonVars,
         procVars
    <2>8. /\ sent' \in [stdin : 0 .. MaxIn, close : BOOLEAN, signals : Nat]
          /\ got' \in [Outputs -> Nat]
      BY <1>2 DEF SendSignal, Send, Inv, TypeInv
    <2> QED
      BY <2>1, <2>2, <2>3, <2>4, <2>5, <2>6, <2>7, <2>8 DEF TypeInv, TypeOK, UpFrames
  <1>4. ConnInv'
    BY <1>1, <1>2, Bounds DEF Inv, ConnInv, AtWork, TypeInv, TypeOK, SendSignal, Send,
       UpGains, daemonVars, procVars, Frame
  <1>5. ProcInv'
    BY <1>1, <1>2, Bounds DEF Inv, ProcInv, Starting, Outputs, ConnInv, AtWork, TypeInv,
       TypeOK, SendSignal, Send, UpGains, daemonVars, procVars, Frame
  <1>6. AnswerInv'
    BY <1>1, <1>2, Bounds DEF Inv, AnswerInv, UnreachableNotRun, ConnInv, AtWork, ProcInv,
       TypeInv, TypeOK, SendSignal, Send, UpGains, daemonVars, procVars, Frame
  <1>7. OrderInv'
    BY <1>1, <1>2, Bounds DEF Inv, OrderInv, Ends, Outputs, TypeInv, TypeOK, ConnInv,
       AtWork, Starting, SendSignal, Send, UpGains, daemonVars, procVars, Frame
  <1>8. OutputInv'
    BY <1>1, <1>2, Bounds DEF Inv, OutputInv, Whole, Outputs, TypeInv, TypeOK, ConnInv,
       AtWork, ProcInv, Starting, OrderInv, SendSignal, Send, UpGains, daemonVars, procVars,
       Frame
  <1>9. InputInv'
    <2>1. /\ Held \in Nat /\ sent.stdin \in Nat /\ up \in Seq(UpFrames)
          /\ Count(up, "stdin") \in Nat /\ Len(up) \in Nat /\ InputInv
      BY InputTypes DEF Inv
    <2>2. /\ Held' = Held /\ Feeding' = Feeding /\ conn' = conn
          /\ pump' = pump /\ stdin' = stdin
      BY DEF SendSignal, Send, Held, Feeding, daemonVars, procVars
    <2>3. Held' + Count(up', "stdin") <= sent'.stdin
      BY <1>1, <1>2, <2>1, <2>2 DEF InputInv, AllThere, Frame, UpGains
    <2>4. pump' = "write" => stdin'.open
      BY <1>1, <1>2, <2>1, <2>2 DEF InputInv, AllThere, Frame, UpGains
    <2>5. \A i \in 1 .. Len(up') : up'[i].type = "close" =>
             sent'.close /\ \A j \in 1 .. Len(up') : j > i => up'[j].type # "stdin"
      BY <1>1, <1>2, <2>1, <2>2 DEF InputInv, AllThere, Frame, UpGains
    <2>6. Feeding' /\ conn' # "cut" => AllThere'
      BY <1>1, <1>2, <2>1, <2>2 DEF InputInv, AllThere, Frame, UpGains
    <2>7. Feeding' /\ (\E i \in 1 .. Len(up') : up'[i].type = "close") => AllThere'
      BY <1>1, <1>2, <2>1, <2>2 DEF InputInv, AllThere, Frame, UpGains
    <2>8. Feeding' /\ ~stdin'.open =>
             sent'.close /\ AllThere' /\ \A i \in 1 .. Len(up') : up'[i].type # "stdin"
      <3>1. \A i \in 1 .. Len(up') : i \in 1 .. Len(up) \/ i = Len(up) + 1
        BY <1>1, <2>1 DEF UpGains
      <3>2. Feeding' /\ ~stdin'.open => sent'.close /\ AllThere'
        BY <1>1, <1>2, <2>1, <2>2 DEF InputInv, AllThere, Frame, UpGains
      <3> QED
        BY <1>1, <2>1, <2>2, <3>1, <3>2 DEF InputInv, Frame, UpGains
    <2> QED
      BY <2>3, <2>4, <2>5, <2>6, <2>7, <2>8 DEF InputInv
  <1> QED
    BY <1>3, <1>4, <1>5, <1>6, <1>7, <1>8, <1>9 DEF Inv

LEMMA ReadFramePreserves ==
    ASSUME Inv, ReadFrame
    PROVE  Inv'
  <1>1. DownLoses
    BY DownTaken DEF ReadFrame
  <1>2. /\ got' \in [Outputs -> Nat]
        /\ \A p \in Outputs : got'[p] = IF Head(down).type = p THEN got[p] + 1 ELSE got[p]
    BY Bounds DEF ReadFrame, Inv, TypeInv
  <1>3. /\ shim = "reading" /\ gotFrame' = TRUE
        /\ \/ Ends(Head(down)) /\ shim' = "done" /\ result' = Head(down)
           \/ ~Ends(Head(down)) /\ shim' = shim /\ result' = result
        /\ UNCHANGED <<daemon, conn, up, sent, daemonVars, procVars>>
    BY DEF ReadFrame, Return, Ends
  <1>4. TypeInv'
    <2>1. up' \in Seq(UpFrames) /\ Len(up') <= NetCap + 1
      BY <1>1, Bounds DEF Inv, TypeInv, TypeOK, UpFrames, ConnInv, ReadFrame, Return,
         DownLoses
    <2>2. down' \in Seq(DownFrames) /\ Len(down') <= NetCap + 2
      <3>1. Len(down) <= NetCap + 2
        BY DEF Inv, TypeInv, TypeOK
      <3> QED
        BY <1>1, <3>1, Bounds DEF DownLoses
    <2>3. {gotFrame, told}' \subseteq BOOLEAN
      <3>1. gotFrame \in BOOLEAN /\ told \in BOOLEAN
        BY DEF Inv, TypeInv, TypeOK
      <3> QED
        BY <3>1, Zenon DEF ReadFrame, Return, DownLoses, procVars, daemonVars
    <2>4. /\ daemon' \in {"up", "closing", "closed", "killed"}
          /\ conn' \in {"none", "dialled", "open", "shut", "cut"}
          /\ shim' \in {"start", "hello", "reading", "done", "dead"}
          /\ ses' \in {"none", "check", "hello", "launch", "running", "reaped", "over"}
          /\ pump' \in {"none", "read", "write", "terminate", "grace", "done"}
          /\ outs' \subseteq Outputs /\ connOK' \subseteq Outputs
          /\ proc' \in {"none", "alive", "dead", "reaped"} /\ code' \in Codes
      BY <1>1, Bounds, SMTT(20) DEF Inv, TypeInv, TypeOK, Codes, ReadFrame, Return,
         DownLoses,
         daemonVars, procVars
    <2>5. result' \in {Frame(t) : t \in {"none", "unreachable", "lost"}} \cup DownFrames
      BY <1>1, Bounds DEF Inv, TypeInv, TypeOK, ReadFrame, Return, DownLoses, daemonVars,
         procVars
    <2>6. /\ stdin'.held \in 0 .. PipeCap /\ stdin'.read \in 0 .. MaxIn
          /\ stdin' \in Stdin
      BY <1>1, Bounds, PlacesFinite DEF Inv, TypeInv, TypeOK, InputInv, Held, Stdin,
         ReadFrame, Return, DownLoses, daemonVars, procVars
    <2>7. pipe' \in [Outputs -> 0 .. PipeCap] /\ written' \in [Outputs -> 0 .. MaxOut]
      BY <1>1, Bounds DEF Inv, TypeInv, TypeOK, ReadFrame, Return, DownLoses, daemonVars,
         procVars
    <2>8. /\ sent' \in [stdin : 0 .. MaxIn, close : BOOLEAN, signals : Nat]
          /\ got' \in [Outputs -> Nat]
      BY <1>2, <1>3 DEF Inv, TypeInv
    <2> QED
      BY <2>1, <2>2, <2>3, <2>4, <2>5, <2>6, <2>7, <2>8 DEF TypeInv, TypeOK, UpFrames
  <1>5. ConnInv'
    BY <1>1, <1>2, <1>3, Bounds DEF Inv, ConnInv, AtWork, Starting, TypeInv, TypeOK,
       ReadFrame, Return, DownLoses, daemonVars, procVars, Frame
  <1>6. ProcInv'
    BY <1>1, <1>2, <1>3, Bounds DEF Inv, ProcInv, Starting, Outputs, ConnInv, AtWork,
       TypeInv, TypeOK, ReadFrame, Return, DownLoses, daemonVars, procVars, Frame
  <1>7. AnswerInv'
    BY <1>1, <1>2, <1>3, Bounds DEF Inv, AnswerInv, UnreachableNotRun, ConnInv, AtWork,
       ProcInv, TypeInv, TypeOK, ReadFrame, Return, DownLoses, daemonVars, procVars, Frame
  <1>8. OrderInv'
    <2>1. ses' = ses /\ conn' = conn
      BY <1>3 DEF daemonVars
    <2>2. \A i \in 1 .. Len(down') : Ends(down'[i]) => i = Len(down') /\ ses = "over"
      <3> SUFFICES ASSUME NEW i \in 1 .. Len(down'), Ends(down'[i])
                   PROVE  i = Len(down') /\ ses = "over"
        OBVIOUS
      <3>1. i + 1 \in 1 .. Len(down) /\ down'[i] = down[i + 1]
        BY <1>1 DEF DownLoses
      <3>2. i + 1 = Len(down) /\ ses = "over"
        BY <3>1 DEF Inv, OrderInv
      <3> QED
        BY <1>1, <3>2 DEF DownLoses
    <2>3. ~(conn \in {"none", "dialled", "open"} /\ ses \in Starting)
      BY <1>1 DEF DownLoses, Inv, OrderInv
    <2> QED
      BY <2>1, <2>2, <2>3 DEF OrderInv
  <1>9. OutputInv'
    <2>1. UNCHANGED <<conn, connOK, proc, code, pipe, written>>
      BY <1>3 DEF daemonVars, procVars
    <2>2. \A p \in Outputs : /\ got[p] \in Nat /\ pipe[p] \in Nat /\ written[p] \in Nat
                             /\ Count(down', p) \in Nat
                             /\ got'[p] + Count(down', p) = got[p] + Count(down, p)
      <3>1. \A p \in Outputs : got[p] \in Nat /\ pipe[p] \in Nat /\ written[p] \in Nat
        BY Bounds DEF Inv, TypeInv, TypeOK
      <3> QED
        BY <1>1, <1>2, <3>1 DEF DownLoses
    <2>3. conn \in {"none", "dialled", "open"} => connOK = Outputs /\ \A p \in Outputs : Whole(p)'
      BY <1>1, <2>1, <2>2 DEF Whole, Inv, OutputInv, DownLoses
    <2>4. ASSUME NEW i \in 1 .. Len(down'), down'[i].type = "exit", down'[i].code # 127
          PROVE  /\ proc = "reaped" /\ down'[i].code = code
                 /\ \A p \in Outputs : got'[p] + Count(down', p) = written[p]
      <3>1. i + 1 \in 1 .. Len(down) /\ down'[i] = down[i + 1]
        BY <1>1 DEF DownLoses
      <3> QED
        BY <2>2, <2>4, <3>1 DEF Inv, OutputInv
    <2>5. ASSUME result'.type = "exit", result'.code # 127
          PROVE  proc = "reaped" /\ result'.code = code /\ got' = written
      <3>1. result = Frame("none")
        BY <1>3 DEF Inv, ConnInv
      <3>2. Ends(Head(down)) /\ result' = Head(down)
        BY <1>3, <2>5, <3>1 DEF Frame
      <3>3. Head(down) = down[1] /\ 1 \in 1 .. Len(down) /\ Len(down') \in Nat /\ Len(down) = Len(down') + 1
        BY <1>1 DEF DownLoses
      <3>4. 1 = Len(down)
        BY <3>2, <3>3 DEF Inv, OrderInv
      <3>5. down' \in Seq(DownFrames) /\ \A i \in 1 .. Len(down') : FALSE
        BY <1>1, <3>3, <3>4 DEF DownLoses
      <3>6. \A p \in Outputs : Count(down', p) = 0
        BY <3>5, CountNone
      <3>7. /\ proc = "reaped" /\ down[1].code = code
            /\ \A p \in Outputs : got[p] + Count(down, p) = written[p]
        BY <2>5, <3>2, <3>3 DEF Inv, OutputInv
      <3>8. \A p \in Outputs : got'[p] = written[p]
        BY <1>2, <2>2, <3>6, <3>7
      <3>9. got' = written
        BY <1>2, <3>8 DEF Inv, TypeInv, TypeOK
      <3> QED
        BY <3>2, <3>3, <3>7, <3>9
    <2> QED
      BY <2>1, <2>3, <2>4, <2>5 DEF OutputInv
  <1>10. InputInv'
    BY <1>1, <1>2, <1>3, Bounds DEF Inv, InputInv, Feeding, Held, Stdin, AllThere, Starting,
       TypeInv, TypeOK, ConnInv, ProcInv, AtWork, ReadFrame, Return, DownLoses, daemonVars,
       procVars, Frame
  <1> QED
    BY <1>4, <1>5, <1>6, <1>7, <1>8, <1>9, <1>10 DEF Inv

LEMMA ReadFailsPreserves ==
    ASSUME Inv, ReadFails
    PROVE  Inv'
  <1>1. TypeInv'
    BY Bounds, SMTT(20) DEF Inv, TypeInv, TypeOK, Outputs, ConnInv, ProcInv, InputInv,
       Held, Stdin,
       ReadFails, Return, daemonVars, procVars, Frame
  <1>2. ConnInv'
    BY Bounds DEF Inv, ConnInv, AtWork, TypeInv, TypeOK, ReadFails, Return, daemonVars,
       procVars, Frame
  <1>3. ProcInv'
    BY Bounds DEF Inv, ProcInv, Starting, Outputs, ConnInv, AtWork, TypeInv, TypeOK,
       ReadFails, Return, daemonVars, procVars, Frame
  <1>4. AnswerInv'
    <2>1. \/ result' = Frame("lost")
          \/ result' = Frame("unreachable") /\ ~gotFrame /\ down = <<>> /\ conn \in {"shut", "cut"}
      BY DEF ReadFails, Return, Inv, TypeInv, TypeOK
    <2>2. shim = "reading" /\ shim' = "done" /\ conn' = conn /\ ses' = ses /\ daemon' = daemon /\ proc' = proc
      BY DEF ReadFails, Return, daemonVars, procVars
    <2>3. conn = "shut" => ses \in {"none", "over"}
      BY DEF Inv, ConnInv
    <2>4. ~gotFrame /\ down = <<>> /\ conn = "shut" /\ daemon # "killed" => ses = "none"
      BY <2>2, <2>3 DEF Inv, AnswerInv
    <2>5. ses = "none" => proc = "none"
      BY DEF Inv, ProcInv, Starting
    <2>6. UnreachableNotRun'
      BY <2>1, <2>2, <2>3, <2>4, <2>5 DEF UnreachableNotRun, Frame
    <2> QED
      BY <2>1, <2>2, <2>6 DEF AnswerInv, Frame
  <1>5. OrderInv'
    BY Bounds DEF Inv, OrderInv, Ends, Outputs, TypeInv, TypeOK, ConnInv, AtWork, Starting,
       ReadFails, Return, daemonVars, procVars, Frame
  <1>6. OutputInv'
    BY Bounds DEF Inv, OutputInv, Whole, Outputs, TypeInv, TypeOK, ConnInv, AtWork, ProcInv,
       Starting, OrderInv, ReadFails, Return, daemonVars, procVars, Frame
  <1>7. InputInv'
    BY Bounds DEF Inv, InputInv, Feeding, Held, Stdin, AllThere, Starting, TypeInv, TypeOK,
       ConnInv, ProcInv, AtWork, ReadFails, Return, daemonVars, procVars, Frame
  <1> QED
    BY <1>1, <1>2, <1>3, <1>4, <1>5, <1>6, <1>7 DEF Inv

LEMMA ContainerDiesPreserves ==
    ASSUME Inv, ContainerDies
    PROVE  Inv'
  <1>1. TypeInv'
    BY Bounds, SMTT(20) DEF Inv, TypeInv, TypeOK, Outputs, ConnInv, ProcInv, InputInv,
       Held, Stdin,
       ContainerDies, daemonVars, procVars, Frame
  <1>2. ConnInv'
    BY Bounds DEF Inv, ConnInv, AtWork, TypeInv, TypeOK, ContainerDies, daemonVars,
       procVars, Frame
  <1>3. ProcInv'
    BY Bounds DEF Inv, ProcInv, Starting, Outputs, ConnInv, AtWork, TypeInv, TypeOK,
       ContainerDies, daemonVars, procVars, Frame
  <1>4. AnswerInv'
    BY Bounds DEF Inv, AnswerInv, UnreachableNotRun, ConnInv, AtWork, ProcInv, TypeInv,
       TypeOK, ContainerDies, daemonVars, procVars, Frame
  <1>5. OrderInv'
    BY Bounds DEF Inv, OrderInv, Ends, Outputs, TypeInv, TypeOK, ConnInv, AtWork, Starting,
       ContainerDies, daemonVars, procVars, Frame
  <1>6. OutputInv'
    BY Bounds DEF Inv, OutputInv, Whole, Outputs, TypeInv, TypeOK, ConnInv, AtWork, ProcInv,
       Starting, OrderInv, ContainerDies, daemonVars, procVars, Frame
  <1>7. InputInv'
    BY Bounds DEF Inv, InputInv, Feeding, Held, Stdin, AllThere, Starting, TypeInv, TypeOK,
       ConnInv, ProcInv, AtWork, ContainerDies, daemonVars, procVars, Frame
  <1> QED
    BY <1>1, <1>2, <1>3, <1>4, <1>5, <1>6, <1>7 DEF Inv

LEMMA CutPreserves ==
    ASSUME Inv, Cut
    PROVE  Inv'
  <1>1. PICK n \in 0 .. Len(up) : up' = SubSeq(up, 1, n)
    BY DEF Cut
  <1>2. PICK m \in 0 .. Len(down) : down' = SubSeq(down, 1, m)
    BY DEF Cut
  <1>3. /\ up \in Seq(UpFrames) /\ Len(up) \in Nat /\ Len(up) <= NetCap + 1
        /\ up' \in Seq(UpFrames) /\ Len(up') = n
        /\ \A i \in 1 .. Len(up') : i \in 1 .. Len(up) /\ up'[i] = up[i]
    <2>1. up \in Seq(UpFrames) /\ Len(up) <= NetCap + 1
      BY DEF Inv, TypeInv, TypeOK, UpFrames
    <2> QED
      BY <1>1, <2>1
  <1>4. /\ down \in Seq(DownFrames) /\ Len(down) \in Nat /\ Len(down) <= NetCap + 2
        /\ down' \in Seq(DownFrames) /\ Len(down') = m
        /\ \A i \in 1 .. Len(down') : i \in 1 .. Len(down) /\ down'[i] = down[i]
    <2>1. down \in Seq(DownFrames) /\ Len(down) <= NetCap + 2
      BY DEF Inv, TypeInv, TypeOK
    <2> QED
      BY <1>2, <2>1
  <1>5. /\ conn = "open" /\ conn' = "cut" /\ ses # "over"
        /\ UNCHANGED <<daemon, shimVars, daemonVars, procVars>>
    BY DEF Cut, Inv, ConnInv, AtWork
  <1>6. \A i \in 1 .. Len(down') : ~Ends(down'[i])
    BY <1>4, <1>5 DEF Inv, OrderInv
  <1>7. TypeInv'
    <2>1. up' \in Seq(UpFrames) /\ Len(up') <= NetCap + 1
      BY <1>1, <1>3, Bounds
    <2>2. down' \in Seq(DownFrames) /\ Len(down') <= NetCap + 2
      BY <1>2, <1>4, Bounds
    <2>3. {gotFrame, told}' \subseteq BOOLEAN
      <3>1. gotFrame \in BOOLEAN /\ told \in BOOLEAN
        BY DEF Inv, TypeInv, TypeOK
      <3> QED
        BY <3>1, Zenon DEF Cut, shimVars, procVars, daemonVars
    <2>4. /\ daemon' \in {"up", "closing", "closed", "killed"}
          /\ conn' \in {"none", "dialled", "open", "shut", "cut"}
          /\ shim' \in {"start", "hello", "reading", "done", "dead"}
          /\ ses' \in {"none", "check", "hello", "launch", "running", "reaped", "over"}
          /\ pump' \in {"none", "read", "write", "terminate", "grace", "done"}
          /\ outs' \subseteq Outputs /\ connOK' \subseteq Outputs
          /\ proc' \in {"none", "alive", "dead", "reaped"} /\ code' \in Codes
      BY Bounds DEF Inv, TypeInv, TypeOK, Codes, Cut, shimVars, daemonVars, procVars
    <2>5. result' \in {Frame(t) : t \in {"none", "unreachable", "lost"}} \cup DownFrames
      BY Bounds DEF Inv, TypeInv, TypeOK, Cut, shimVars, daemonVars, procVars
    <2>6. /\ stdin'.held \in 0 .. PipeCap /\ stdin'.read \in 0 .. MaxIn
          /\ stdin' \in Stdin
      BY Bounds, PlacesFinite DEF Inv, TypeInv, TypeOK, InputInv, Held, Stdin, Cut,
         shimVars, daemonVars, procVars
    <2>7. pipe' \in [Outputs -> 0 .. PipeCap] /\ written' \in [Outputs -> 0 .. MaxOut]
      BY Bounds DEF Inv, TypeInv, TypeOK, Cut, shimVars, daemonVars, procVars
    <2>8. /\ sent' \in [stdin : 0 .. MaxIn, close : BOOLEAN, signals : Nat]
          /\ got' \in [Outputs -> Nat]
      BY Bounds DEF Inv, TypeInv, TypeOK, Cut, shimVars, daemonVars, procVars
    <2> QED
      BY <2>1, <2>2, <2>3, <2>4, <2>5, <2>6, <2>7, <2>8 DEF TypeInv, TypeOK, UpFrames
  <1>8. ConnInv'
    BY <1>1, <1>2, <1>3, <1>4, <1>5, <1>6, Bounds DEF Inv, ConnInv, AtWork, TypeInv, TypeOK,
       Cut, shimVars, daemonVars, procVars, Frame
  <1>9. ProcInv'
    BY <1>1, <1>2, <1>3, <1>4, <1>5, <1>6, Bounds DEF Inv, ProcInv, Starting, Outputs,
       ConnInv, AtWork, TypeInv, TypeOK, Cut, shimVars, daemonVars, procVars, Frame
  <1>10. AnswerInv'
    BY <1>5 DEF AnswerInv, UnreachableNotRun, Inv, ConnInv, shimVars, daemonVars, procVars
  <1>11. OrderInv'
    BY <1>5, <1>6 DEF OrderInv
  <1>12. OutputInv'
    BY <1>5, <1>6 DEF OutputInv, Inv, Ends, shimVars, daemonVars, procVars
  <1>13. InputInv'
    <2>1. /\ Held \in Nat /\ sent.stdin \in Nat /\ Count(up, "stdin") \in Nat
          /\ Count(up', "stdin") \in Nat /\ InputInv
      BY <1>3, InputTypes, PlacesFinite DEF Inv
    <2>2. /\ Held' = Held /\ Feeding' = Feeding /\ sent' = sent
          /\ pump' = pump /\ stdin' = stdin
      BY <1>5 DEF Held, Feeding, shimVars, daemonVars, procVars
    <2>3. Count(up', "stdin") <= Count(up, "stdin")
      BY <1>1, <1>3, CountFewer
    <2>4. ASSUME \A i \in 1 .. Len(up) : i > n => up[i].type # "stdin"
          PROVE  Count(up', "stdin") = Count(up, "stdin")
      BY <1>1, <1>3, <2>4, CountPrefix
    <2>5. Held' + Count(up', "stdin") <= sent'.stdin
      BY <2>1, <2>2, <2>3 DEF InputInv
    <2>6. \A i \in 1 .. Len(up') : up'[i].type = "close" =>
             sent'.close /\ \A j \in 1 .. Len(up') : j > i => up'[j].type # "stdin"
      BY <1>3, <2>1, <2>2 DEF InputInv
    <2>7. ASSUME Feeding, NEW i \in 1 .. Len(up'), up'[i].type = "close"
          PROVE  AllThere'
      <3>1. i \in 1 .. Len(up) /\ up[i].type = "close" /\ i <= n
        BY <1>3, <2>7
      <3>2. AllThere /\ \A j \in 1 .. Len(up) : j > i => up[j].type # "stdin"
        BY <2>1, <2>7, <3>1 DEF InputInv
      <3>3. \A j \in 1 .. Len(up) : j > n => up[j].type # "stdin"
        BY <1>3, <3>1, <3>2
      <3> QED
        BY <2>2, <2>4, <3>2, <3>3 DEF AllThere
    <2>8. ASSUME Feeding, ~stdin.open
          PROVE  sent.close /\ AllThere' /\ \A i \in 1 .. Len(up') : up'[i].type # "stdin"
      <3>1. sent.close /\ AllThere /\ \A i \in 1 .. Len(up) : up[i].type # "stdin"
        BY <2>1, <2>8 DEF InputInv
      <3>2. AllThere'
        BY <2>2, <2>4, <3>1 DEF AllThere
      <3> QED
        BY <1>3, <3>1, <3>2
    <2> QED
      BY <1>5, <2>1, <2>2, <2>5, <2>6, <2>7, <2>8 DEF InputInv
  <1> QED
    BY <1>7, <1>8, <1>9, <1>10, <1>11, <1>12, <1>13 DEF Inv

-----------------------------------------------------------------------------
(* The session.                                                            *)

LEMMA AcceptPreserves ==
    ASSUME Inv, Accept
    PROVE  Inv'
  <1>1. TypeInv'
    <2>1. up' \in Seq(UpFrames) /\ Len(up') <= NetCap + 1
      BY Bounds DEF Inv, TypeInv, TypeOK, UpFrames, ConnInv, Accept
    <2>2. down' \in Seq(DownFrames) /\ Len(down') <= NetCap + 2
      BY Bounds DEF Inv, TypeInv, TypeOK, OrderInv, Starting, Accept
    <2>3. {gotFrame, told}' \subseteq BOOLEAN
      <3>1. gotFrame \in BOOLEAN /\ told \in BOOLEAN
        BY DEF Inv, TypeInv, TypeOK
      <3> QED
        BY <3>1, Zenon DEF Accept, shimVars, procVars
    <2>4. /\ daemon' \in {"up", "closing", "closed", "killed"}
          /\ conn' \in {"none", "dialled", "open", "shut", "cut"}
          /\ shim' \in {"start", "hello", "reading", "done", "dead"}
          /\ ses' \in {"none", "check", "hello", "launch", "running", "reaped", "over"}
          /\ pump' \in {"none", "read", "write", "terminate", "grace", "done"}
          /\ outs' \subseteq Outputs /\ connOK' \subseteq Outputs
          /\ proc' \in {"none", "alive", "dead", "reaped"} /\ code' \in Codes
      BY Bounds DEF Inv, TypeInv, TypeOK, Codes, Accept, shimVars, procVars
    <2>5. result' \in {Frame(t) : t \in {"none", "unreachable", "lost"}} \cup DownFrames
      BY Bounds DEF Inv, TypeInv, TypeOK, Accept, shimVars, procVars
    <2>6. /\ stdin'.held \in 0 .. PipeCap /\ stdin'.read \in 0 .. MaxIn
          /\ stdin' \in Stdin
      BY Bounds, PlacesFinite DEF Inv, TypeInv, TypeOK, InputInv, Held, Stdin, Accept,
         shimVars, procVars
    <2>7. pipe' \in [Outputs -> 0 .. PipeCap] /\ written' \in [Outputs -> 0 .. MaxOut]
      BY Bounds DEF Inv, TypeInv, TypeOK, Accept, shimVars, procVars
    <2>8. /\ sent' \in [stdin : 0 .. MaxIn, close : BOOLEAN, signals : Nat]
          /\ got' \in [Outputs -> Nat]
      BY Bounds DEF Inv, TypeInv, TypeOK, Accept, shimVars, procVars
    <2> QED
      BY <2>1, <2>2, <2>3, <2>4, <2>5, <2>6, <2>7, <2>8 DEF TypeInv, TypeOK, UpFrames
  <1>2. ConnInv'
    BY Bounds DEF Inv, ConnInv, AtWork, TypeInv, TypeOK, Accept, shimVars, procVars, Frame
  <1>3. ProcInv'
    BY Bounds DEF Inv, ProcInv, Starting, Outputs, ConnInv, AtWork, TypeInv, TypeOK, Accept,
       shimVars, procVars, Frame
  <1>4. AnswerInv'
    BY Bounds DEF Inv, AnswerInv, UnreachableNotRun, ConnInv, AtWork, ProcInv, TypeInv,
       TypeOK, Accept, shimVars, procVars, Frame
  <1>5. OrderInv'
    BY Bounds DEF Inv, OrderInv, Ends, Outputs, TypeInv, TypeOK, ConnInv, AtWork, Starting,
       Accept, shimVars, procVars, Frame
  <1>6. OutputInv'
    BY Bounds DEF Inv, OutputInv, Whole, Outputs, TypeInv, TypeOK, ConnInv, AtWork, ProcInv,
       Starting, OrderInv, Accept, shimVars, procVars, Frame
  <1>7. InputInv'
    BY Bounds DEF Inv, InputInv, Feeding, Held, Stdin, AllThere, Starting, TypeInv, TypeOK,
       ConnInv, ProcInv, AtWork, Accept, shimVars, procVars, Frame
  <1> QED
    BY <1>1, <1>2, <1>3, <1>4, <1>5, <1>6, <1>7 DEF Inv

LEMMA ShuttingDownPreserves ==
    ASSUME Inv, ShuttingDown
    PROVE  Inv'
  <1>1. /\ conn = "open" => DownGains(Frame("error"))
        /\ ~(conn = "open") => down' = down
    <2>1. Frame("error") \in DownFrames
      BY DEF DownFrames, Inv, TypeInv, TypeOK
    <2> QED
      BY <2>1, DownPut DEF ShuttingDown, EndSession, Answer
  <1>2. TypeInv'
    <2>1. up' \in Seq(UpFrames) /\ Len(up') <= NetCap + 1
      BY <1>1, Bounds DEF Inv, TypeInv, TypeOK, UpFrames, ConnInv, ShuttingDown, EndSession,
         Answer, DownGains
    <2>2. down' \in Seq(DownFrames) /\ Len(down') <= NetCap + 2
      BY <1>1, Bounds DEF Inv, TypeInv, TypeOK, OrderInv, Starting, ShuttingDown,
         EndSession, Answer, DownGains
    <2>3. {gotFrame, told}' \subseteq BOOLEAN
      <3>1. gotFrame \in BOOLEAN /\ told \in BOOLEAN
        BY DEF Inv, TypeInv, TypeOK
      <3> QED
        BY <3>1, Zenon DEF ShuttingDown, EndSession, Answer, DownGains, shimVars, procVars
    <2>4. /\ daemon' \in {"up", "closing", "closed", "killed"}
          /\ conn' \in {"none", "dialled", "open", "shut", "cut"}
          /\ shim' \in {"start", "hello", "reading", "done", "dead"}
          /\ ses' \in {"none", "check", "hello", "launch", "running", "reaped", "over"}
          /\ pump' \in {"none", "read", "write", "terminate", "grace", "done"}
          /\ outs' \subseteq Outputs /\ connOK' \subseteq Outputs
          /\ proc' \in {"none", "alive", "dead", "reaped"} /\ code' \in Codes
      BY <1>1, Bounds DEF Inv, TypeInv, TypeOK, Codes, ShuttingDown, EndSession, Answer,
         DownGains, shimVars, procVars
    <2>5. result' \in {Frame(t) : t \in {"none", "unreachable", "lost"}} \cup DownFrames
      BY <1>1, Bounds DEF Inv, TypeInv, TypeOK, ShuttingDown, EndSession, Answer, DownGains,
         shimVars, procVars
    <2>6. /\ stdin'.held \in 0 .. PipeCap /\ stdin'.read \in 0 .. MaxIn
          /\ stdin' \in Stdin
      BY <1>1, Bounds, PlacesFinite DEF Inv, TypeInv, TypeOK, InputInv, Held, Stdin,
         ShuttingDown, EndSession, Answer, DownGains, shimVars, procVars
    <2>7. pipe' \in [Outputs -> 0 .. PipeCap] /\ written' \in [Outputs -> 0 .. MaxOut]
      BY <1>1, Bounds DEF Inv, TypeInv, TypeOK, ShuttingDown, EndSession, Answer, DownGains,
         shimVars, procVars
    <2>8. /\ sent' \in [stdin : 0 .. MaxIn, close : BOOLEAN, signals : Nat]
          /\ got' \in [Outputs -> Nat]
      BY <1>1, Bounds DEF Inv, TypeInv, TypeOK, ShuttingDown, EndSession, Answer, DownGains,
         shimVars, procVars
    <2> QED
      BY <2>1, <2>2, <2>3, <2>4, <2>5, <2>6, <2>7, <2>8 DEF TypeInv, TypeOK, UpFrames
  <1>3. ConnInv'
    BY <1>1, Bounds DEF Inv, ConnInv, AtWork, TypeInv, TypeOK, ShuttingDown, EndSession,
       Answer, DownGains, shimVars, procVars, Frame
  <1>4. ProcInv'
    BY <1>1, Bounds DEF Inv, ProcInv, Starting, Outputs, ConnInv, AtWork, TypeInv, TypeOK,
       ShuttingDown, EndSession, Answer, DownGains, shimVars, procVars, Frame
  <1>5. AnswerInv'
    BY <1>1, Bounds DEF Inv, AnswerInv, UnreachableNotRun, ConnInv, AtWork, ProcInv,
       TypeInv, TypeOK, ShuttingDown, EndSession, Answer, DownGains, shimVars, procVars,
       Frame
  <1>6. OrderInv'
    BY <1>1, Bounds DEF Inv, OrderInv, Ends, Outputs, TypeInv, TypeOK, ConnInv, AtWork,
       Starting, ShuttingDown, EndSession, Answer, DownGains, shimVars, procVars, Frame
  <1>7. OutputInv'
    BY <1>1, Bounds DEF Inv, OutputInv, Whole, Outputs, TypeInv, TypeOK, ConnInv, AtWork,
       ProcInv, Starting, OrderInv, ShuttingDown, EndSession, Answer, DownGains, shimVars,
       procVars, Frame
  <1>8. InputInv'
    BY <1>1, Bounds DEF Inv, InputInv, Feeding, Held, Stdin, AllThere, Starting, TypeInv,
       TypeOK, ConnInv, ProcInv, AtWork, ShuttingDown, EndSession, Answer, DownGains,
       shimVars, procVars, Frame
  <1> QED
    BY <1>2, <1>3, <1>4, <1>5, <1>6, <1>7, <1>8 DEF Inv

LEMMA CheckedPreserves ==
    ASSUME Inv, Checked
    PROVE  Inv'
  <1>1. TypeInv'
    BY Bounds DEF Inv, TypeInv, TypeOK, Outputs, ConnInv, ProcInv, InputInv, Held, Stdin,
       Checked, shimVars, procVars, Frame
  <1>2. ConnInv'
    BY Bounds DEF Inv, ConnInv, AtWork, TypeInv, TypeOK, Checked, shimVars, procVars, Frame
  <1>3. ProcInv'
    BY Bounds DEF Inv, ProcInv, Starting, Outputs, ConnInv, AtWork, TypeInv, TypeOK,
       Checked, shimVars, procVars, Frame
  <1>4. AnswerInv'
    BY Bounds DEF Inv, AnswerInv, UnreachableNotRun, ConnInv, AtWork, ProcInv, TypeInv,
       TypeOK, Checked, shimVars, procVars, Frame
  <1>5. OrderInv'
    BY Bounds DEF Inv, OrderInv, Ends, Outputs, TypeInv, TypeOK, ConnInv, AtWork, Starting,
       Checked, shimVars, procVars, Frame
  <1>6. OutputInv'
    BY Bounds DEF Inv, OutputInv, Whole, Outputs, TypeInv, TypeOK, ConnInv, AtWork, ProcInv,
       Starting, OrderInv, Checked, shimVars, procVars, Frame
  <1>7. InputInv'
    BY Bounds DEF Inv, InputInv, Feeding, Held, Stdin, AllThere, Starting, TypeInv, TypeOK,
       ConnInv, ProcInv, AtWork, Checked, shimVars, procVars, Frame
  <1> QED
    BY <1>1, <1>2, <1>3, <1>4, <1>5, <1>6, <1>7 DEF Inv

LEMMA HelloTimeoutPreserves ==
    ASSUME Inv, HelloTimeout
    PROVE  Inv'
  <1>1. /\ conn = "open" => DownGains(Frame("error"))
        /\ ~(conn = "open") => down' = down
    <2>1. Frame("error") \in DownFrames
      BY DEF DownFrames, Inv, TypeInv, TypeOK
    <2> QED
      BY <2>1, DownPut DEF HelloTimeout, EndSession, Answer
  <1>2. TypeInv'
    <2>1. up' \in Seq(UpFrames) /\ Len(up') <= NetCap + 1
      BY <1>1, Bounds DEF Inv, TypeInv, TypeOK, UpFrames, ConnInv, HelloTimeout, EndSession,
         Answer, DownGains
    <2>2. down' \in Seq(DownFrames) /\ Len(down') <= NetCap + 2
      BY <1>1, Bounds DEF Inv, TypeInv, TypeOK, OrderInv, Starting, HelloTimeout,
         EndSession, Answer, DownGains
    <2>3. {gotFrame, told}' \subseteq BOOLEAN
      <3>1. gotFrame \in BOOLEAN /\ told \in BOOLEAN
        BY DEF Inv, TypeInv, TypeOK
      <3> QED
        BY <3>1, Zenon DEF HelloTimeout, EndSession, Answer, DownGains, shimVars, procVars
    <2>4. /\ daemon' \in {"up", "closing", "closed", "killed"}
          /\ conn' \in {"none", "dialled", "open", "shut", "cut"}
          /\ shim' \in {"start", "hello", "reading", "done", "dead"}
          /\ ses' \in {"none", "check", "hello", "launch", "running", "reaped", "over"}
          /\ pump' \in {"none", "read", "write", "terminate", "grace", "done"}
          /\ outs' \subseteq Outputs /\ connOK' \subseteq Outputs
          /\ proc' \in {"none", "alive", "dead", "reaped"} /\ code' \in Codes
      BY <1>1, Bounds DEF Inv, TypeInv, TypeOK, Codes, HelloTimeout, EndSession, Answer,
         DownGains, shimVars, procVars
    <2>5. result' \in {Frame(t) : t \in {"none", "unreachable", "lost"}} \cup DownFrames
      BY <1>1, Bounds DEF Inv, TypeInv, TypeOK, HelloTimeout, EndSession, Answer, DownGains,
         shimVars, procVars
    <2>6. /\ stdin'.held \in 0 .. PipeCap /\ stdin'.read \in 0 .. MaxIn
          /\ stdin' \in Stdin
      BY <1>1, Bounds, PlacesFinite DEF Inv, TypeInv, TypeOK, InputInv, Held, Stdin,
         HelloTimeout, EndSession, Answer, DownGains, shimVars, procVars
    <2>7. pipe' \in [Outputs -> 0 .. PipeCap] /\ written' \in [Outputs -> 0 .. MaxOut]
      BY <1>1, Bounds DEF Inv, TypeInv, TypeOK, HelloTimeout, EndSession, Answer, DownGains,
         shimVars, procVars
    <2>8. /\ sent' \in [stdin : 0 .. MaxIn, close : BOOLEAN, signals : Nat]
          /\ got' \in [Outputs -> Nat]
      BY <1>1, Bounds DEF Inv, TypeInv, TypeOK, HelloTimeout, EndSession, Answer, DownGains,
         shimVars, procVars
    <2> QED
      BY <2>1, <2>2, <2>3, <2>4, <2>5, <2>6, <2>7, <2>8 DEF TypeInv, TypeOK, UpFrames
  <1>3. ConnInv'
    BY <1>1, Bounds DEF Inv, ConnInv, AtWork, TypeInv, TypeOK, HelloTimeout, EndSession,
       Answer, DownGains, shimVars, procVars, Frame
  <1>4. ProcInv'
    BY <1>1, Bounds DEF Inv, ProcInv, Starting, Outputs, ConnInv, AtWork, TypeInv, TypeOK,
       HelloTimeout, EndSession, Answer, DownGains, shimVars, procVars, Frame
  <1>5. AnswerInv'
    BY <1>1, Bounds DEF Inv, AnswerInv, UnreachableNotRun, ConnInv, AtWork, ProcInv,
       TypeInv, TypeOK, HelloTimeout, EndSession, Answer, DownGains, shimVars, procVars,
       Frame
  <1>6. OrderInv'
    BY <1>1, Bounds DEF Inv, OrderInv, Ends, Outputs, TypeInv, TypeOK, ConnInv, AtWork,
       Starting, HelloTimeout, EndSession, Answer, DownGains, shimVars, procVars, Frame
  <1>7. OutputInv'
    BY <1>1, Bounds DEF Inv, OutputInv, Whole, Outputs, TypeInv, TypeOK, ConnInv, AtWork,
       ProcInv, Starting, OrderInv, HelloTimeout, EndSession, Answer, DownGains, shimVars,
       procVars, Frame
  <1>8. InputInv'
    BY <1>1, Bounds DEF Inv, InputInv, Feeding, Held, Stdin, AllThere, Starting, TypeInv,
       TypeOK, ConnInv, ProcInv, AtWork, HelloTimeout, EndSession, Answer, DownGains,
       shimVars, procVars, Frame
  <1> QED
    BY <1>2, <1>3, <1>4, <1>5, <1>6, <1>7, <1>8 DEF Inv

LEMMA RejectPreserves ==
    ASSUME Inv, Reject
    PROVE  Inv'
  <1>1. UpLoses
    BY UpTaken DEF Reject
  <1>2. /\ conn = "open" => DownGains(Frame("error"))
        /\ ~(conn = "open") => down' = down
    <2>1. Frame("error") \in DownFrames
      BY DEF DownFrames, Inv, TypeInv, TypeOK
    <2> QED
      BY <2>1, DownPut DEF Reject, EndSession, Answer
  <1>3. TypeInv'
    <2>1. up' \in Seq(UpFrames) /\ Len(up') <= NetCap + 1
      BY <1>1, <1>2, Bounds DEF Inv, TypeInv, TypeOK, UpFrames, ConnInv, Reject, EndSession,
         Answer, UpLoses, DownGains
    <2>2. down' \in Seq(DownFrames) /\ Len(down') <= NetCap + 2
      BY <1>1, <1>2, Bounds DEF Inv, TypeInv, TypeOK, OrderInv, Starting, Reject,
         EndSession, Answer, UpLoses, DownGains
    <2>3. {gotFrame, told}' \subseteq BOOLEAN
      <3>1. gotFrame \in BOOLEAN /\ told \in BOOLEAN
        BY DEF Inv, TypeInv, TypeOK
      <3> QED
        BY <3>1, Zenon DEF Reject, EndSession, Answer, UpLoses, DownGains, shimVars,
           procVars
    <2>4. /\ daemon' \in {"up", "closing", "closed", "killed"}
          /\ conn' \in {"none", "dialled", "open", "shut", "cut"}
          /\ shim' \in {"start", "hello", "reading", "done", "dead"}
          /\ ses' \in {"none", "check", "hello", "launch", "running", "reaped", "over"}
          /\ pump' \in {"none", "read", "write", "terminate", "grace", "done"}
          /\ outs' \subseteq Outputs /\ connOK' \subseteq Outputs
          /\ proc' \in {"none", "alive", "dead", "reaped"} /\ code' \in Codes
      BY <1>1, <1>2, Bounds DEF Inv, TypeInv, TypeOK, Codes, Reject, EndSession, Answer,
         UpLoses, DownGains, shimVars, procVars
    <2>5. result' \in {Frame(t) : t \in {"none", "unreachable", "lost"}} \cup DownFrames
      BY <1>1, <1>2, Bounds DEF Inv, TypeInv, TypeOK, Reject, EndSession, Answer, UpLoses,
         DownGains, shimVars, procVars
    <2>6. /\ stdin'.held \in 0 .. PipeCap /\ stdin'.read \in 0 .. MaxIn
          /\ stdin' \in Stdin
      BY <1>1, <1>2, Bounds, PlacesFinite DEF Inv, TypeInv, TypeOK, InputInv, Held, Stdin,
         Reject, EndSession, Answer, UpLoses, DownGains, shimVars, procVars
    <2>7. pipe' \in [Outputs -> 0 .. PipeCap] /\ written' \in [Outputs -> 0 .. MaxOut]
      BY <1>1, <1>2, Bounds DEF Inv, TypeInv, TypeOK, Reject, EndSession, Answer, UpLoses,
         DownGains, shimVars, procVars
    <2>8. /\ sent' \in [stdin : 0 .. MaxIn, close : BOOLEAN, signals : Nat]
          /\ got' \in [Outputs -> Nat]
      BY <1>1, <1>2, Bounds DEF Inv, TypeInv, TypeOK, Reject, EndSession, Answer, UpLoses,
         DownGains, shimVars, procVars
    <2> QED
      BY <2>1, <2>2, <2>3, <2>4, <2>5, <2>6, <2>7, <2>8 DEF TypeInv, TypeOK, UpFrames
  <1>4. ConnInv'
    BY <1>1, <1>2, Bounds DEF Inv, ConnInv, AtWork, TypeInv, TypeOK, Reject, EndSession,
       Answer, UpLoses, DownGains, shimVars, procVars, Frame
  <1>5. ProcInv'
    BY <1>1, <1>2, Bounds DEF Inv, ProcInv, Starting, Outputs, ConnInv, AtWork, TypeInv,
       TypeOK, Reject, EndSession, Answer, UpLoses, DownGains, shimVars, procVars, Frame
  <1>6. AnswerInv'
    BY <1>1, <1>2, Bounds DEF Inv, AnswerInv, UnreachableNotRun, ConnInv, AtWork, ProcInv,
       TypeInv, TypeOK, Reject, EndSession, Answer, UpLoses, DownGains, shimVars, procVars,
       Frame
  <1>7. OrderInv'
    BY <1>1, <1>2, Bounds DEF Inv, OrderInv, Ends, Outputs, TypeInv, TypeOK, ConnInv,
       AtWork, Starting, Reject, EndSession, Answer, UpLoses, DownGains, shimVars, procVars,
       Frame
  <1>8. OutputInv'
    BY <1>1, <1>2, Bounds DEF Inv, OutputInv, Whole, Outputs, TypeInv, TypeOK, ConnInv,
       AtWork, ProcInv, Starting, OrderInv, Reject, EndSession, Answer, UpLoses, DownGains,
       shimVars, procVars, Frame
  <1>9. InputInv'
    BY <1>1, <1>2, Bounds DEF Inv, InputInv, Feeding, Held, Stdin, AllThere, Starting,
       TypeInv, TypeOK, ConnInv, ProcInv, AtWork, Reject, EndSession, Answer, UpLoses,
       DownGains, shimVars, procVars, Frame
  <1> QED
    BY <1>3, <1>4, <1>5, <1>6, <1>7, <1>8, <1>9 DEF Inv

LEMMA AcceptHelloPreserves ==
    ASSUME Inv, AcceptHello
    PROVE  Inv'
  <1>1. UpLoses
    BY UpTaken DEF AcceptHello
  <1>2. TypeInv'
    <2>1. up' \in Seq(UpFrames) /\ Len(up') <= NetCap + 1
      BY <1>1, Bounds DEF Inv, TypeInv, TypeOK, UpFrames, ConnInv, AcceptHello, UpLoses
    <2>2. down' \in Seq(DownFrames) /\ Len(down') <= NetCap + 2
      BY <1>1, Bounds DEF Inv, TypeInv, TypeOK, OrderInv, Starting, AcceptHello, UpLoses
    <2>3. {gotFrame, told}' \subseteq BOOLEAN
      <3>1. gotFrame \in BOOLEAN /\ told \in BOOLEAN
        BY DEF Inv, TypeInv, TypeOK
      <3> QED
        BY <3>1, Zenon DEF AcceptHello, UpLoses, shimVars, procVars
    <2>4. /\ daemon' \in {"up", "closing", "closed", "killed"}
          /\ conn' \in {"none", "dialled", "open", "shut", "cut"}
          /\ shim' \in {"start", "hello", "reading", "done", "dead"}
          /\ ses' \in {"none", "check", "hello", "launch", "running", "reaped", "over"}
          /\ pump' \in {"none", "read", "write", "terminate", "grace", "done"}
          /\ outs' \subseteq Outputs /\ connOK' \subseteq Outputs
          /\ proc' \in {"none", "alive", "dead", "reaped"} /\ code' \in Codes
      BY <1>1, Bounds DEF Inv, TypeInv, TypeOK, Codes, AcceptHello, UpLoses, shimVars,
         procVars
    <2>5. result' \in {Frame(t) : t \in {"none", "unreachable", "lost"}} \cup DownFrames
      BY <1>1, Bounds DEF Inv, TypeInv, TypeOK, AcceptHello, UpLoses, shimVars, procVars
    <2>6. /\ stdin'.held \in 0 .. PipeCap /\ stdin'.read \in 0 .. MaxIn
          /\ stdin' \in Stdin
      BY <1>1, Bounds, PlacesFinite DEF Inv, TypeInv, TypeOK, InputInv, Held, Stdin,
         AcceptHello, UpLoses, shimVars, procVars
    <2>7. pipe' \in [Outputs -> 0 .. PipeCap] /\ written' \in [Outputs -> 0 .. MaxOut]
      BY <1>1, Bounds DEF Inv, TypeInv, TypeOK, AcceptHello, UpLoses, shimVars, procVars
    <2>8. /\ sent' \in [stdin : 0 .. MaxIn, close : BOOLEAN, signals : Nat]
          /\ got' \in [Outputs -> Nat]
      BY <1>1, Bounds DEF Inv, TypeInv, TypeOK, AcceptHello, UpLoses, shimVars, procVars
    <2> QED
      BY <2>1, <2>2, <2>3, <2>4, <2>5, <2>6, <2>7, <2>8 DEF TypeInv, TypeOK, UpFrames
  <1>3. ConnInv'
    BY <1>1, Bounds DEF Inv, ConnInv, AtWork, TypeInv, TypeOK, AcceptHello, UpLoses,
       shimVars, procVars, Frame
  <1>4. ProcInv'
    BY <1>1, Bounds DEF Inv, ProcInv, Starting, Outputs, ConnInv, AtWork, TypeInv, TypeOK,
       AcceptHello, UpLoses, shimVars, procVars, Frame
  <1>5. AnswerInv'
    BY <1>1, Bounds DEF Inv, AnswerInv, UnreachableNotRun, ConnInv, AtWork, ProcInv,
       TypeInv, TypeOK, AcceptHello, UpLoses, shimVars, procVars, Frame
  <1>6. OrderInv'
    BY <1>1, Bounds DEF Inv, OrderInv, Ends, Outputs, TypeInv, TypeOK, ConnInv, AtWork,
       Starting, AcceptHello, UpLoses, shimVars, procVars, Frame
  <1>7. OutputInv'
    BY <1>1, Bounds DEF Inv, OutputInv, Whole, Outputs, TypeInv, TypeOK, ConnInv, AtWork,
       ProcInv, Starting, OrderInv, AcceptHello, UpLoses, shimVars, procVars, Frame
  <1>8. InputInv'
    BY <1>1, Bounds DEF Inv, InputInv, Feeding, Held, Stdin, AllThere, Starting, TypeInv,
       TypeOK, ConnInv, ProcInv, AtWork, AcceptHello, UpLoses, shimVars, procVars, Frame
  <1> QED
    BY <1>2, <1>3, <1>4, <1>5, <1>6, <1>7, <1>8 DEF Inv

LEMMA LaunchFailsPreserves ==
    ASSUME Inv, LaunchFails
    PROVE  Inv'
  <1>1. /\ ses = "launch" /\ ses' = "over" /\ proc = "none" /\ shim # "start"
        /\ down \in Seq(DownFrames) /\ Len(down) <= NetCap + 2
        /\ conn = "open" => down = <<>> /\ \A o \in Outputs : got[o] = 0
    BY DEF LaunchFails, EndSession, Inv, TypeInv, TypeOK, ConnInv, ProcInv, OrderInv,
       Starting
  <1>2. /\ conn # "open" => down' = down
        /\ conn = "open" =>
              /\ down' \in Seq(DownFrames) /\ Len(down') = 2
              /\ down'[1] = Frame("stderr") /\ down'[2] = Exit(127)
    <2> DEFINE e == Frame("stderr")
               x == Exit(127)
    <2>1. e \in DownFrames /\ x \in DownFrames
      BY DEF DownFrames, Outputs, Codes
    <2>2. down' = IF conn = "open" THEN down \o <<e, x>> ELSE down
      BY DEF LaunchFails, EndSession, Answer
    <2>3. conn = "open" => down = <<>>
      BY <1>1
    <2> HIDE DEF e, x
    <2>4. <<>> \o <<e, x>> = <<e, x>> /\ <<e, x>> \in Seq(DownFrames)
      BY <2>1
    <2>5. conn = "open" => /\ down' \in Seq(DownFrames) /\ Len(down') = 2
                          /\ down'[1] = e /\ down'[2] = x
      BY <2>2, <2>3, <2>4
    <2> QED
      BY <2>2, <2>5 DEF e, x
  <1>3. TypeInv'
    <2>1. up' \in Seq(UpFrames) /\ Len(up') <= NetCap + 1
      BY <1>1, <1>2, Bounds DEF Inv, TypeInv, TypeOK, UpFrames, ConnInv, LaunchFails,
         EndSession, Answer
    <2>2. down' \in Seq(DownFrames) /\ Len(down') <= NetCap + 2
      <3>1. CASE conn = "open"
        <4>1. down' \in Seq(DownFrames) /\ Len(down') = 2
          BY <1>2, <3>1
        <4> QED
          BY <4>1, Bounds
      <3>2. CASE conn # "open"
        BY <1>1, <1>2, <3>2
      <3> QED
        BY <3>1, <3>2
    <2>3. {gotFrame, told}' \subseteq BOOLEAN
      <3>1. gotFrame \in BOOLEAN /\ told \in BOOLEAN
        BY DEF Inv, TypeInv, TypeOK
      <3> QED
        BY <3>1, Zenon DEF LaunchFails, EndSession, Answer, shimVars, procVars
    <2>4. /\ daemon' \in {"up", "closing", "closed", "killed"}
          /\ conn' \in {"none", "dialled", "open", "shut", "cut"}
          /\ shim' \in {"start", "hello", "reading", "done", "dead"}
          /\ ses' \in {"none", "check", "hello", "launch", "running", "reaped", "over"}
          /\ pump' \in {"none", "read", "write", "terminate", "grace", "done"}
          /\ outs' \subseteq Outputs /\ connOK' \subseteq Outputs
          /\ proc' \in {"none", "alive", "dead", "reaped"} /\ code' \in Codes
      BY <1>1, <1>2, Bounds DEF Inv, TypeInv, TypeOK, Codes, LaunchFails, EndSession,
         Answer, shimVars, procVars
    <2>5. result' \in {Frame(t) : t \in {"none", "unreachable", "lost"}} \cup DownFrames
      BY <1>1, <1>2, Bounds DEF Inv, TypeInv, TypeOK, LaunchFails, EndSession, Answer,
         shimVars, procVars
    <2>6. /\ stdin'.held \in 0 .. PipeCap /\ stdin'.read \in 0 .. MaxIn
          /\ stdin' \in Stdin
      BY <1>1, <1>2, Bounds, PlacesFinite DEF Inv, TypeInv, TypeOK, InputInv, Held, Stdin,
         LaunchFails, EndSession, Answer, shimVars, procVars
    <2>7. pipe' \in [Outputs -> 0 .. PipeCap] /\ written' \in [Outputs -> 0 .. MaxOut]
      BY <1>1, <1>2, Bounds DEF Inv, TypeInv, TypeOK, LaunchFails, EndSession, Answer,
         shimVars, procVars
    <2>8. /\ sent' \in [stdin : 0 .. MaxIn, close : BOOLEAN, signals : Nat]
          /\ got' \in [Outputs -> Nat]
      BY <1>1, <1>2, Bounds DEF Inv, TypeInv, TypeOK, LaunchFails, EndSession, Answer,
         shimVars, procVars
    <2> QED
      BY <2>1, <2>2, <2>3, <2>4, <2>5, <2>6, <2>7, <2>8 DEF TypeInv, TypeOK, UpFrames
  <1>4. ConnInv'
    BY <1>1, <1>2, Bounds DEF Inv, ConnInv, AtWork, Starting, TypeInv, TypeOK, LaunchFails,
       EndSession, Answer, shimVars, procVars, Frame, Exit
  <1>5. ProcInv'
    BY <1>1, <1>2, Bounds DEF Inv, ProcInv, Starting, Outputs, ConnInv, AtWork, TypeInv,
       TypeOK, LaunchFails, EndSession, Answer, shimVars, procVars, Frame, Exit
  <1>6. AnswerInv'
    BY <1>1, <1>2, Bounds DEF Inv, AnswerInv, UnreachableNotRun, ConnInv, AtWork, ProcInv,
       TypeInv, TypeOK, LaunchFails, EndSession, Answer, shimVars, procVars, Frame, Exit
  <1>7. OrderInv'
    <2>1. ses' = "over" /\ "over" \notin Starting
      BY <1>1 DEF Starting
    <2>2. CASE conn = "open"
      <3>1. Len(down') = 2 /\ down'[1] = Frame("stderr")
        BY <1>2, <2>2
      <3>2. ~Ends(down'[1])
        BY <3>1 DEF Ends, Frame
      <3> QED
        BY <2>1, <3>1, <3>2 DEF OrderInv
    <2>3. CASE conn # "open"
      BY <1>1, <1>2, <2>1, <2>3 DEF OrderInv, Inv, Starting
    <2> QED
      BY <2>2, <2>3
  <1>8. OutputInv'
    <2>1. /\ conn' = (IF conn = "open" THEN "shut" ELSE conn) /\ result' = result
          /\ got' = got /\ written' = written /\ proc' = proc /\ code' = code
      BY DEF LaunchFails, EndSession, shimVars, procVars
    <2>2. conn' \notin {"none", "dialled", "open"}
      BY <1>1, <2>1 DEF Inv, ConnInv, AtWork
    <2>3. ASSUME NEW i \in 1 .. Len(down'), down'[i].type = "exit", down'[i].code # 127
          PROVE  /\ proc' = "reaped" /\ down'[i].code = code'
                 /\ \A o \in Outputs : got'[o] + Count(down', o) = written'[o]
      <3>1. CASE conn = "open"
        <4>1. Len(down') = 2
          BY <1>2, <3>1
        <4>2. i \in 1 .. 2
          BY <4>1
        <4> QED
          BY <1>2, <2>3, <3>1, <4>2 DEF Frame, Exit
      <3>2. CASE conn # "open"
        BY <1>2, <2>1, <2>3, <3>2 DEF Inv, OutputInv
      <3> QED
        BY <3>1, <3>2
    <2>4. result'.type = "exit" /\ result'.code # 127 =>
             proc' = "reaped" /\ result'.code = code' /\ got' = written'
      BY <2>1 DEF Inv, OutputInv
    <2> QED
      BY <2>2, <2>3, <2>4 DEF OutputInv
  <1>9. InputInv'
    BY <1>1, <1>2, Bounds DEF Inv, InputInv, Feeding, Held, Stdin, AllThere, Starting,
       TypeInv, TypeOK, ConnInv, ProcInv, AtWork, LaunchFails, EndSession, Answer, shimVars,
       procVars, Frame, Exit
  <1> QED
    BY <1>3, <1>4, <1>5, <1>6, <1>7, <1>8, <1>9 DEF Inv

LEMMA LaunchPreserves ==
    ASSUME Inv, Launch
    PROVE  Inv'
  <1>1. TypeInv'
    BY Bounds DEF Inv, TypeInv, TypeOK, Outputs, ConnInv, ProcInv, InputInv, Held, Stdin,
       Launch, shimVars, Frame
  <1>2. ConnInv'
    BY Bounds DEF Inv, ConnInv, AtWork, TypeInv, TypeOK, Launch, shimVars, Frame
  <1>3. ProcInv'
    BY Bounds DEF Inv, ProcInv, Starting, Outputs, ConnInv, AtWork, TypeInv, TypeOK, Launch,
       shimVars, Frame
  <1>4. AnswerInv'
    BY Bounds DEF Inv, AnswerInv, UnreachableNotRun, ConnInv, AtWork, ProcInv, TypeInv,
       TypeOK, Launch, shimVars, Frame
  <1>5. OrderInv'
    BY Bounds DEF Inv, OrderInv, Ends, Outputs, TypeInv, TypeOK, ConnInv, AtWork, Starting,
       Launch, shimVars, Frame
  <1>6. OutputInv'
    BY Bounds DEF Inv, OutputInv, Whole, Outputs, TypeInv, TypeOK, ConnInv, AtWork, ProcInv,
       Starting, OrderInv, Launch, shimVars, Frame
  <1>7. InputInv'
    BY Bounds DEF Inv, InputInv, Feeding, Held, Stdin, AllThere, Starting, TypeInv, TypeOK,
       ConnInv, ProcInv, AtWork, Launch, shimVars, Frame
  <1> QED
    BY <1>1, <1>2, <1>3, <1>4, <1>5, <1>6, <1>7 DEF Inv

LEMMA PumpChunkPreserves ==
    ASSUME Inv, NEW o \in Outputs, PumpChunk(o)
    PROVE  Inv'
  <1>1. /\ conn = "open" /\ o \in connOK => DownGains(Frame(o))
        /\ ~(conn = "open" /\ o \in connOK) => down' = down
    <2>1. Frame(o) \in DownFrames
      BY DEF DownFrames, Inv, TypeInv, TypeOK
    <2> QED
      BY <2>1, DownPut DEF PumpChunk, Answer, Room
  <1>2. /\ \A p \in Outputs : pipe'[p] = IF p = o THEN pipe[p] - 1 ELSE pipe[p]
        /\ pipe' \in [Outputs -> 0 .. PipeCap] /\ pipe[o] > 0
        /\ \A p \in Outputs : pipe[p] \in Nat
    <2>1. pipe \in [Outputs -> 0 .. PipeCap] /\ pipe[o] > 0
      BY DEF PumpChunk, Inv, TypeInv, TypeOK
    <2>2. pipe[o] - 1 \in 0 .. PipeCap /\ \A p \in Outputs : pipe[p] \in Nat
      BY <2>1, Bounds
    <2>3. pipe' = [pipe EXCEPT ![o] = pipe[o] - 1]
      BY DEF PumpChunk
    <2> QED
      BY <2>1, <2>2, <2>3
  <1>3. /\ proc # "none" /\ ses \notin Starting /\ conn \notin {"none", "dialled"}
        /\ conn = "open" => ses \in {"running", "reaped"}
    <2>1. proc # "none"
      BY <1>2 DEF Inv, ProcInv
    <2> QED
      BY <2>1 DEF Inv, ProcInv, ConnInv, AtWork, Starting
  <1>4. /\ o \in outs /\ UNCHANGED <<daemon, conn, up, shimVars, ses, pump, outs, proc, code,
                                     told, stdin, written>>
        /\ conn = "open" => connOK' = connOK
    BY DEF PumpChunk
  <1>5. TypeInv'
    <2>1. up' \in Seq(UpFrames) /\ Len(up') <= NetCap + 1
      BY <1>1, Bounds DEF Inv, TypeInv, TypeOK, UpFrames, ConnInv, PumpChunk, Answer, Room,
         DownGains
    <2>2. down' \in Seq(DownFrames) /\ Len(down') <= NetCap + 2
      BY <1>1, Bounds DEF Inv, TypeInv, TypeOK, OrderInv, Starting, PumpChunk, Answer, Room,
         DownGains
    <2>3. {gotFrame, told}' \subseteq BOOLEAN
      <3>1. gotFrame \in BOOLEAN /\ told \in BOOLEAN
        BY DEF Inv, TypeInv, TypeOK
      <3> QED
        BY <3>1, Zenon DEF PumpChunk, Answer, Room, DownGains, shimVars
    <2>4. /\ daemon' \in {"up", "closing", "closed", "killed"}
          /\ conn' \in {"none", "dialled", "open", "shut", "cut"}
          /\ shim' \in {"start", "hello", "reading", "done", "dead"}
          /\ ses' \in {"none", "check", "hello", "launch", "running", "reaped", "over"}
          /\ pump' \in {"none", "read", "write", "terminate", "grace", "done"}
          /\ outs' \subseteq Outputs /\ connOK' \subseteq Outputs
          /\ proc' \in {"none", "alive", "dead", "reaped"} /\ code' \in Codes
      BY <1>1, Bounds, SMTT(20) DEF Inv, TypeInv, TypeOK, Codes, PumpChunk, Answer, Room,
         DownGains,
         shimVars
    <2>5. result' \in {Frame(t) : t \in {"none", "unreachable", "lost"}} \cup DownFrames
      BY <1>1, Bounds DEF Inv, TypeInv, TypeOK, PumpChunk, Answer, Room, DownGains, shimVars
    <2>6. /\ stdin'.held \in 0 .. PipeCap /\ stdin'.read \in 0 .. MaxIn
          /\ stdin' \in Stdin
      BY <1>1, Bounds, PlacesFinite DEF Inv, TypeInv, TypeOK, InputInv, Held, Stdin,
         PumpChunk, Answer, Room, DownGains, shimVars
    <2>7. pipe' \in [Outputs -> 0 .. PipeCap] /\ written' \in [Outputs -> 0 .. MaxOut]
      BY <1>2, <1>4 DEF Inv, TypeInv, TypeOK
    <2>8. /\ sent' \in [stdin : 0 .. MaxIn, close : BOOLEAN, signals : Nat]
          /\ got' \in [Outputs -> Nat]
      BY <1>1, Bounds DEF Inv, TypeInv, TypeOK, PumpChunk, Answer, Room, DownGains, shimVars
    <2> QED
      BY <2>1, <2>2, <2>3, <2>4, <2>5, <2>6, <2>7, <2>8 DEF TypeInv, TypeOK, UpFrames
  <1>6. ConnInv'
    BY <1>1, <1>2, <1>3, <1>4, Bounds DEF Inv, ConnInv, AtWork, Starting, TypeInv, TypeOK,
       PumpChunk, Answer, Room, DownGains, shimVars, Frame
  <1>7. ProcInv'
    BY <1>2, <1>3, <1>4 DEF Inv, ProcInv, Starting
  <1>8. AnswerInv'
    BY <1>1, <1>2, <1>3, <1>4, Bounds DEF Inv, AnswerInv, UnreachableNotRun, ConnInv,
       AtWork, ProcInv, TypeInv, TypeOK, PumpChunk, Answer, Room, DownGains, shimVars, Frame
  <1>9. OrderInv'
    <2>1. ses' = ses /\ conn' = conn
      BY <1>4
    <2>2. CASE conn = "open" /\ o \in connOK
      <3>1. \A i \in 1 .. Len(down) : ~Ends(down[i])
        BY <1>3, <2>2 DEF Inv, OrderInv
      <3>2. \A i \in 1 .. Len(down') : ~Ends(down'[i])
        <4>1. \A i \in 1 .. Len(down') : i \in 1 .. Len(down) \/ i = Len(down) + 1
          BY <1>1, <2>2 DEF DownGains
        <4>2. ~Ends(Frame(o))
          BY DEF Ends, Frame, Outputs
        <4> QED
          BY <1>1, <2>2, <3>1, <4>1, <4>2 DEF DownGains
      <3> QED
        BY <1>3, <2>1, <3>2 DEF OrderInv
    <2>3. CASE ~(conn = "open" /\ o \in connOK)
      BY <1>1, <1>3, <2>1, <2>3 DEF OrderInv, Inv
    <2> QED
      BY <2>2, <2>3
  <1>10. OutputInv'
    <2>1. UNCHANGED <<conn, got, result, proc, code, written>>
      BY <1>4 DEF shimVars
    <2>2. CASE conn = "open"
      <3>1. o \in connOK /\ connOK' = Outputs /\ DownGains(Frame(o)) /\ \A p \in Outputs : Whole(p)
        BY <1>1, <1>4, <2>2 DEF Inv, OutputInv
      <3>2. ASSUME NEW p \in Outputs
            PROVE  Whole(p)'
        <4>1. Count(down', p) = IF p = o THEN Count(down, p) + 1 ELSE Count(down, p)
          BY <3>1 DEF DownGains, Frame
        <4>2. Count(down, p) \in Nat
          BY <3>1 DEF DownGains
        <4>3. got[p] \in Nat /\ written[p] \in Nat
          BY Bounds DEF Inv, TypeInv, TypeOK
        <4>4. got[p] + Count(down, p) + pipe[p] = written[p]
          BY <3>1 DEF Whole
        <4>5. got[p] + Count(down', p) + pipe'[p] = written[p]
          BY <1>2, <4>1, <4>2, <4>3, <4>4
        <4> QED
          BY <2>1, <4>5 DEF Whole
      <3>3. \A i \in 1 .. Len(down') : down'[i].type # "exit"
        <4>1. \A i \in 1 .. Len(down) : down[i].type # "exit"
          BY <1>3, <2>2 DEF Inv, OrderInv, Ends
        <4>2. \A i \in 1 .. Len(down') : i \in 1 .. Len(down) \/ i = Len(down) + 1
          BY <3>1 DEF DownGains
        <4>3. down'[Len(down) + 1].type # "exit"
          BY <3>1 DEF DownGains, Frame, Outputs
        <4> QED
          BY <3>1, <4>1, <4>2, <4>3 DEF DownGains
      <3> QED
        BY <2>1, <3>1, <3>2, <3>3 DEF Inv, OutputInv
    <2>3. CASE conn # "open"
      <3>1. down' = down
        BY <1>1, <2>3
      <3> QED
        BY <1>3, <2>1, <2>3, <3>1 DEF Inv, OutputInv
    <2> QED
      BY <2>2, <2>3
  <1>11. InputInv'
    BY <1>1, <1>2, <1>3, <1>4, Bounds DEF Inv, InputInv, Feeding, Held, Stdin, AllThere,
       Starting, TypeInv, TypeOK, ConnInv, ProcInv, AtWork, PumpChunk, Answer, Room,
       DownGains, shimVars, Frame
  <1> QED
    BY <1>5, <1>6, <1>7, <1>8, <1>9, <1>10, <1>11 DEF Inv

LEMMA PumpEOFPreserves ==
    ASSUME Inv, NEW o \in Outputs, PumpEOF(o)
    PROVE  Inv'
  <1>1. TypeInv'
    BY Bounds, ZenonT(40) DEF Inv, TypeInv, TypeOK, Outputs, ConnInv, ProcInv, InputInv,
       Held, Stdin,
       PumpEOF, shimVars, procVars, Frame
  <1>2. ConnInv'
    BY Bounds DEF Inv, ConnInv, AtWork, TypeInv, TypeOK, PumpEOF, shimVars, procVars, Frame
  <1>3. ProcInv'
    BY Bounds DEF Inv, ProcInv, Starting, Outputs, ConnInv, AtWork, TypeInv, TypeOK,
       PumpEOF, shimVars, procVars, Frame
  <1>4. AnswerInv'
    BY Bounds DEF Inv, AnswerInv, UnreachableNotRun, ConnInv, AtWork, ProcInv, TypeInv,
       TypeOK, PumpEOF, shimVars, procVars, Frame
  <1>5. OrderInv'
    BY Bounds DEF Inv, OrderInv, Ends, Outputs, TypeInv, TypeOK, ConnInv, AtWork, Starting,
       PumpEOF, shimVars, procVars, Frame
  <1>6. OutputInv'
    BY Bounds DEF Inv, OutputInv, Whole, Outputs, TypeInv, TypeOK, ConnInv, AtWork, ProcInv,
       Starting, OrderInv, PumpEOF, shimVars, procVars, Frame
  <1>7. InputInv'
    BY Bounds DEF Inv, InputInv, Feeding, Held, Stdin, AllThere, Starting, TypeInv, TypeOK,
       ConnInv, ProcInv, AtWork, PumpEOF, shimVars, procVars, Frame
  <1> QED
    BY <1>1, <1>2, <1>3, <1>4, <1>5, <1>6, <1>7 DEF Inv

LEMMA ReapPreserves ==
    ASSUME Inv, Reap
    PROVE  Inv'
  <1>1. TypeInv'
    BY Bounds DEF Inv, TypeInv, TypeOK, Outputs, ConnInv, ProcInv, InputInv, Held, Stdin,
       Reap, shimVars, Frame
  <1>2. ConnInv'
    BY Bounds DEF Inv, ConnInv, AtWork, TypeInv, TypeOK, Reap, shimVars, Frame
  <1>3. ProcInv'
    BY Bounds DEF Inv, ProcInv, Starting, Outputs, ConnInv, AtWork, TypeInv, TypeOK, Reap,
       shimVars, Frame
  <1>4. AnswerInv'
    BY Bounds DEF Inv, AnswerInv, UnreachableNotRun, ConnInv, AtWork, ProcInv, TypeInv,
       TypeOK, Reap, shimVars, Frame
  <1>5. OrderInv'
    BY Bounds DEF Inv, OrderInv, Ends, Outputs, TypeInv, TypeOK, ConnInv, AtWork, Starting,
       Reap, shimVars, Frame
  <1>6. OutputInv'
    BY Bounds DEF Inv, OutputInv, Whole, Outputs, TypeInv, TypeOK, ConnInv, AtWork, ProcInv,
       Starting, OrderInv, Reap, shimVars, Frame
  <1>7. InputInv'
    BY Bounds DEF Inv, InputInv, Feeding, Held, Stdin, AllThere, Starting, TypeInv, TypeOK,
       ConnInv, ProcInv, AtWork, Reap, shimVars, Frame
  <1> QED
    BY <1>1, <1>2, <1>3, <1>4, <1>5, <1>6, <1>7 DEF Inv

LEMMA SendExitPreserves ==
    ASSUME Inv, SendExit
    PROVE  Inv'
  <1>1. /\ conn = "open" => DownGains(Exit(code))
        /\ ~(conn = "open") => down' = down
    <2>1. Exit(code) \in DownFrames
      BY DEF DownFrames, Inv, TypeInv, TypeOK
    <2> QED
      BY <2>1, DownPut DEF SendExit, EndSession, Answer, Room
  <1>2. TypeInv'
    <2>1. up' \in Seq(UpFrames) /\ Len(up') <= NetCap + 1
      BY <1>1, Bounds DEF Inv, TypeInv, TypeOK, UpFrames, ConnInv, SendExit, EndSession,
         Answer, Room, DownGains
    <2>2. down' \in Seq(DownFrames) /\ Len(down') <= NetCap + 2
      BY <1>1, Bounds DEF Inv, TypeInv, TypeOK, OrderInv, Starting, SendExit, EndSession,
         Answer, Room, DownGains
    <2>3. {gotFrame, told}' \subseteq BOOLEAN
      <3>1. gotFrame \in BOOLEAN /\ told \in BOOLEAN
        BY DEF Inv, TypeInv, TypeOK
      <3> QED
        BY <3>1, Zenon DEF SendExit, EndSession, Answer, Room, DownGains, shimVars, procVars
    <2>4. /\ daemon' \in {"up", "closing", "closed", "killed"}
          /\ conn' \in {"none", "dialled", "open", "shut", "cut"}
          /\ shim' \in {"start", "hello", "reading", "done", "dead"}
          /\ ses' \in {"none", "check", "hello", "launch", "running", "reaped", "over"}
          /\ pump' \in {"none", "read", "write", "terminate", "grace", "done"}
          /\ outs' \subseteq Outputs /\ connOK' \subseteq Outputs
          /\ proc' \in {"none", "alive", "dead", "reaped"} /\ code' \in Codes
      BY <1>1, Bounds DEF Inv, TypeInv, TypeOK, Codes, SendExit, EndSession, Answer, Room,
         DownGains, shimVars, procVars
    <2>5. result' \in {Frame(t) : t \in {"none", "unreachable", "lost"}} \cup DownFrames
      BY <1>1, Bounds DEF Inv, TypeInv, TypeOK, SendExit, EndSession, Answer, Room,
         DownGains, shimVars, procVars
    <2>6. /\ stdin'.held \in 0 .. PipeCap /\ stdin'.read \in 0 .. MaxIn
          /\ stdin' \in Stdin
      BY <1>1, Bounds, PlacesFinite DEF Inv, TypeInv, TypeOK, InputInv, Held, Stdin,
         SendExit, EndSession, Answer, Room, DownGains, shimVars, procVars
    <2>7. pipe' \in [Outputs -> 0 .. PipeCap] /\ written' \in [Outputs -> 0 .. MaxOut]
      BY <1>1, Bounds DEF Inv, TypeInv, TypeOK, SendExit, EndSession, Answer, Room,
         DownGains, shimVars, procVars
    <2>8. /\ sent' \in [stdin : 0 .. MaxIn, close : BOOLEAN, signals : Nat]
          /\ got' \in [Outputs -> Nat]
      BY <1>1, Bounds DEF Inv, TypeInv, TypeOK, SendExit, EndSession, Answer, Room,
         DownGains, shimVars, procVars
    <2> QED
      BY <2>1, <2>2, <2>3, <2>4, <2>5, <2>6, <2>7, <2>8 DEF TypeInv, TypeOK, UpFrames
  <1>3. ConnInv'
    BY <1>1, Bounds DEF Inv, ConnInv, AtWork, TypeInv, TypeOK, SendExit, EndSession, Answer,
       Room, DownGains, shimVars, procVars, Frame, Exit
  <1>4. ProcInv'
    BY <1>1, Bounds DEF Inv, ProcInv, Starting, Outputs, ConnInv, AtWork, TypeInv, TypeOK,
       SendExit, EndSession, Answer, Room, DownGains, shimVars, procVars, Frame, Exit
  <1>5. AnswerInv'
    BY <1>1, Bounds DEF Inv, AnswerInv, UnreachableNotRun, ConnInv, AtWork, ProcInv,
       TypeInv, TypeOK, SendExit, EndSession, Answer, Room, DownGains, shimVars, procVars,
       Frame, Exit
  <1>6. OrderInv'
    BY <1>1, Bounds, SMTT(20) DEF Inv, OrderInv, Ends, Outputs, TypeInv, TypeOK, ConnInv,
       AtWork,
       Starting, SendExit, EndSession, Answer, Room, DownGains, shimVars, procVars, Frame,
       Exit
  <1>7. OutputInv'
    <2>1. /\ ses = "reaped" /\ proc = "reaped" /\ \A o \in Outputs : pipe[o] = 0
          /\ conn' = (IF conn = "open" THEN "shut" ELSE conn) /\ result' = result
          /\ got' = got /\ written' = written /\ proc' = proc /\ code' = code
      BY DEF SendExit, EndSession, shimVars, procVars, Inv, ProcInv
    <2>2. conn' \notin {"none", "dialled", "open"}
      BY <2>1 DEF Inv, ConnInv, AtWork
    <2>3. CASE conn = "open"
      <3>1. DownGains(Exit(code))
        BY <1>1, <2>3
      <3>2. \A o \in Outputs : got[o] + Count(down, o) = written[o]
        <4>1. \A o \in Outputs : Whole(o)
          BY <2>3 DEF Inv, OutputInv
        <4>2. \A o \in Outputs : got[o] \in Nat /\ Count(down, o) \in Nat
          BY <3>1 DEF DownGains, Inv, TypeInv
        <4> QED
          BY <2>1, <4>1, <4>2 DEF Whole
      <3>3. \A o \in Outputs : Count(down', o) = Count(down, o)
        BY <3>1 DEF DownGains, Exit, Outputs
      <3>4. ASSUME NEW i \in 1 .. Len(down'), down'[i].type = "exit", down'[i].code # 127
            PROVE  /\ proc' = "reaped" /\ down'[i].code = code'
                   /\ \A o \in Outputs : got'[o] + Count(down', o) = written'[o]
        <4>1. i \in 1 .. Len(down) \/ i = Len(down) + 1
          BY <3>1 DEF DownGains
        <4>2. i \in 1 .. Len(down) => down'[i] = down[i]
          BY <3>1 DEF DownGains
        <4>3. i \in 1 .. Len(down) => down[i].code = code
          BY <3>4, <4>2 DEF Inv, OutputInv
        <4>4. i = Len(down) + 1 => down'[i].code = code
          BY <3>1 DEF DownGains, Exit
        <4> QED
          BY <2>1, <3>2, <3>3, <4>1, <4>2, <4>3, <4>4
      <3> QED
        BY <2>1, <2>2, <3>4 DEF Inv, OutputInv
    <2>4. CASE conn # "open"
      BY <1>1, <2>1, <2>2, <2>4 DEF Inv, OutputInv
    <2> QED
      BY <2>3, <2>4
  <1>8. InputInv'
    BY <1>1, Bounds DEF Inv, InputInv, Feeding, Held, Stdin, AllThere, Starting, TypeInv,
       TypeOK, ConnInv, ProcInv, AtWork, SendExit, EndSession, Answer, Room, DownGains,
       shimVars, procVars, Frame, Exit
  <1> QED
    BY <1>2, <1>3, <1>4, <1>5, <1>6, <1>7, <1>8 DEF Inv

-----------------------------------------------------------------------------
(* pumpConn.                                                               *)

LEMMA PumpStdinPreserves ==
    ASSUME Inv, PumpStdin
    PROVE  Inv'
  <1>1. UpLoses
    BY UpTaken DEF PumpStdin
  <1>2. TypeInv'
    <2>1. up' \in Seq(UpFrames) /\ Len(up') <= NetCap + 1
      BY <1>1, Bounds DEF Inv, TypeInv, TypeOK, UpFrames, ConnInv, PumpStdin, UpLoses
    <2>2. down' \in Seq(DownFrames) /\ Len(down') <= NetCap + 2
      BY <1>1, Bounds DEF Inv, TypeInv, TypeOK, OrderInv, Starting, PumpStdin, UpLoses
    <2>3. {gotFrame, told}' \subseteq BOOLEAN
      <3>1. gotFrame \in BOOLEAN /\ told \in BOOLEAN
        BY DEF Inv, TypeInv, TypeOK
      <3> QED
        BY <3>1, Zenon DEF PumpStdin, UpLoses, shimVars, procVars
    <2>4. /\ daemon' \in {"up", "closing", "closed", "killed"}
          /\ conn' \in {"none", "dialled", "open", "shut", "cut"}
          /\ shim' \in {"start", "hello", "reading", "done", "dead"}
          /\ ses' \in {"none", "check", "hello", "launch", "running", "reaped", "over"}
          /\ pump' \in {"none", "read", "write", "terminate", "grace", "done"}
          /\ outs' \subseteq Outputs /\ connOK' \subseteq Outputs
          /\ proc' \in {"none", "alive", "dead", "reaped"} /\ code' \in Codes
      BY <1>1, Bounds DEF Inv, TypeInv, TypeOK, Codes, PumpStdin, UpLoses, shimVars,
         procVars
    <2>5. result' \in {Frame(t) : t \in {"none", "unreachable", "lost"}} \cup DownFrames
      BY <1>1, Bounds DEF Inv, TypeInv, TypeOK, PumpStdin, UpLoses, shimVars, procVars
    <2>6. /\ stdin'.held \in 0 .. PipeCap /\ stdin'.read \in 0 .. MaxIn
          /\ stdin' \in Stdin
      BY <1>1, Bounds, PlacesFinite DEF Inv, TypeInv, TypeOK, InputInv, Held, Stdin,
         PumpStdin, UpLoses, shimVars, procVars
    <2>7. pipe' \in [Outputs -> 0 .. PipeCap] /\ written' \in [Outputs -> 0 .. MaxOut]
      BY <1>1, Bounds DEF Inv, TypeInv, TypeOK, PumpStdin, UpLoses, shimVars, procVars
    <2>8. /\ sent' \in [stdin : 0 .. MaxIn, close : BOOLEAN, signals : Nat]
          /\ got' \in [Outputs -> Nat]
      BY <1>1, Bounds DEF Inv, TypeInv, TypeOK, PumpStdin, UpLoses, shimVars, procVars
    <2> QED
      BY <2>1, <2>2, <2>3, <2>4, <2>5, <2>6, <2>7, <2>8 DEF TypeInv, TypeOK, UpFrames
  <1>3. ConnInv'
    BY <1>1, Bounds DEF Inv, ConnInv, AtWork, TypeInv, TypeOK, PumpStdin, UpLoses, shimVars,
       procVars, Frame
  <1>4. ProcInv'
    BY <1>1, Bounds DEF Inv, ProcInv, Starting, Outputs, ConnInv, AtWork, TypeInv, TypeOK,
       PumpStdin, UpLoses, shimVars, procVars, Frame
  <1>5. AnswerInv'
    BY <1>1, Bounds DEF Inv, AnswerInv, UnreachableNotRun, ConnInv, AtWork, ProcInv,
       TypeInv, TypeOK, PumpStdin, UpLoses, shimVars, procVars, Frame
  <1>6. OrderInv'
    BY <1>1, Bounds DEF Inv, OrderInv, Ends, Outputs, TypeInv, TypeOK, ConnInv, AtWork,
       Starting, PumpStdin, UpLoses, shimVars, procVars, Frame
  <1>7. OutputInv'
    BY <1>1, Bounds DEF Inv, OutputInv, Whole, Outputs, TypeInv, TypeOK, ConnInv, AtWork,
       ProcInv, Starting, OrderInv, PumpStdin, UpLoses, shimVars, procVars, Frame
  <1>8. InputInv'
    <2>1. /\ Held \in Nat /\ sent.stdin \in Nat /\ up \in Seq(UpFrames)
          /\ Count(up, "stdin") \in Nat /\ Len(up) \in Nat /\ InputInv
      BY InputTypes DEF Inv
    <2>2. /\ Head(up).type = "stdin" /\ sent' = sent /\ conn' = conn /\ stdin' = stdin
          /\ pump # "write" /\ pump' = "write" => stdin.open
          /\ Feeding' = Feeding /\ Held' = IF stdin.open THEN Held + 1 ELSE Held
      <3>1. stdin.read \in Nat /\ stdin.held \in Nat
        BY Bounds DEF Inv, TypeInv, Stdin
      <3> QED
        BY <3>1 DEF PumpStdin, Held, Feeding, shimVars, procVars
    <2>3. Held' + Count(up', "stdin") <= sent'.stdin
      BY <1>1, <2>1, <2>2 DEF InputInv, AllThere, Frame, UpLoses
    <2>4. pump' = "write" => stdin'.open
      BY <1>1, <2>1, <2>2 DEF InputInv, AllThere, Frame, UpLoses
    <2>5. \A i \in 1 .. Len(up') : up'[i].type = "close" =>
             sent'.close /\ \A j \in 1 .. Len(up') : j > i => up'[j].type # "stdin"
      BY <1>1, <2>1, <2>2 DEF InputInv, AllThere, Frame, UpLoses
    <2>6. Feeding' /\ conn' # "cut" => AllThere'
      BY <1>1, <2>1, <2>2 DEF InputInv, AllThere, Frame, UpLoses
    <2>7. Feeding' /\ (\E i \in 1 .. Len(up') : up'[i].type = "close") => AllThere'
      BY <1>1, <2>1, <2>2 DEF InputInv, AllThere, Frame, UpLoses
    <2>8. Feeding' /\ ~stdin'.open =>
             sent'.close /\ AllThere' /\ \A i \in 1 .. Len(up') : up'[i].type # "stdin"
      BY <1>1, <2>1, <2>2 DEF InputInv, AllThere, Frame, UpLoses
    <2> QED
      BY <2>3, <2>4, <2>5, <2>6, <2>7, <2>8 DEF InputInv
  <1> QED
    BY <1>2, <1>3, <1>4, <1>5, <1>6, <1>7, <1>8 DEF Inv

LEMMA PumpWritePreserves ==
    ASSUME Inv, PumpWrite
    PROVE  Inv'
  <1>1. /\ stdin' \in Stdin /\ stdin'.read = stdin.read
        /\ \/ stdin'.open = FALSE /\ stdin'.held = stdin.held /\ proc # "alive"
           \/ stdin'.open = stdin.open /\ stdin'.held = stdin.held + 1
    BY PumpWriteStdin
  <1>2. TypeInv'
    <2>1. up' \in Seq(UpFrames) /\ Len(up') <= NetCap + 1
      BY <1>1, Bounds DEF Inv, TypeInv, TypeOK, UpFrames, ConnInv, PumpWrite
    <2>2. down' \in Seq(DownFrames) /\ Len(down') <= NetCap + 2
      BY <1>1, Bounds DEF Inv, TypeInv, TypeOK, OrderInv, Starting, PumpWrite
    <2>3. {gotFrame, told}' \subseteq BOOLEAN
      <3>1. gotFrame \in BOOLEAN /\ told \in BOOLEAN
        BY DEF Inv, TypeInv, TypeOK
      <3> QED
        BY <3>1, Zenon DEF PumpWrite, shimVars
    <2>4. /\ daemon' \in {"up", "closing", "closed", "killed"}
          /\ conn' \in {"none", "dialled", "open", "shut", "cut"}
          /\ shim' \in {"start", "hello", "reading", "done", "dead"}
          /\ ses' \in {"none", "check", "hello", "launch", "running", "reaped", "over"}
          /\ pump' \in {"none", "read", "write", "terminate", "grace", "done"}
          /\ outs' \subseteq Outputs /\ connOK' \subseteq Outputs
          /\ proc' \in {"none", "alive", "dead", "reaped"} /\ code' \in Codes
      BY <1>1, Bounds DEF Inv, TypeInv, TypeOK, Codes, PumpWrite, shimVars
    <2>5. result' \in {Frame(t) : t \in {"none", "unreachable", "lost"}} \cup DownFrames
      BY <1>1, Bounds DEF Inv, TypeInv, TypeOK, PumpWrite, shimVars
    <2>6. /\ stdin'.held \in 0 .. PipeCap /\ stdin'.read \in 0 .. MaxIn
          /\ stdin' \in Stdin
      BY <1>1 DEF Stdin
    <2>7. pipe' \in [Outputs -> 0 .. PipeCap] /\ written' \in [Outputs -> 0 .. MaxOut]
      BY <1>1, Bounds DEF Inv, TypeInv, TypeOK, PumpWrite, shimVars
    <2>8. /\ sent' \in [stdin : 0 .. MaxIn, close : BOOLEAN, signals : Nat]
          /\ got' \in [Outputs -> Nat]
      BY <1>1, Bounds DEF Inv, TypeInv, TypeOK, PumpWrite, shimVars
    <2> QED
      BY <2>1, <2>2, <2>3, <2>4, <2>5, <2>6, <2>7, <2>8 DEF TypeInv, TypeOK, UpFrames
  <1>3. ConnInv'
    BY <1>1, Bounds DEF Inv, ConnInv, AtWork, Starting, TypeInv, TypeOK, PumpWrite,
       shimVars, Frame
  <1>4. ProcInv'
    BY <1>1, Bounds DEF Inv, ProcInv, Starting, Outputs, ConnInv, AtWork, TypeInv, TypeOK,
       PumpWrite, shimVars, Frame
  <1>5. AnswerInv'
    BY <1>1, Bounds DEF Inv, AnswerInv, UnreachableNotRun, ConnInv, AtWork, ProcInv,
       TypeInv, TypeOK, PumpWrite, shimVars, Frame
  <1>6. OrderInv'
    BY <1>1, Bounds DEF Inv, OrderInv, Ends, Outputs, TypeInv, TypeOK, ConnInv, AtWork,
       Starting, PumpWrite, shimVars, Frame
  <1>7. OutputInv'
    BY <1>1, Bounds DEF Inv, OutputInv, Whole, Outputs, TypeInv, TypeOK, ConnInv, AtWork,
       ProcInv, Starting, OrderInv, PumpWrite, shimVars, Frame
  <1>8. InputInv'
    <2>1. /\ Held \in Nat /\ sent.stdin \in Nat /\ up \in Seq(UpFrames)
          /\ Count(up, "stdin") \in Nat /\ Len(up) \in Nat /\ InputInv
      BY InputTypes DEF Inv
    <2>2. /\ sent' = sent /\ conn' = conn /\ up' = up /\ pump' # "write" /\ stdin.open
          /\ Feeding' = Feeding /\ Held' <= Held /\ Held' \in Nat
          /\ Feeding => Held' = Held /\ stdin'.open
      <3>1. stdin.read \in Nat /\ stdin.held \in Nat
        BY Bounds DEF Inv, TypeInv, Stdin
      <3>2. /\ pump = "write" /\ pump' = "read" /\ proc' = proc /\ ses' = ses
            /\ sent' = sent /\ conn' = conn /\ up' = up /\ stdin.open
        BY DEF PumpWrite, Inv, InputInv, shimVars
      <3>3. ses \in Starting => FALSE
        BY <3>2 DEF Inv, ProcInv
      <3>4. Held = stdin.read + stdin.held + 1 /\ Held' = stdin'.read + stdin'.held
        BY <3>1, <3>2, <1>1 DEF Held, Stdin
      <3>5. Feeding' = Feeding
        BY <3>2 DEF Feeding
      <3>6. Feeding => proc = "alive"
        BY <3>3 DEF Feeding
      <3>7. Held' <= Held /\ Held' \in Nat
        BY <1>1, <3>1, <3>4
      <3>8. Feeding => Held' = Held /\ stdin'.open
        <4> SUFFICES ASSUME Feeding
                     PROVE  Held' = Held /\ stdin'.open
          OBVIOUS
        <4>1. stdin'.open = stdin.open /\ stdin'.held = stdin.held + 1
          BY <1>1, <3>6
        <4>2. Held' = Held
          BY <1>1, <3>1, <3>4, <4>1
        <4> QED
          BY <3>2, <4>1, <4>2, Zenon
      <3> QED
        BY <3>2, <3>5, <3>7, <3>8
    <2>3. Held' + Count(up', "stdin") <= sent'.stdin
      BY <1>1, <2>1, <2>2 DEF InputInv, AllThere, Frame
    <2>4. pump' = "write" => stdin'.open
      BY <1>1, <2>1, <2>2 DEF InputInv, AllThere, Frame
    <2>5. \A i \in 1 .. Len(up') : up'[i].type = "close" =>
             sent'.close /\ \A j \in 1 .. Len(up') : j > i => up'[j].type # "stdin"
      BY <1>1, <2>1, <2>2 DEF InputInv, AllThere, Frame
    <2>6. Feeding' /\ conn' # "cut" => AllThere'
      BY <1>1, <2>1, <2>2 DEF InputInv, AllThere, Frame
    <2>7. Feeding' /\ (\E i \in 1 .. Len(up') : up'[i].type = "close") => AllThere'
      BY <1>1, <2>1, <2>2 DEF InputInv, AllThere, Frame
    <2>8. Feeding' /\ ~stdin'.open =>
             sent'.close /\ AllThere' /\ \A i \in 1 .. Len(up') : up'[i].type # "stdin"
      BY <1>1, <2>1, <2>2 DEF InputInv, AllThere, Frame
    <2> QED
      BY <2>3, <2>4, <2>5, <2>6, <2>7, <2>8 DEF InputInv
  <1> QED
    BY <1>2, <1>3, <1>4, <1>5, <1>6, <1>7, <1>8 DEF Inv

LEMMA PumpClosePreserves ==
    ASSUME Inv, PumpClose
    PROVE  Inv'
  <1>1. UpLoses
    BY UpTaken DEF PumpClose
  <1>2. TypeInv'
    <2>1. up' \in Seq(UpFrames) /\ Len(up') <= NetCap + 1
      BY <1>1, Bounds DEF Inv, TypeInv, TypeOK, UpFrames, ConnInv, PumpClose, UpLoses
    <2>2. down' \in Seq(DownFrames) /\ Len(down') <= NetCap + 2
      BY <1>1, Bounds DEF Inv, TypeInv, TypeOK, OrderInv, Starting, PumpClose, UpLoses
    <2>3. {gotFrame, told}' \subseteq BOOLEAN
      <3>1. gotFrame \in BOOLEAN /\ told \in BOOLEAN
        BY DEF Inv, TypeInv, TypeOK
      <3> QED
        BY <3>1, Zenon DEF PumpClose, UpLoses, shimVars, daemonVars
    <2>4. /\ daemon' \in {"up", "closing", "closed", "killed"}
          /\ conn' \in {"none", "dialled", "open", "shut", "cut"}
          /\ shim' \in {"start", "hello", "reading", "done", "dead"}
          /\ ses' \in {"none", "check", "hello", "launch", "running", "reaped", "over"}
          /\ pump' \in {"none", "read", "write", "terminate", "grace", "done"}
          /\ outs' \subseteq Outputs /\ connOK' \subseteq Outputs
          /\ proc' \in {"none", "alive", "dead", "reaped"} /\ code' \in Codes
      BY <1>1, Bounds DEF Inv, TypeInv, TypeOK, Codes, PumpClose, UpLoses, shimVars,
         daemonVars
    <2>5. result' \in {Frame(t) : t \in {"none", "unreachable", "lost"}} \cup DownFrames
      BY <1>1, Bounds DEF Inv, TypeInv, TypeOK, PumpClose, UpLoses, shimVars, daemonVars
    <2>6. /\ stdin'.held \in 0 .. PipeCap /\ stdin'.read \in 0 .. MaxIn
          /\ stdin' \in Stdin
      BY <1>1, Bounds, PlacesFinite DEF Inv, TypeInv, TypeOK, InputInv, Held, Stdin,
         PumpClose, UpLoses, shimVars, daemonVars
    <2>7. pipe' \in [Outputs -> 0 .. PipeCap] /\ written' \in [Outputs -> 0 .. MaxOut]
      BY <1>1, Bounds DEF Inv, TypeInv, TypeOK, PumpClose, UpLoses, shimVars, daemonVars
    <2>8. /\ sent' \in [stdin : 0 .. MaxIn, close : BOOLEAN, signals : Nat]
          /\ got' \in [Outputs -> Nat]
      BY <1>1, Bounds DEF Inv, TypeInv, TypeOK, PumpClose, UpLoses, shimVars, daemonVars
    <2> QED
      BY <2>1, <2>2, <2>3, <2>4, <2>5, <2>6, <2>7, <2>8 DEF TypeInv, TypeOK, UpFrames
  <1>3. ConnInv'
    BY <1>1, Bounds DEF Inv, ConnInv, AtWork, TypeInv, TypeOK, PumpClose, UpLoses, shimVars,
       daemonVars, Frame
  <1>4. ProcInv'
    BY <1>1, Bounds DEF Inv, ProcInv, Starting, Outputs, ConnInv, AtWork, TypeInv, TypeOK,
       PumpClose, UpLoses, shimVars, daemonVars, Frame
  <1>5. AnswerInv'
    BY <1>1, Bounds DEF Inv, AnswerInv, UnreachableNotRun, ConnInv, AtWork, ProcInv,
       TypeInv, TypeOK, PumpClose, UpLoses, shimVars, daemonVars, Frame
  <1>6. OrderInv'
    BY <1>1, Bounds DEF Inv, OrderInv, Ends, Outputs, TypeInv, TypeOK, ConnInv, AtWork,
       Starting, PumpClose, UpLoses, shimVars, daemonVars, Frame
  <1>7. OutputInv'
    BY <1>1, Bounds DEF Inv, OutputInv, Whole, Outputs, TypeInv, TypeOK, ConnInv, AtWork,
       ProcInv, Starting, OrderInv, PumpClose, UpLoses, shimVars, daemonVars, Frame
  <1>8. InputInv'
    <2>1. /\ Held \in Nat /\ sent.stdin \in Nat /\ up \in Seq(UpFrames)
          /\ Count(up, "stdin") \in Nat /\ Len(up) \in Nat /\ InputInv
      BY InputTypes DEF Inv
    <2>2. /\ Head(up).type = "close" /\ sent' = sent /\ conn' = conn /\ pump' # "write"
          /\ Feeding' = Feeding /\ Held' = Held
      BY DEF PumpClose, Held, Feeding, Inv, TypeInv, TypeOK, ConnInv, ProcInv, InputInv,
         Held, Feeding, Starting, AtWork, Stdin, shimVars, daemonVars
    <2>3. Held' + Count(up', "stdin") <= sent'.stdin
      BY <1>1, <2>1, <2>2 DEF InputInv, AllThere, Frame, UpLoses
    <2>4. pump' = "write" => stdin'.open
      BY <1>1, <2>1, <2>2 DEF InputInv, AllThere, Frame, UpLoses
    <2>5. \A i \in 1 .. Len(up') : up'[i].type = "close" =>
             sent'.close /\ \A j \in 1 .. Len(up') : j > i => up'[j].type # "stdin"
      BY <1>1, <2>1, <2>2 DEF InputInv, AllThere, Frame, UpLoses
    <2>6. Feeding' /\ conn' # "cut" => AllThere'
      BY <1>1, <2>1, <2>2 DEF InputInv, AllThere, Frame, UpLoses
    <2>7. Feeding' /\ (\E i \in 1 .. Len(up') : up'[i].type = "close") => AllThere'
      BY <1>1, <2>1, <2>2 DEF InputInv, AllThere, Frame, UpLoses
    <2>8. Feeding' /\ ~stdin'.open =>
             sent'.close /\ AllThere' /\ \A i \in 1 .. Len(up') : up'[i].type # "stdin"
      BY <1>1, <2>1, <2>2 DEF InputInv, AllThere, Frame, UpLoses
    <2> QED
      BY <2>3, <2>4, <2>5, <2>6, <2>7, <2>8 DEF InputInv
  <1> QED
    BY <1>2, <1>3, <1>4, <1>5, <1>6, <1>7, <1>8 DEF Inv

LEMMA PumpSignalPreserves ==
    ASSUME Inv, PumpSignal
    PROVE  Inv'
  <1>1. UpLoses
    BY UpTaken DEF PumpSignal
  <1>2. TypeInv'
    <2>1. up' \in Seq(UpFrames) /\ Len(up') <= NetCap + 1
      BY <1>1, Bounds DEF Inv, TypeInv, TypeOK, UpFrames, ConnInv, PumpSignal, UpLoses
    <2>2. down' \in Seq(DownFrames) /\ Len(down') <= NetCap + 2
      BY <1>1, Bounds DEF Inv, TypeInv, TypeOK, OrderInv, Starting, PumpSignal, UpLoses
    <2>3. {gotFrame, told}' \subseteq BOOLEAN
      <3>1. gotFrame \in BOOLEAN /\ told \in BOOLEAN
        BY DEF Inv, TypeInv, TypeOK
      <3> QED
        BY <3>1, Zenon DEF PumpSignal, UpLoses, shimVars, daemonVars
    <2>4. /\ daemon' \in {"up", "closing", "closed", "killed"}
          /\ conn' \in {"none", "dialled", "open", "shut", "cut"}
          /\ shim' \in {"start", "hello", "reading", "done", "dead"}
          /\ ses' \in {"none", "check", "hello", "launch", "running", "reaped", "over"}
          /\ pump' \in {"none", "read", "write", "terminate", "grace", "done"}
          /\ outs' \subseteq Outputs /\ connOK' \subseteq Outputs
          /\ proc' \in {"none", "alive", "dead", "reaped"} /\ code' \in Codes
      BY <1>1, Bounds DEF Inv, TypeInv, TypeOK, Codes, PumpSignal, UpLoses, shimVars,
         daemonVars
    <2>5. result' \in {Frame(t) : t \in {"none", "unreachable", "lost"}} \cup DownFrames
      BY <1>1, Bounds DEF Inv, TypeInv, TypeOK, PumpSignal, UpLoses, shimVars, daemonVars
    <2>6. /\ stdin'.held \in 0 .. PipeCap /\ stdin'.read \in 0 .. MaxIn
          /\ stdin' \in Stdin
      BY <1>1, Bounds, PlacesFinite DEF Inv, TypeInv, TypeOK, InputInv, Held, Stdin,
         PumpSignal, UpLoses, shimVars, daemonVars
    <2>7. pipe' \in [Outputs -> 0 .. PipeCap] /\ written' \in [Outputs -> 0 .. MaxOut]
      BY <1>1, Bounds DEF Inv, TypeInv, TypeOK, PumpSignal, UpLoses, shimVars, daemonVars
    <2>8. /\ sent' \in [stdin : 0 .. MaxIn, close : BOOLEAN, signals : Nat]
          /\ got' \in [Outputs -> Nat]
      BY <1>1, Bounds DEF Inv, TypeInv, TypeOK, PumpSignal, UpLoses, shimVars, daemonVars
    <2> QED
      BY <2>1, <2>2, <2>3, <2>4, <2>5, <2>6, <2>7, <2>8 DEF TypeInv, TypeOK, UpFrames
  <1>3. ConnInv'
    BY <1>1, Bounds DEF Inv, ConnInv, AtWork, TypeInv, TypeOK, PumpSignal, UpLoses,
       shimVars, daemonVars, Frame
  <1>4. ProcInv'
    BY <1>1, Bounds DEF Inv, ProcInv, Starting, Outputs, ConnInv, AtWork, TypeInv, TypeOK,
       PumpSignal, UpLoses, shimVars, daemonVars, Frame
  <1>5. AnswerInv'
    BY <1>1, Bounds DEF Inv, AnswerInv, UnreachableNotRun, ConnInv, AtWork, ProcInv,
       TypeInv, TypeOK, PumpSignal, UpLoses, shimVars, daemonVars, Frame
  <1>6. OrderInv'
    BY <1>1, Bounds DEF Inv, OrderInv, Ends, Outputs, TypeInv, TypeOK, ConnInv, AtWork,
       Starting, PumpSignal, UpLoses, shimVars, daemonVars, Frame
  <1>7. OutputInv'
    BY <1>1, Bounds DEF Inv, OutputInv, Whole, Outputs, TypeInv, TypeOK, ConnInv, AtWork,
       ProcInv, Starting, OrderInv, PumpSignal, UpLoses, shimVars, daemonVars, Frame
  <1>8. InputInv'
    BY <1>1, Bounds DEF Inv, InputInv, Feeding, Held, Stdin, AllThere, Starting, TypeInv,
       TypeOK, ConnInv, ProcInv, AtWork, PumpSignal, UpLoses, shimVars, daemonVars, Frame
  <1> QED
    BY <1>2, <1>3, <1>4, <1>5, <1>6, <1>7, <1>8 DEF Inv

LEMMA PumpLostPreserves ==
    ASSUME Inv, PumpLost
    PROVE  Inv'
  <1>1. TypeInv'
    BY Bounds DEF Inv, TypeInv, TypeOK, Outputs, ConnInv, ProcInv, InputInv, Held, Stdin,
       PumpLost, Exited, shimVars, procVars, Frame
  <1>2. ConnInv'
    BY Bounds DEF Inv, ConnInv, AtWork, TypeInv, TypeOK, PumpLost, Exited, shimVars,
       procVars, Frame
  <1>3. ProcInv'
    BY Bounds DEF Inv, ProcInv, Starting, Outputs, ConnInv, AtWork, TypeInv, TypeOK,
       PumpLost, Exited, shimVars, procVars, Frame
  <1>4. AnswerInv'
    BY Bounds DEF Inv, AnswerInv, UnreachableNotRun, ConnInv, AtWork, ProcInv, TypeInv,
       TypeOK, PumpLost, Exited, shimVars, procVars, Frame
  <1>5. OrderInv'
    BY Bounds DEF Inv, OrderInv, Ends, Outputs, TypeInv, TypeOK, ConnInv, AtWork, Starting,
       PumpLost, Exited, shimVars, procVars, Frame
  <1>6. OutputInv'
    BY Bounds DEF Inv, OutputInv, Whole, Outputs, TypeInv, TypeOK, ConnInv, AtWork, ProcInv,
       Starting, OrderInv, PumpLost, Exited, shimVars, procVars, Frame
  <1>7. InputInv'
    BY Bounds DEF Inv, InputInv, Feeding, Held, Stdin, AllThere, Starting, TypeInv, TypeOK,
       ConnInv, ProcInv, AtWork, PumpLost, Exited, shimVars, procVars, Frame
  <1> QED
    BY <1>1, <1>2, <1>3, <1>4, <1>5, <1>6, <1>7 DEF Inv

LEMMA TerminatePreserves ==
    ASSUME Inv, Terminate
    PROVE  Inv'
  <1>1. TypeInv'
    BY Bounds DEF Inv, TypeInv, TypeOK, Outputs, ConnInv, ProcInv, InputInv, Held, Stdin,
       Terminate, shimVars, Frame
  <1>2. ConnInv'
    BY Bounds DEF Inv, ConnInv, AtWork, TypeInv, TypeOK, Terminate, shimVars, Frame
  <1>3. ProcInv'
    BY Bounds DEF Inv, ProcInv, Starting, Outputs, ConnInv, AtWork, TypeInv, TypeOK,
       Terminate, shimVars, Frame
  <1>4. AnswerInv'
    BY Bounds DEF Inv, AnswerInv, UnreachableNotRun, ConnInv, AtWork, ProcInv, TypeInv,
       TypeOK, Terminate, shimVars, Frame
  <1>5. OrderInv'
    BY Bounds DEF Inv, OrderInv, Ends, Outputs, TypeInv, TypeOK, ConnInv, AtWork, Starting,
       Terminate, shimVars, Frame
  <1>6. OutputInv'
    BY Bounds DEF Inv, OutputInv, Whole, Outputs, TypeInv, TypeOK, ConnInv, AtWork, ProcInv,
       Starting, OrderInv, Terminate, shimVars, Frame
  <1>7. InputInv'
    BY Bounds DEF Inv, InputInv, Feeding, Held, Stdin, AllThere, Starting, TypeInv, TypeOK,
       ConnInv, ProcInv, AtWork, Terminate, shimVars, Frame
  <1> QED
    BY <1>1, <1>2, <1>3, <1>4, <1>5, <1>6, <1>7 DEF Inv

LEMMA GracePreserves ==
    ASSUME Inv, Grace
    PROVE  Inv'
  <1>1. TypeInv'
    <2>1. up' \in Seq(UpFrames) /\ Len(up') <= NetCap + 1
      BY Bounds DEF Inv, TypeInv, TypeOK, UpFrames, ConnInv, Grace, Exited
    <2>2. down' \in Seq(DownFrames) /\ Len(down') <= NetCap + 2
      BY Bounds DEF Inv, TypeInv, TypeOK, OrderInv, Starting, Grace, Exited
    <2>3. {gotFrame, told}' \subseteq BOOLEAN
      <3>1. gotFrame \in BOOLEAN /\ told \in BOOLEAN
        BY DEF Inv, TypeInv, TypeOK
      <3> QED
        BY <3>1, Zenon DEF Grace, Exited, shimVars
    <2>4. /\ daemon' \in {"up", "closing", "closed", "killed"}
          /\ conn' \in {"none", "dialled", "open", "shut", "cut"}
          /\ shim' \in {"start", "hello", "reading", "done", "dead"}
          /\ ses' \in {"none", "check", "hello", "launch", "running", "reaped", "over"}
          /\ pump' \in {"none", "read", "write", "terminate", "grace", "done"}
          /\ outs' \subseteq Outputs /\ connOK' \subseteq Outputs
          /\ proc' \in {"none", "alive", "dead", "reaped"} /\ code' \in Codes
      BY Bounds DEF Inv, TypeInv, TypeOK, Codes, Grace, Exited, shimVars
    <2>5. result' \in {Frame(t) : t \in {"none", "unreachable", "lost"}} \cup DownFrames
      BY Bounds DEF Inv, TypeInv, TypeOK, Grace, Exited, shimVars
    <2>6. /\ stdin'.held \in 0 .. PipeCap /\ stdin'.read \in 0 .. MaxIn
          /\ stdin' \in Stdin
      BY Bounds, PlacesFinite DEF Inv, TypeInv, TypeOK, InputInv, Held, Stdin, Grace,
         Exited, shimVars
    <2>7. pipe' \in [Outputs -> 0 .. PipeCap] /\ written' \in [Outputs -> 0 .. MaxOut]
      BY Bounds DEF Inv, TypeInv, TypeOK, Grace, Exited, shimVars
    <2>8. /\ sent' \in [stdin : 0 .. MaxIn, close : BOOLEAN, signals : Nat]
          /\ got' \in [Outputs -> Nat]
      BY Bounds DEF Inv, TypeInv, TypeOK, Grace, Exited, shimVars
    <2> QED
      BY <2>1, <2>2, <2>3, <2>4, <2>5, <2>6, <2>7, <2>8 DEF TypeInv, TypeOK, UpFrames
  <1>2. ConnInv'
    BY Bounds DEF Inv, ConnInv, AtWork, TypeInv, TypeOK, Grace, Exited, shimVars, Frame
  <1>3. ProcInv'
    BY Bounds DEF Inv, ProcInv, Starting, Outputs, ConnInv, AtWork, TypeInv, TypeOK, Grace,
       Exited, shimVars, Frame
  <1>4. AnswerInv'
    BY Bounds DEF Inv, AnswerInv, UnreachableNotRun, ConnInv, AtWork, ProcInv, TypeInv,
       TypeOK, Grace, Exited, shimVars, Frame
  <1>5. OrderInv'
    BY Bounds DEF Inv, OrderInv, Ends, Outputs, TypeInv, TypeOK, ConnInv, AtWork, Starting,
       Grace, Exited, shimVars, Frame
  <1>6. OutputInv'
    BY Bounds DEF Inv, OutputInv, Whole, Outputs, TypeInv, TypeOK, ConnInv, AtWork, ProcInv,
       Starting, OrderInv, Grace, Exited, shimVars, Frame
  <1>7. InputInv'
    BY Bounds DEF Inv, InputInv, Feeding, Held, Stdin, AllThere, Starting, TypeInv, TypeOK,
       ConnInv, ProcInv, AtWork, Grace, Exited, shimVars, Frame
  <1> QED
    BY <1>1, <1>2, <1>3, <1>4, <1>5, <1>6, <1>7 DEF Inv

-----------------------------------------------------------------------------
(* The command and the daemon.                                             *)

LEMMA CommandWritesPreserves ==
    ASSUME Inv, NEW o \in Outputs, CommandWrites(o)
    PROVE  Inv'
  <1>1. /\ \A p \in Outputs : /\ written'[p] = IF p = o THEN written[p] + 1 ELSE written[p]
                              /\ pipe'[p] = IF p = o THEN pipe[p] + 1 ELSE pipe[p]
        /\ written' \in [Outputs -> 0 .. MaxOut] /\ pipe' \in [Outputs -> 0 .. PipeCap]
    <2>1. /\ written \in [Outputs -> 0 .. MaxOut] /\ pipe \in [Outputs -> 0 .. PipeCap]
          /\ written[o] < MaxOut /\ pipe[o] < PipeCap
      BY DEF CommandWrites, Inv, TypeInv, TypeOK
    <2>2. written[o] + 1 \in 0 .. MaxOut /\ pipe[o] + 1 \in 0 .. PipeCap
      BY <2>1, Bounds
    <2>3. /\ written' = [written EXCEPT ![o] = written[o] + 1]
          /\ pipe' = [pipe EXCEPT ![o] = pipe[o] + 1]
      BY DEF CommandWrites
    <2> QED
      BY <2>1, <2>2, <2>3
  <1>2. TypeInv'
    <2>1. up' \in Seq(UpFrames) /\ Len(up') <= NetCap + 1
      BY <1>1, Bounds DEF Inv, TypeInv, TypeOK, UpFrames, ConnInv, CommandWrites
    <2>2. down' \in Seq(DownFrames) /\ Len(down') <= NetCap + 2
      BY <1>1, Bounds DEF Inv, TypeInv, TypeOK, OrderInv, Starting, CommandWrites
    <2>3. {gotFrame, told}' \subseteq BOOLEAN
      <3>1. gotFrame \in BOOLEAN /\ told \in BOOLEAN
        BY DEF Inv, TypeInv, TypeOK
      <3> QED
        BY <3>1, Zenon DEF CommandWrites, shimVars, daemonVars
    <2>4. /\ daemon' \in {"up", "closing", "closed", "killed"}
          /\ conn' \in {"none", "dialled", "open", "shut", "cut"}
          /\ shim' \in {"start", "hello", "reading", "done", "dead"}
          /\ ses' \in {"none", "check", "hello", "launch", "running", "reaped", "over"}
          /\ pump' \in {"none", "read", "write", "terminate", "grace", "done"}
          /\ outs' \subseteq Outputs /\ connOK' \subseteq Outputs
          /\ proc' \in {"none", "alive", "dead", "reaped"} /\ code' \in Codes
      BY <1>1, Bounds DEF Inv, TypeInv, TypeOK, Codes, CommandWrites, shimVars, daemonVars
    <2>5. result' \in {Frame(t) : t \in {"none", "unreachable", "lost"}} \cup DownFrames
      BY <1>1, Bounds DEF Inv, TypeInv, TypeOK, CommandWrites, shimVars, daemonVars
    <2>6. /\ stdin'.held \in 0 .. PipeCap /\ stdin'.read \in 0 .. MaxIn
          /\ stdin' \in Stdin
      BY <1>1, Bounds, PlacesFinite DEF Inv, TypeInv, TypeOK, InputInv, Held, Stdin,
         CommandWrites, shimVars, daemonVars
    <2>7. pipe' \in [Outputs -> 0 .. PipeCap] /\ written' \in [Outputs -> 0 .. MaxOut]
      BY <1>1
    <2>8. /\ sent' \in [stdin : 0 .. MaxIn, close : BOOLEAN, signals : Nat]
          /\ got' \in [Outputs -> Nat]
      BY <1>1, Bounds DEF Inv, TypeInv, TypeOK, CommandWrites, shimVars, daemonVars
    <2> QED
      BY <2>1, <2>2, <2>3, <2>4, <2>5, <2>6, <2>7, <2>8 DEF TypeInv, TypeOK, UpFrames
  <1>3. ConnInv'
    BY <1>1, Bounds DEF Inv, ConnInv, AtWork, TypeInv, TypeOK, CommandWrites, shimVars,
       daemonVars, Frame
  <1>4. ProcInv'
    BY <1>1, Bounds DEF Inv, ProcInv, Starting, Outputs, ConnInv, AtWork, TypeInv, TypeOK,
       CommandWrites, shimVars, daemonVars, Frame
  <1>5. AnswerInv'
    BY <1>1, Bounds DEF Inv, AnswerInv, UnreachableNotRun, ConnInv, AtWork, ProcInv,
       TypeInv, TypeOK, CommandWrites, shimVars, daemonVars, Frame
  <1>6. OrderInv'
    BY <1>1, Bounds DEF Inv, OrderInv, Ends, Outputs, TypeInv, TypeOK, ConnInv, AtWork,
       Starting, CommandWrites, shimVars, daemonVars, Frame
  <1>7. OutputInv'
    <2>1. /\ proc = "alive" /\ UNCHANGED <<conn, down, got, result, code, connOK, proc>>
      BY DEF CommandWrites, shimVars, daemonVars
    <2>2. ASSUME NEW p \in Outputs, Whole(p)
          PROVE  Whole(p)'
      <3>1. down \in Seq(DownFrames) /\ got[p] \in Nat
        BY DEF Inv, TypeInv, TypeOK
      <3>2. Count(down, p) \in Nat
        BY <3>1, PlacesFinite
      <3>3. pipe[p] \in Nat /\ written[p] \in Nat
        BY Bounds DEF Inv, TypeInv, TypeOK
      <3> QED
        BY <1>1, <2>1, <2>2, <3>1, <3>2, <3>3, SMTT(20) DEF Whole
    <2>3. conn' \in {"none", "dialled", "open"} => connOK' = Outputs /\ \A p \in Outputs : Whole(p)'
      BY <2>1, <2>2 DEF Inv, OutputInv
    <2> QED
      BY <2>1, <2>3 DEF Inv, OutputInv
  <1>8. InputInv'
    BY <1>1, Bounds DEF Inv, InputInv, Feeding, Held, Stdin, AllThere, Starting, TypeInv,
       TypeOK, ConnInv, ProcInv, AtWork, CommandWrites, shimVars, daemonVars, Frame
  <1> QED
    BY <1>2, <1>3, <1>4, <1>5, <1>6, <1>7, <1>8 DEF Inv

LEMMA CommandReadsPreserves ==
    ASSUME Inv, CommandReads
    PROVE  Inv'
  <1>1. /\ stdin' \in Stdin /\ stdin'.open = stdin.open
        /\ stdin'.read = stdin.read + 1 /\ stdin'.held = stdin.held - 1
    BY CommandReadsStdin
  <1>2. TypeInv'
    <2>1. up' \in Seq(UpFrames) /\ Len(up') <= NetCap + 1
      BY <1>1, Bounds DEF Inv, TypeInv, TypeOK, UpFrames, ConnInv, CommandReads
    <2>2. down' \in Seq(DownFrames) /\ Len(down') <= NetCap + 2
      BY <1>1, Bounds DEF Inv, TypeInv, TypeOK, OrderInv, Starting, CommandReads
    <2>3. {gotFrame, told}' \subseteq BOOLEAN
      <3>1. gotFrame \in BOOLEAN /\ told \in BOOLEAN
        BY DEF Inv, TypeInv, TypeOK
      <3> QED
        BY <3>1, Zenon DEF CommandReads, shimVars, daemonVars
    <2>4. /\ daemon' \in {"up", "closing", "closed", "killed"}
          /\ conn' \in {"none", "dialled", "open", "shut", "cut"}
          /\ shim' \in {"start", "hello", "reading", "done", "dead"}
          /\ ses' \in {"none", "check", "hello", "launch", "running", "reaped", "over"}
          /\ pump' \in {"none", "read", "write", "terminate", "grace", "done"}
          /\ outs' \subseteq Outputs /\ connOK' \subseteq Outputs
          /\ proc' \in {"none", "alive", "dead", "reaped"} /\ code' \in Codes
      BY <1>1, Bounds DEF Inv, TypeInv, TypeOK, Codes, CommandReads, shimVars, daemonVars
    <2>5. result' \in {Frame(t) : t \in {"none", "unreachable", "lost"}} \cup DownFrames
      BY <1>1, Bounds DEF Inv, TypeInv, TypeOK, CommandReads, shimVars, daemonVars
    <2>6. /\ stdin'.held \in 0 .. PipeCap /\ stdin'.read \in 0 .. MaxIn
          /\ stdin' \in Stdin
      BY <1>1 DEF Stdin
    <2>7. pipe' \in [Outputs -> 0 .. PipeCap] /\ written' \in [Outputs -> 0 .. MaxOut]
      BY <1>1, Bounds DEF Inv, TypeInv, TypeOK, CommandReads, shimVars, daemonVars
    <2>8. /\ sent' \in [stdin : 0 .. MaxIn, close : BOOLEAN, signals : Nat]
          /\ got' \in [Outputs -> Nat]
      BY <1>1, Bounds DEF Inv, TypeInv, TypeOK, CommandReads, shimVars, daemonVars
    <2> QED
      BY <2>1, <2>2, <2>3, <2>4, <2>5, <2>6, <2>7, <2>8 DEF TypeInv, TypeOK, UpFrames
  <1>3. ConnInv'
    BY <1>1, Bounds DEF Inv, ConnInv, AtWork, TypeInv, TypeOK, CommandReads, shimVars,
       daemonVars, Frame
  <1>4. ProcInv'
    BY <1>1, Bounds DEF Inv, ProcInv, Starting, Outputs, ConnInv, AtWork, TypeInv, TypeOK,
       CommandReads, shimVars, daemonVars, Frame
  <1>5. AnswerInv'
    BY <1>1, Bounds DEF Inv, AnswerInv, UnreachableNotRun, ConnInv, AtWork, ProcInv,
       TypeInv, TypeOK, CommandReads, shimVars, daemonVars, Frame
  <1>6. OrderInv'
    BY <1>1, Bounds DEF Inv, OrderInv, Ends, Outputs, TypeInv, TypeOK, ConnInv, AtWork,
       Starting, CommandReads, shimVars, daemonVars, Frame
  <1>7. OutputInv'
    BY <1>1, Bounds DEF Inv, OutputInv, Whole, Outputs, TypeInv, TypeOK, ConnInv, AtWork,
       ProcInv, Starting, OrderInv, CommandReads, shimVars, daemonVars, Frame
  <1>8. InputInv'
    BY <1>1, Bounds, SMTT(20) DEF Inv, InputInv, Feeding, Held, Stdin, AllThere, Starting, TypeInv,
       TypeOK, ConnInv, ProcInv, AtWork, CommandReads, shimVars, daemonVars, Frame
  <1> QED
    BY <1>2, <1>3, <1>4, <1>5, <1>6, <1>7, <1>8 DEF Inv

LEMMA CommandEndsPreserves ==
    ASSUME Inv, CommandEnds
    PROVE  Inv'
  <1>1. TypeInv'
    <2>1. up' \in Seq(UpFrames) /\ Len(up') <= NetCap + 1
      BY Bounds DEF Inv, TypeInv, TypeOK, UpFrames, ConnInv, CommandEnds
    <2>2. down' \in Seq(DownFrames) /\ Len(down') <= NetCap + 2
      BY Bounds DEF Inv, TypeInv, TypeOK, OrderInv, Starting, CommandEnds
    <2>3. {gotFrame, told}' \subseteq BOOLEAN
      <3>1. gotFrame \in BOOLEAN /\ told \in BOOLEAN
        BY DEF Inv, TypeInv, TypeOK
      <3> QED
        BY <3>1, Zenon DEF CommandEnds, shimVars, daemonVars
    <2>4. /\ daemon' \in {"up", "closing", "closed", "killed"}
          /\ conn' \in {"none", "dialled", "open", "shut", "cut"}
          /\ shim' \in {"start", "hello", "reading", "done", "dead"}
          /\ ses' \in {"none", "check", "hello", "launch", "running", "reaped", "over"}
          /\ pump' \in {"none", "read", "write", "terminate", "grace", "done"}
          /\ outs' \subseteq Outputs /\ connOK' \subseteq Outputs
          /\ proc' \in {"none", "alive", "dead", "reaped"} /\ code' \in Codes
      BY Bounds DEF Inv, TypeInv, TypeOK, Codes, CommandEnds, shimVars, daemonVars
    <2>5. result' \in {Frame(t) : t \in {"none", "unreachable", "lost"}} \cup DownFrames
      BY Bounds DEF Inv, TypeInv, TypeOK, CommandEnds, shimVars, daemonVars
    <2>6. /\ stdin'.held \in 0 .. PipeCap /\ stdin'.read \in 0 .. MaxIn
          /\ stdin' \in Stdin
      BY Bounds, PlacesFinite DEF Inv, TypeInv, TypeOK, InputInv, Held, Stdin, CommandEnds,
         shimVars, daemonVars
    <2>7. pipe' \in [Outputs -> 0 .. PipeCap] /\ written' \in [Outputs -> 0 .. MaxOut]
      BY Bounds DEF Inv, TypeInv, TypeOK, CommandEnds, shimVars, daemonVars
    <2>8. /\ sent' \in [stdin : 0 .. MaxIn, close : BOOLEAN, signals : Nat]
          /\ got' \in [Outputs -> Nat]
      BY Bounds DEF Inv, TypeInv, TypeOK, CommandEnds, shimVars, daemonVars
    <2> QED
      BY <2>1, <2>2, <2>3, <2>4, <2>5, <2>6, <2>7, <2>8 DEF TypeInv, TypeOK, UpFrames
  <1>2. ConnInv'
    BY Bounds DEF Inv, ConnInv, AtWork, TypeInv, TypeOK, CommandEnds, shimVars, daemonVars,
       Frame
  <1>3. ProcInv'
    BY Bounds DEF Inv, ProcInv, Starting, Outputs, ConnInv, AtWork, TypeInv, TypeOK,
       CommandEnds, shimVars, daemonVars, Frame
  <1>4. AnswerInv'
    BY Bounds DEF Inv, AnswerInv, UnreachableNotRun, ConnInv, AtWork, ProcInv, TypeInv,
       TypeOK, CommandEnds, shimVars, daemonVars, Frame
  <1>5. OrderInv'
    BY Bounds DEF Inv, OrderInv, Ends, Outputs, TypeInv, TypeOK, ConnInv, AtWork, Starting,
       CommandEnds, shimVars, daemonVars, Frame
  <1>6. OutputInv'
    BY Bounds DEF Inv, OutputInv, Whole, Outputs, TypeInv, TypeOK, ConnInv, AtWork, ProcInv,
       Starting, OrderInv, CommandEnds, shimVars, daemonVars, Frame
  <1>7. InputInv'
    BY Bounds DEF Inv, InputInv, Feeding, Held, Stdin, AllThere, Starting, TypeInv, TypeOK,
       ConnInv, ProcInv, AtWork, CommandEnds, shimVars, daemonVars, Frame
  <1> QED
    BY <1>1, <1>2, <1>3, <1>4, <1>5, <1>6, <1>7 DEF Inv

LEMMA ClosePreserves ==
    ASSUME Inv, Close
    PROVE  Inv'
  <1>1. TypeInv'
    <2>1. up' \in Seq(UpFrames) /\ Len(up') <= NetCap + 1
      BY Bounds DEF Inv, TypeInv, TypeOK, UpFrames, ConnInv, Close
    <2>2. down' \in Seq(DownFrames) /\ Len(down') <= NetCap + 2
      BY Bounds DEF Inv, TypeInv, TypeOK, OrderInv, Starting, Close
    <2>3. {gotFrame, told}' \subseteq BOOLEAN
      <3>1. gotFrame \in BOOLEAN /\ told \in BOOLEAN
        BY DEF Inv, TypeInv, TypeOK
      <3> QED
        BY <3>1, Zenon DEF Close, shimVars, procVars, daemonVars
    <2>4. /\ daemon' \in {"up", "closing", "closed", "killed"}
          /\ conn' \in {"none", "dialled", "open", "shut", "cut"}
          /\ shim' \in {"start", "hello", "reading", "done", "dead"}
          /\ ses' \in {"none", "check", "hello", "launch", "running", "reaped", "over"}
          /\ pump' \in {"none", "read", "write", "terminate", "grace", "done"}
          /\ outs' \subseteq Outputs /\ connOK' \subseteq Outputs
          /\ proc' \in {"none", "alive", "dead", "reaped"} /\ code' \in Codes
      BY Bounds DEF Inv, TypeInv, TypeOK, Codes, Close, shimVars, daemonVars, procVars
    <2>5. result' \in {Frame(t) : t \in {"none", "unreachable", "lost"}} \cup DownFrames
      BY Bounds DEF Inv, TypeInv, TypeOK, Close, shimVars, daemonVars, procVars
    <2>6. /\ stdin'.held \in 0 .. PipeCap /\ stdin'.read \in 0 .. MaxIn
          /\ stdin' \in Stdin
      BY Bounds, PlacesFinite DEF Inv, TypeInv, TypeOK, InputInv, Held, Stdin, Close,
         shimVars, daemonVars, procVars
    <2>7. pipe' \in [Outputs -> 0 .. PipeCap] /\ written' \in [Outputs -> 0 .. MaxOut]
      BY Bounds DEF Inv, TypeInv, TypeOK, Close, shimVars, daemonVars, procVars
    <2>8. /\ sent' \in [stdin : 0 .. MaxIn, close : BOOLEAN, signals : Nat]
          /\ got' \in [Outputs -> Nat]
      BY Bounds DEF Inv, TypeInv, TypeOK, Close, shimVars, daemonVars, procVars
    <2> QED
      BY <2>1, <2>2, <2>3, <2>4, <2>5, <2>6, <2>7, <2>8 DEF TypeInv, TypeOK, UpFrames
  <1>2. ConnInv'
    BY Bounds DEF Inv, ConnInv, AtWork, TypeInv, TypeOK, Close, shimVars, daemonVars,
       procVars, Frame
  <1>3. ProcInv'
    BY Bounds DEF Inv, ProcInv, Starting, Outputs, ConnInv, AtWork, TypeInv, TypeOK, Close,
       shimVars, daemonVars, procVars, Frame
  <1>4. AnswerInv'
    BY Bounds DEF Inv, AnswerInv, UnreachableNotRun, ConnInv, AtWork, ProcInv, TypeInv,
       TypeOK, Close, shimVars, daemonVars, procVars, Frame
  <1>5. OrderInv'
    BY Bounds DEF Inv, OrderInv, Ends, Outputs, TypeInv, TypeOK, ConnInv, AtWork, Starting,
       Close, shimVars, daemonVars, procVars, Frame
  <1>6. OutputInv'
    BY Bounds DEF Inv, OutputInv, Whole, Outputs, TypeInv, TypeOK, ConnInv, AtWork, ProcInv,
       Starting, OrderInv, Close, shimVars, daemonVars, procVars, Frame
  <1>7. InputInv'
    BY Bounds DEF Inv, InputInv, Feeding, Held, Stdin, AllThere, Starting, TypeInv, TypeOK,
       ConnInv, ProcInv, AtWork, Close, shimVars, daemonVars, procVars, Frame
  <1> QED
    BY <1>1, <1>2, <1>3, <1>4, <1>5, <1>6, <1>7 DEF Inv

LEMMA ClosedPreserves ==
    ASSUME Inv, Closed
    PROVE  Inv'
  <1>1. TypeInv'
    BY Bounds DEF Inv, TypeInv, TypeOK, Outputs, ConnInv, ProcInv, InputInv, Held, Stdin,
       Closed, shimVars, daemonVars, procVars, Frame
  <1>2. ConnInv'
    BY Bounds DEF Inv, ConnInv, AtWork, TypeInv, TypeOK, Closed, shimVars, daemonVars,
       procVars, Frame
  <1>3. ProcInv'
    BY Bounds DEF Inv, ProcInv, Starting, Outputs, ConnInv, AtWork, TypeInv, TypeOK, Closed,
       shimVars, daemonVars, procVars, Frame
  <1>4. AnswerInv'
    BY Bounds DEF Inv, AnswerInv, UnreachableNotRun, ConnInv, AtWork, ProcInv, TypeInv,
       TypeOK, Closed, shimVars, daemonVars, procVars, Frame
  <1>5. OrderInv'
    BY Bounds DEF Inv, OrderInv, Ends, Outputs, TypeInv, TypeOK, ConnInv, AtWork, Starting,
       Closed, shimVars, daemonVars, procVars, Frame
  <1>6. OutputInv'
    BY Bounds DEF Inv, OutputInv, Whole, Outputs, TypeInv, TypeOK, ConnInv, AtWork, ProcInv,
       Starting, OrderInv, Closed, shimVars, daemonVars, procVars, Frame
  <1>7. InputInv'
    BY Bounds DEF Inv, InputInv, Feeding, Held, Stdin, AllThere, Starting, TypeInv, TypeOK,
       ConnInv, ProcInv, AtWork, Closed, shimVars, daemonVars, procVars, Frame
  <1> QED
    BY <1>1, <1>2, <1>3, <1>4, <1>5, <1>6, <1>7 DEF Inv

LEMMA KillDaemonPreserves ==
    ASSUME Inv, KillDaemon
    PROVE  Inv'
  <1>1. TypeInv'
    BY Bounds DEF Inv, TypeInv, TypeOK, Outputs, ConnInv, ProcInv, InputInv, Held, Stdin,
       KillDaemon, shimVars, Frame
  <1>2. ConnInv'
    BY Bounds DEF Inv, ConnInv, AtWork, TypeInv, TypeOK, KillDaemon, shimVars, Frame
  <1>3. ProcInv'
    BY Bounds DEF Inv, ProcInv, Starting, Outputs, ConnInv, AtWork, TypeInv, TypeOK,
       KillDaemon, shimVars, Frame
  <1>4. AnswerInv'
    BY Bounds DEF Inv, AnswerInv, UnreachableNotRun, ConnInv, AtWork, ProcInv, TypeInv,
       TypeOK, KillDaemon, shimVars, Frame
  <1>5. OrderInv'
    BY Bounds DEF Inv, OrderInv, Ends, Outputs, TypeInv, TypeOK, ConnInv, AtWork, Starting,
       KillDaemon, shimVars, Frame
  <1>6. OutputInv'
    BY Bounds DEF Inv, OutputInv, Whole, Outputs, TypeInv, TypeOK, ConnInv, AtWork, ProcInv,
       Starting, OrderInv, KillDaemon, shimVars, Frame
  <1>7. InputInv'
    <2>1. Held' + Count(up', "stdin") <= sent'.stdin
      BY Bounds, PlacesFinite DEF Inv, InputInv, Feeding, Held, AllThere, Frame, TypeInv,
         TypeOK, Stdin, ConnInv, ProcInv, Starting, AtWork, KillDaemon, shimVars
    <2>2. pump' = "write" => stdin'.open
      BY Bounds, PlacesFinite DEF Inv, InputInv, Feeding, Held, AllThere, Frame, TypeInv,
         TypeOK, Stdin, ConnInv, ProcInv, Starting, AtWork, KillDaemon, shimVars
    <2>3. \A i \in 1 .. Len(up') : up'[i].type = "close" =>
             sent'.close /\ \A j \in 1 .. Len(up') : j > i => up'[j].type # "stdin"
      BY Bounds, PlacesFinite DEF Inv, InputInv, Feeding, Held, AllThere, Frame, TypeInv,
         TypeOK, Stdin, ConnInv, ProcInv, Starting, AtWork, KillDaemon, shimVars
    <2>4. Feeding' /\ conn' # "cut" => AllThere'
      BY Bounds, PlacesFinite DEF Inv, InputInv, Feeding, Held, AllThere, Frame, TypeInv,
         TypeOK, Stdin, ConnInv, ProcInv, Starting, AtWork, KillDaemon, shimVars
    <2>5. Feeding' /\ (\E i \in 1 .. Len(up') : up'[i].type = "close") => AllThere'
      BY Bounds, PlacesFinite DEF Inv, InputInv, Feeding, Held, AllThere, Frame, TypeInv,
         TypeOK, Stdin, ConnInv, ProcInv, Starting, AtWork, KillDaemon, shimVars
    <2>6. Feeding' /\ ~stdin'.open =>
             sent'.close /\ AllThere' /\ \A i \in 1 .. Len(up') : up'[i].type # "stdin"
      BY Bounds, PlacesFinite DEF Inv, InputInv, Feeding, Held, AllThere, Frame, TypeInv,
         TypeOK, Stdin, ConnInv, ProcInv, Starting, AtWork, KillDaemon, shimVars
    <2> QED
      BY <2>1, <2>2, <2>3, <2>4, <2>5, <2>6 DEF InputInv
  <1> QED
    BY <1>1, <1>2, <1>3, <1>4, <1>5, <1>6, <1>7 DEF Inv

-----------------------------------------------------------------------------
(* Together.                                                               *)

LEMMA InitInv == Init => Inv
  <1> SUFFICES ASSUME Init
               PROVE  Inv
    OBVIOUS
  <1>1. up = <<>> /\ down = <<>> /\ up \in Seq(UpFrames) /\ down \in Seq(DownFrames)
    BY DEF Init
  <1>2. Count(up, "stdin") = 0 /\ \A o \in Outputs : Count(down, o) = 0
    <2>1. (\A i \in 1 .. Len(up) : FALSE) /\ (\A i \in 1 .. Len(down) : FALSE)
      BY <1>1
    <2> QED
      BY <1>1, <2>1, CountNone
  <1>3. gotFrame = FALSE /\ told = FALSE
    BY DEF Init
  <1>4. TypeInv
    <2>1. {gotFrame, told} \subseteq BOOLEAN
      BY <1>3, Zenon
    <2>2. stdin \in Stdin /\ stdin.held = 0 /\ stdin.read = 0
      BY Bounds DEF Init, Stdin
    <2>3. pipe \in [Outputs -> 0 .. PipeCap] /\ written \in [Outputs -> 0 .. MaxOut]
      BY Bounds DEF Init
    <2>4. /\ sent \in [stdin : 0 .. MaxIn, close : BOOLEAN, signals : Nat]
          /\ got \in [Outputs -> Nat]
      BY Bounds DEF Init
    <2> QED
      BY <1>1, <2>1, <2>2, <2>3, <2>4, Bounds DEF Init, TypeInv, TypeOK, UpFrames, Codes
  <1>5. ConnInv /\ ProcInv /\ AnswerInv /\ OrderInv
    BY DEF Init, ConnInv, ProcInv, AnswerInv, UnreachableNotRun, OrderInv, Starting, AtWork,
       Frame
  <1>6. OutputInv
    BY <1>2 DEF Init, OutputInv, Whole, Outputs, Frame
  <1>7. InputInv
    BY <1>2 DEF Init, InputInv, Held, AllThere, Feeding, Starting
  <1> QED
    BY <1>4, <1>5, <1>6, <1>7 DEF Inv

LEMMA StutterInv ==
    ASSUME Inv, UNCHANGED vars
    PROVE  Inv'
  <1> USE DEF vars, shimVars, daemonVars, procVars
  <1>1. TypeInv' /\ ConnInv' /\ ProcInv'
    BY DEF Inv, TypeInv, TypeOK, ConnInv, ProcInv
  <1>2. AnswerInv' /\ OrderInv'
    BY DEF Inv, AnswerInv, UnreachableNotRun, OrderInv
  <1>3. OutputInv'
    BY DEF Inv, OutputInv, Whole
  <1>4. InputInv'
    BY DEF Inv, InputInv, Held, AllThere, Feeding
  <1> QED
    BY <1>1, <1>2, <1>3, <1>4 DEF Inv

LEMMA InvStep == Inv /\ [Next]_vars => Inv'
  <1> SUFFICES ASSUME Inv, [Next]_vars
               PROVE  Inv'
    OBVIOUS
  <1>1. CASE Shim
    BY <1>1, DialPreserves, ProxyDialPreserves, SendHelloPreserves, HelloTooLargePreserves,
       SendStdinPreserves, SendClosePreserves, SendSignalPreserves, ReadFramePreserves,
       ReadFailsPreserves DEF Shim
  <1>2. CASE Session
    BY <1>2, AcceptPreserves, ShuttingDownPreserves, CheckedPreserves,
       HelloTimeoutPreserves, RejectPreserves, AcceptHelloPreserves, LaunchFailsPreserves,
       LaunchPreserves, ReapPreserves, SendExitPreserves DEF Session
  <1>3. CASE \E o \in Outputs : OutputPump(o)
    BY <1>3, PumpChunkPreserves, PumpEOFPreserves DEF OutputPump
  <1>4. CASE PumpConn
    BY <1>4, PumpStdinPreserves, PumpWritePreserves, PumpClosePreserves,
       PumpSignalPreserves, PumpLostPreserves, TerminatePreserves, GracePreserves DEF
       PumpConn
  <1>5. CASE Command
    BY <1>5, CommandWritesPreserves, CommandReadsPreserves,
       CommandEndsPreserves DEF Command
  <1>6. CASE Close \/ Closed \/ KillDaemon \/ ContainerDies \/ Cut
    BY <1>6, ClosePreserves, ClosedPreserves, KillDaemonPreserves,
       ContainerDiesPreserves,
       CutPreserves
  <1> QED
    BY <1>1, <1>2, <1>3, <1>4, <1>5, <1>6, StutterInv DEF Next

\* However the shim, the session, its pumps, the command and the daemon are
\* interleaved, and whatever breaks, each frame and chunk is where Inv says.
THEOREM Invariance == Spec => []Inv
  BY InitInv, InvStep, PTL DEF Spec

\* An exit code the shim returns is the command's own, after all of its output;
\* a command that comes to the end of its stdin has read all of the shim's.
THEOREM BothDirections == Spec => []StreamsWhole
  <1>1. Inv => StreamsWhole
    <2> SUFFICES ASSUME Inv
                 PROVE  StreamsWhole
      OBVIOUS
    <2>1. result.type = "exit" /\ result.code # 127 =>
             proc = "reaped" /\ result.code = code /\ got = written
      BY DEF Inv, OutputInv
    <2>2. ASSUME proc = "alive", daemon # "killed", ~stdin.open, stdin.held = 0
          PROVE  sent.close /\ stdin.read = sent.stdin
      <3>1. Feeding
        BY <2>2 DEF Inv, ProcInv, Feeding
      <3>2. sent.close /\ AllThere /\ \A i \in 1 .. Len(up) : up[i].type # "stdin"
        BY <2>2, <3>1 DEF Inv, InputInv
      <3>3. up \in Seq(UpFrames) /\ sent.stdin \in Nat
        BY InputTypes
      <3>4. Count(up, "stdin") = 0
        BY <3>2, <3>3, CountNone
      <3>5. pump # "write"
        BY <2>2 DEF Inv, InputInv
      <3>6. stdin.read \in Nat
        BY Bounds DEF Inv, TypeInv, Stdin
      <3>7. stdin.read = sent.stdin
        BY <2>2, <3>2, <3>3, <3>4, <3>5, <3>6 DEF AllThere, Held
      <3> QED
        BY <3>2, <3>7
    <2> QED
      BY <2>1, <2>2 DEF StreamsWhole
  <1> QED
    BY Invariance, <1>1, PTL

\* A shim that reports the daemon unreachable has had no command run.
THEOREM NotRun == Spec => []UnreachableNotRun
  <1>1. Inv => UnreachableNotRun
    BY DEF Inv, AnswerInv
  <1> QED
    BY Invariance, <1>1, PTL

\* Close waits until no session has a command left.
THEOREM NothingLeft == Spec => []ClosedLeavesNothing
  <1>1. Inv => ClosedLeavesNothing
    BY DEF Inv, TypeInv, TypeOK, ProcInv, ClosedLeavesNothing
  <1> QED
    BY Invariance, <1>1, PTL
-----------------------------------------------------------------------------
(***************************************************************************)
(* The daemon's life, for any number of commands and daemons: who has the  *)
(* flock on daemon.pid, and what the endpoints are, follows from where the *)
(* processes are; and as long as nothing is meant to end the daemon,       *)
(* somebody is about to start one or has done so.                          *)
(***************************************************************************)
\* Where a process has the flock.
Holds(p) ==
    IF p \in Commands THEN pc[p] \in {"write", "owner", "port", "release"}
    ELSE pc[p] \in {"write", "sock", "port", "boot", "serve", "drain",
    "release"}

HolderInv == \A p \in Procs : holder = p <=> Holds(p)

\* What the holder has made of the endpoints so far.
EndpointInv ==
    /\ \A c \in Commands :
          /\ pc[c] \in {"port", "release"} => sock = Nobody
          /\ pc[c] = "release" => port = Nobody
    /\ \A d \in Daemons :
          /\ pc[d] \in {"port", "boot", "serve"} => sock = d
          /\ pc[d] \in {"boot", "serve"} => port = d
          /\ pc[d] \in {"drain", "release"} => sock = Nobody
          /\ pc[d] = "release" => port = Nobody

\* A command is in a call from its beginning to its return.
PhaseInv ==
    \A c \in Commands :
        /\ phase[c] = "none" <=> pc[c] \in {"gone", "busy"}
        /\ pc[c] \in {"port", "release", "spawn"} => phase[c] = "ensure"
        /\ pc[c] = "kill" => phase[c] \in {"stop", "cycle"}

DaemonInv == DaemonTypeOK /\ HolderInv /\ EndpointInv /\ PhaseInv

(***************************************************************************)
(* A process that is ready holds the flock, or will ask for it and either  *)
(* get it or meet somebody else who is ready, or is to spawn a daemon.  A  *)
(* process that has found the flock taken is not: it relies on the others. *)
(***************************************************************************)
Ready(p) ==
    \/ holder = p
    \/ pc[p] \in {"flock", "clean", "retry"}
    \/ p \in Commands /\ (pc[p] = "spawn" \/ phase[p] \in {"cycle", "wait"})

\* An Ensure that found the flock taken, and nobody has overtaken it.
Relies(c) ==
    phase[c] = "ensure" /\ c \notin void /\ pc[c] \in {"look", "held"}

ReadyInv ==
    /\ answer = "sound" => ~Probing
    /\ answer = "sound" \/ (\E c \in Commands : Relies(c)) =>
          Probing \/ \E p \in Procs : Ready(p)

-----------------------------------------------------------------------------
LEMMA DaemonInitInv == DaemonInit => DaemonInv /\ ReadyInv
  BY BridgeAssumption DEF DaemonInit, DaemonInv, DaemonTypeOK, HolderInv,
     EndpointInv, PhaseInv, ReadyInv, Relies, Holds, Procs, CommandPcs,
     DaemonPcs, Acquiring

(* Every step keeps the flock and the endpoints where the places of the     *)
(* processes say they are.                                                  *)
LEMMA DaemonInvStep == DaemonInv /\ [DaemonNext]_lifeVars => DaemonInv'
  <1> SUFFICES ASSUME DaemonInv, [DaemonNext]_lifeVars PROVE DaemonInv'
    OBVIOUS
  <1> USE BridgeAssumption DEF DaemonInv, DaemonTypeOK, HolderInv, EndpointInv,
         PhaseInv, Holds, Procs, CommandPcs, DaemonPcs, Acquiring, Goto, Unlock
  <1>1. CASE UNCHANGED lifeVars
    BY <1>1 DEF lifeVars
  <1>2. ASSUME NEW p \in Procs, AcquireStep(p) PROVE DaemonInv'
    <2>1. CASE Flock(p)
      BY <2>1 DEF Flock
    <2>2. CASE Look(p)
      BY <2>2 DEF Look
    <2>3. CASE Clean(p)
      BY <2>3 DEF Clean
    <2>4. CASE WritePid(p)
      BY <2>4 DEF WritePid
    <2> QED
      BY <1>2, <2>1, <2>2, <2>3, <2>4 DEF AcquireStep
  <1>3. ASSUME NEW p \in Procs, Die(p) \/ Crash(p) PROVE DaemonInv'
    BY <1>3 DEF Die, Crash, Gone, Undo
  <1>4. ASSUME NEW c \in Commands, CommandStep(c) PROVE DaemonInv'
    <2> USE DEF Call, ReturnCall, EndProbe, EnsureNext, Undo, Doubted, EnsureAnswers
    <2>1. ASSUME NEW j \in Jobs, Begin(c, j) PROVE DaemonInv'
      BY <2>1 DEF Begin
    <2>2. CASE CommandExit(c)
      BY <2>2 DEF CommandExit
    <2>3. CASE ProbeFree(c)
      BY <2>3 DEF ProbeFree
    <2>4. CASE StatusHeld(c)
      BY <2>4 DEF StatusHeld
    <2>5. CASE StopHeld(c)
      BY <2>5 DEF StopHeld
    <2>6. CASE WaitHeld(c)
      BY <2>6 DEF WaitHeld
    <2>7. CASE EnsureHeld(c)
      BY <2>7 DEF EnsureHeld
    <2>8. CASE RemoveSock(c)
      BY <2>8 DEF RemoveSock
    <2>9. CASE RemovePort(c)
      BY <2>9 DEF RemovePort
    <2>10. CASE ReleaseProbe(c)
      BY <2>10 DEF ReleaseProbe
    <2>11. ASSUME NEW d \in Daemons, SpawnDaemon(c, d) PROVE DaemonInv'
      BY <2>11 DEF SpawnDaemon
    <2>12. CASE SendTerm(c)
      BY <2>12 DEF SendTerm
    <2> QED
      BY <1>4, <2>1, <2>2, <2>3, <2>4, <2>5, <2>6, <2>7, <2>8, <2>9, <2>10,
         <2>11, <2>12 DEF CommandStep
  <1>5. ASSUME NEW d \in Daemons, DaemonStep(d) PROVE DaemonInv'
    <2> USE DEF Gone, Undo, Doubted
    <2>1. CASE DaemonHeld(d)
      BY <2>1 DEF DaemonHeld
    <2>2. CASE OpenSock(d)
      BY <2>2 DEF OpenSock
    <2>3. CASE WritePort(d)
      BY <2>3 DEF WritePort
    <2>4. CASE StartFails(d)
      BY <2>4 DEF StartFails
    <2>5. CASE Serve(d)
      BY <2>5 DEF Serve
    <2>6. CASE CloseListeners(d)
      BY <2>6 DEF CloseListeners
    <2>7. CASE CloseEnds(d)
      BY <2>7 DEF CloseEnds
    <2>8. CASE ReleasePid(d)
      BY <2>8 DEF ReleasePid
    <2> QED
      BY <1>5, <2>1, <2>2, <2>3, <2>4, <2>5, <2>6, <2>7, <2>8 DEF DaemonStep
  <1> QED
    BY <1>1, <1>2, <1>3, <1>4, <1>5 DEF DaemonNext

-----------------------------------------------------------------------------
(* No step leaves a sound answer, or an Ensure that is to give one, without *)
(* somebody who is ready.                                                   *)
LEMMA ReadyStep == DaemonInv /\ ReadyInv /\ [DaemonNext]_lifeVars => ReadyInv'
  <1> SUFFICES ASSUME DaemonInv, ReadyInv, [DaemonNext]_lifeVars PROVE ReadyInv'
    OBVIOUS
  <1> USE BridgeAssumption DEF DaemonInv, DaemonTypeOK, HolderInv, PhaseInv,
         Holds, Procs, CommandPcs, DaemonPcs, Acquiring, Goto, Unlock, ReadyInv,
         Ready, Relies, Probing
  <1>1. CASE UNCHANGED lifeVars
    BY <1>1 DEF lifeVars
  <1>2. ASSUME NEW p \in Procs, AcquireStep(p) PROVE ReadyInv'
    <2>1. CASE Flock(p)
      BY <2>1 DEF Flock
    <2>2. CASE Look(p)
      BY <2>2 DEF Look
    <2>3. CASE Clean(p)
      BY <2>3 DEF Clean
    <2>4. CASE WritePid(p)
      BY <2>4 DEF WritePid
    <2> QED
      BY <1>2, <2>1, <2>2, <2>3, <2>4 DEF AcquireStep
  <1>3. ASSUME NEW p \in Procs, Die(p) \/ Crash(p) PROVE ReadyInv'
    BY <1>3 DEF Die, Crash, Gone, Undo
  <1>4. ASSUME NEW c \in Commands, CommandStep(c) PROVE ReadyInv'
    <2> USE DEF Call, ReturnCall, EndProbe, EnsureNext, Undo, Doubted, EnsureAnswers
    <2>1. ASSUME NEW j \in Jobs, Begin(c, j) PROVE ReadyInv'
      BY <2>1 DEF Begin
    <2>2. CASE CommandExit(c)
      BY <2>2 DEF CommandExit
    <2>3. CASE ProbeFree(c)
      BY <2>3 DEF ProbeFree
    <2>4. CASE StatusHeld(c)
      BY <2>4 DEF StatusHeld
    <2>5. CASE StopHeld(c)
      BY <2>5 DEF StopHeld
    <2>6. CASE WaitHeld(c)
      BY <2>6 DEF WaitHeld
    <2>7. CASE EnsureHeld(c)
      BY <2>7 DEF EnsureHeld
    <2>8. CASE RemoveSock(c)
      BY <2>8 DEF RemoveSock
    <2>9. CASE RemovePort(c)
      BY <2>9 DEF RemovePort
    <2>10. CASE ReleaseProbe(c)
      BY <2>10 DEF ReleaseProbe
    <2>11. ASSUME NEW d \in Daemons, SpawnDaemon(c, d) PROVE ReadyInv'
      BY <2>11 DEF SpawnDaemon
    <2>12. CASE SendTerm(c)
      BY <2>12 DEF SendTerm
    <2> QED
      BY <1>4, <2>1, <2>2, <2>3, <2>4, <2>5, <2>6, <2>7, <2>8, <2>9, <2>10,
         <2>11, <2>12 DEF CommandStep
  <1>5. ASSUME NEW d \in Daemons, DaemonStep(d) PROVE ReadyInv'
    <2> USE DEF Gone, Undo, Doubted
    <2>1. CASE DaemonHeld(d)
      <3>1. d \in Procs /\ d \notin Commands /\ ~Ready(d)
        BY <2>1 DEF DaemonHeld
      <3>2. \A q \in Procs : q # d => (Ready(q)' <=> Ready(q))
        BY <2>1, <3>1 DEF DaemonHeld
      <3>3. /\ UNCHANGED <<answer, Probing>>
            /\ \A c \in Commands : Relies(c)' <=> Relies(c)
        BY <2>1, <3>1 DEF DaemonHeld
      <3> QED
        BY <3>1, <3>2, <3>3 DEF ReadyInv
    <2>2. CASE OpenSock(d)
      BY <2>2 DEF OpenSock
    <2>3. CASE WritePort(d)
      BY <2>3 DEF WritePort
    <2>4. CASE StartFails(d)
      BY <2>4 DEF StartFails
    <2>5. CASE Serve(d)
      BY <2>5 DEF Serve
    <2>6. CASE CloseListeners(d)
      BY <2>6 DEF CloseListeners
    <2>7. CASE CloseEnds(d)
      BY <2>7 DEF CloseEnds
    <2>8. CASE ReleasePid(d)
      BY <2>8 DEF ReleasePid
    <2> QED
      BY <1>5, <2>1, <2>2, <2>3, <2>4, <2>5, <2>6, <2>7, <2>8 DEF DaemonStep
  <1> QED
    BY <1>1, <1>2, <1>3, <1>4, <1>5 DEF DaemonNext

(* Who holds the flock, whose the endpoints are, and what a finished Ensure *)
(* may rely on, in every state of every behaviour.                          *)
THEOREM DaemonInvariance == DaemonSpec => [](DaemonInv /\ ReadyInv)
  <1>1. DaemonInv /\ ReadyInv /\ [DaemonNext]_lifeVars => (DaemonInv /\ ReadyInv)'
    BY DaemonInvStep, ReadyStep
  <1> QED
    BY DaemonInitInv, <1>1, PTL DEF DaemonSpec

-----------------------------------------------------------------------------
(* The endpoints are the serving daemon's, and nobody gives the flock back  *)
(* before they are gone, however many daemons and commands there are.       *)
THEOREM Owned == DaemonSpec => []EndpointsOwned
  <1>1. DaemonInv => EndpointsOwned
    BY BridgeAssumption DEF DaemonInv, HolderInv, EndpointInv, Holds,
       EndpointsOwned, Up, Procs
  <1> QED
    BY <1>1, DaemonInvariance, PTL

(* When all is quiet after an Ensure that nobody undid, a daemon serves.    *)
THEOREM SomebodyServes == DaemonSpec => []Served
  <1>1. DaemonInv /\ ReadyInv => Served
    BY BridgeAssumption DEF DaemonInv, DaemonTypeOK, HolderInv, PhaseInv, Holds,
       ReadyInv, Ready, Probing, Served, Quiet, Procs
  <1> QED
    BY <1>1, DaemonInvariance, PTL
=============================================================================
