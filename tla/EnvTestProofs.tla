---------------------------- MODULE EnvTestProofs ----------------------------
(***************************************************************************)
(* Proofs about environment tests, for any number of scenarios, commands,  *)
(* workers, cleaners and ports, and for any number of runs and faults.     *)
(***************************************************************************)
EXTENDS EnvTest, Sequences, TLAPS

-----------------------------------------------------------------------------
(* Who is where.                                                           *)

Held == {"copy", "generate", "manifest", "validate", "deploy", "steps", "unlock"} \cup Teardown

\* The flock of a scenario is with the actor that works on a run of it.
PlaceInv ==
    /\ \A w \in Workers :
          /\ pc[w] \notin {"pick", "lock"}
          /\ pc[w] = "idle" <=> job[w] = Nobody
          /\ pc[w] \in Held => Of(run[w]) = ScenarioOf(w)
    /\ \A c \in Cleaners :
          /\ pc[c] \in {"idle", "pick", "lock", "unlock"} \cup Teardown
          /\ pc[c] = "lock" => run[c] \in Runs
    /\ \A a \in Actors : pc[a] \in Held => run[a] \in Runs /\ lock[Of(run[a])] = a
    /\ \A s \in Scenarios : lock[s] # Nobody =>
          pc[lock[s]] \in Held /\ Of(run[lock[s]]) = s

\* Whoever has a port has leased it in its process.
PortInv ==
    /\ \A w \in Workers : port[w] # NoPort => job[w] # Nobody /\ port[w] \in leased[CommandOf(w)]
    /\ PortsApart

\* What a worker has made of its run so far.
OwnInv == \A w \in Workers :
    /\ pc[w] \in {"copy", "generate", "manifest"} => \A r \in manifests : Of(r) # Of(run[w])
    /\ pc[w] \in {"manifest", "validate", "deploy", "steps", "down", "reap", "volumes",
                  "bridge", "rmcopy"} => copy[Of(run[w])] = run[w]
    /\ pc[w] \in {"validate", "deploy", "steps"} \cup Teardown => run[w] \in manifests

\* A sweep that is not stale works in the copy of its run.
StaleInv == \A c \in Cleaners : pc[c] = "down" /\ ~stale[c] => Valid(run[c])

-----------------------------------------------------------------------------
(* What is left of a run.                                                  *)

Excused(r) == Noted(r, "failed") \/ Noted(r, "inflight")

\* A docker command under way may bring up what is down.
IsDown(r)   == r \in containers \cup inflight => Excused(r)
NoVolume(r) == r \in volumes => Excused(r) \/ Noted(r, "volume")
NoBridge(r) == r \in bridges => Noted(r, "failed") \/ Noted(r, "stale")
Swept(r)    == IsDown(r) /\ NoVolume(r) /\ NoBridge(r)

RecordInv == \A r \in Runs \ manifests : Swept(r)

\* The copy of a run with a manifest is its own, or somebody removed it after
\* all the other steps, or in an outdated sweep.
CopyInv ==
    /\ \A q, r \in manifests : Of(q) = Of(r) => q = r
    /\ \A r \in manifests :
          \/ copy[Of(r)] = r
          \/ /\ copy[Of(r)] \in {None, Broken, Bare}
             /\ copy[Of(r)] = Bare => Noted(r, "cut") \/ Noted(r, "stale")
             /\ Noted(r, "stale") \/ Swept(r)

\* What the steps of a teardown have done when they are over.
PastInv == \A a \in Actors :
    /\ pc[a] \in {"volumes", "bridge", "rmcopy", "delete"} => IsDown(run[a])
    /\ pc[a] \in {"bridge", "rmcopy", "delete"} => NoVolume(run[a])
    /\ pc[a] \in {"rmcopy", "delete"} => NoBridge(run[a])

\* And what they have done when none of them has failed.
Reports(a) == a \in Cleaners /\ pc[a] = "unlock"

CleanInv == \A a \in Actors : ~err[a] =>
    /\ pc[a] \in {"volumes", "bridge", "rmcopy", "delete"} \/ Reports(a) =>
          (run[a] \in containers \cup inflight => Noted(run[a], "inflight"))
    /\ pc[a] \in {"bridge", "rmcopy", "delete"} \/ Reports(a) =>
          (run[a] \in volumes => Noted(run[a], "inflight") \/ Noted(run[a], "volume"))
    /\ pc[a] = "delete" \/ Reports(a) => copy[Of(run[a])] = None
    /\ Reports(a) => run[a] \notin manifests

Inv ==
    /\ TypeOK /\ PlaceInv /\ PortInv /\ OwnInv /\ StaleInv
    /\ RecordInv /\ CopyInv /\ PastInv /\ CleanInv

-----------------------------------------------------------------------------
(* Nobody, the runs and what else may be in a copy are all different.       *)
LEMMA Distinct ==
    /\ Nobody \notin Actors /\ Workers \cap Cleaners = {}
    /\ Nobody \notin Commands \X Scenarios /\ Nobody \notin Ports
    /\ \A r \in Runs : /\ r \notin {None, Broken, Bare, Dev}
                       /\ Of(r) \in Scenarios
    /\ None # Broken /\ None # Bare /\ Broken # Bare
    /\ \A s \in Scenarios, n \in 1 .. MaxRuns : <<s, n>> \in Runs /\ Of(<<s, n>>) = s
    /\ MaxRuns \in Nat /\ MaxFaults \in Nat
PROOF
  <1>1. None # Broken /\ None # Bare /\ Broken # Bare
    BY DEF None, Broken, Bare
  <1>2. ASSUME NEW r \in Runs PROVE r \notin {None, Broken, Bare, Dev} /\ Of(r) \in Scenarios
    <2>1. PICK s \in Scenarios, n \in 1 .. MaxRuns : r = <<s, n>>
      BY DEF Runs
    <2>2. Len(r) = 2
      BY <2>1
    <2>3. Len(None) = 1 /\ Len(Broken) = 1 /\ Len(Bare) = 1 /\ Len(Dev) = 1
      BY DEF None, Broken, Bare, Dev
    <2>4. r \notin {None, Broken, Bare, Dev}
      BY <2>2, <2>3
    <2> QED
      BY <2>1, <2>4 DEF Of
  <1>3. \A s \in Scenarios, n \in 1 .. MaxRuns : <<s, n>> \in Runs /\ Of(<<s, n>>) = s
    BY DEF Runs, Of
  <1> QED
    BY <1>1, <1>2, <1>3, EnvTestAssumption DEF Actors

\* Two actors do not work on the same scenario.
LEMMA Alone ==
    ASSUME Inv, NEW a \in Actors, NEW b \in Actors, pc[a] \in Held, pc[b] \in Held,
           Of(run[a]) = Of(run[b])
    PROVE  a = b
  BY DEF Inv, PlaceInv

LEMMA RefuseKeeps ==
    ASSUME Inv, NEW w \in Workers, Refuse(w)
    PROVE  Inv'
  <1>1. /\ pc[w] = "start"
        /\ Forget({w}, "idle")
        /\ UNCHANGED <<todo, made, manifests, copy, containers, volumes, bridges, inflight,
                       faults, notes>>
    BY DEF Refuse, docker, files
  <1>2. TypeOK'
    <2>1. job' \in [Workers -> (Commands \X Scenarios) \cup {Nobody}]
      BY <1>1, Distinct DEF Inv, TypeOK, Actors, Forget, WorkersOf, Hired, CommandOf
    <2>2. pc' \in [Actors -> Phases]
      BY <1>1, Distinct DEF Inv, TypeOK, Actors, Phases, Teardown, Forget, WorkersOf, Hired,
         CommandOf
    <2>3. run' \in [Actors -> Runs \cup {Nobody}]
      BY <1>1, Distinct DEF Inv, TypeOK, Actors, PlaceInv, Held, Teardown, ScenarioOf,
         Forget, WorkersOf, Hired, CommandOf
    <2>4. err' \in [Actors -> BOOLEAN]
      BY <1>1, Distinct DEF Inv, TypeOK, Actors, Forget, WorkersOf, Hired, CommandOf
    <2>5. stale' \in [Cleaners -> BOOLEAN]
      BY <1>1, Distinct DEF Inv, TypeOK, Actors, Forget, WorkersOf, Hired, CommandOf
    <2>6. retried' \in [Workers -> BOOLEAN]
      BY <1>1, Distinct DEF Inv, TypeOK, Actors, Forget, WorkersOf, Hired, CommandOf
    <2>7. port' \in [Workers -> Ports \cup {NoPort}]
      BY <1>1, Distinct DEF Inv, TypeOK, Actors, Forget, WorkersOf, Hired, CommandOf
    <2>8. lock' \in [Scenarios -> Actors \cup {Nobody}]
      BY <1>1, Distinct DEF Inv, TypeOK, Actors, PlaceInv, Held, Teardown, ScenarioOf,
         Forget, WorkersOf, Hired, CommandOf
    <2>9. keep' \in [Commands -> BOOLEAN]
      BY <1>1, Distinct DEF Inv, TypeOK, Actors, Forget, WorkersOf, Hired, CommandOf
    <2>10. leased' \in [Commands -> SUBSET Ports]
      BY <1>1, Distinct DEF Inv, TypeOK, Actors, PlaceInv, CommandOf, Forget, WorkersOf,
         Hired
    <2> QED
      BY <1>1, <2>1, <2>2, <2>3, <2>4, <2>5, <2>6, <2>7, <2>8, <2>9, <2>10 DEF Inv, TypeOK
  <1>3. PlaceInv'
    BY <1>1, Distinct DEF Inv, PlaceInv, Held, Teardown, ScenarioOf, Of, Actors, TypeOK,
       Forget, WorkersOf, Hired, CommandOf
  <1>4. PortInv'
    BY <1>1, Distinct DEF Inv, PortInv, PortsApart, CommandOf, TypeOK, PlaceInv, Actors,
       Forget, WorkersOf, Hired
  <1>5. OwnInv'
    BY <1>1, Distinct DEF Inv, OwnInv, Teardown, TypeOK, PlaceInv, Held, Actors, Forget,
       WorkersOf, Hired, CommandOf
  <1>6. StaleInv'
    BY <1>1, Distinct DEF Inv, StaleInv, Valid, Loads, TypeOK, PlaceInv, Held, Teardown,
       Actors, Forget, WorkersOf, Hired, CommandOf
  <1>7. RecordInv'
    BY <1>1, Distinct DEF Inv, RecordInv, Swept, IsDown, NoVolume, NoBridge, Excused, Noted,
       TypeOK, PlaceInv, OwnInv, PastInv, Held, Teardown, Actors, Forget, WorkersOf, Hired,
       CommandOf
  <1>8. CopyInv'
    BY <1>1, Distinct DEF Inv, CopyInv, Swept, IsDown, NoVolume, NoBridge, Excused, Noted,
       TypeOK, PlaceInv, OwnInv, PastInv, Held, Teardown, Actors, Forget, WorkersOf, Hired,
       CommandOf
  <1>9. PastInv'
    BY <1>1, Distinct DEF Inv, PastInv, IsDown, NoVolume, NoBridge, Excused, Noted, TypeOK,
       PlaceInv, OwnInv, Held, Teardown, Actors, Forget, WorkersOf, Hired, CommandOf
  <1>10. CleanInv'
    BY <1>1, Distinct DEF Inv, CleanInv, Reports, Noted, TypeOK, PlaceInv, OwnInv, Held,
       Teardown, Actors, Forget, WorkersOf, Hired, CommandOf
  <1> QED
    BY <1>2, <1>3, <1>4, <1>5, <1>6, <1>7, <1>8, <1>9, <1>10 DEF Inv

LEMMA SkipLiveKeeps ==
    ASSUME Inv, NEW c \in Cleaners, SkipLive(c)
    PROVE  Inv'
  <1>1. /\ pc[c] = "lock"
        /\ Forget({c}, "pick")
        /\ UNCHANGED <<todo, made, manifests, copy, containers, volumes, bridges, inflight,
                       faults, notes>>
    BY DEF SkipLive, docker, files
  <1>2. TypeOK'
    <2>1. job' \in [Workers -> (Commands \X Scenarios) \cup {Nobody}]
      BY <1>1, Distinct DEF Inv, TypeOK, Actors, Forget, WorkersOf, Hired, CommandOf
    <2>2. pc' \in [Actors -> Phases]
      BY <1>1, Distinct DEF Inv, TypeOK, Actors, Phases, Teardown, Forget, WorkersOf, Hired,
         CommandOf
    <2>3. run' \in [Actors -> Runs \cup {Nobody}]
      BY <1>1, Distinct DEF Inv, TypeOK, Actors, PlaceInv, Held, Teardown, ScenarioOf,
         Forget, WorkersOf, Hired, CommandOf
    <2>4. err' \in [Actors -> BOOLEAN]
      BY <1>1, Distinct DEF Inv, TypeOK, Actors, Forget, WorkersOf, Hired, CommandOf
    <2>5. stale' \in [Cleaners -> BOOLEAN]
      BY <1>1, Distinct DEF Inv, TypeOK, Actors, Forget, WorkersOf, Hired, CommandOf
    <2>6. retried' \in [Workers -> BOOLEAN]
      BY <1>1, Distinct DEF Inv, TypeOK, Actors, Forget, WorkersOf, Hired, CommandOf
    <2>7. port' \in [Workers -> Ports \cup {NoPort}]
      BY <1>1, Distinct DEF Inv, TypeOK, Actors, Forget, WorkersOf, Hired, CommandOf
    <2>8. lock' \in [Scenarios -> Actors \cup {Nobody}]
      BY <1>1, Distinct DEF Inv, TypeOK, Actors, PlaceInv, Held, Teardown, ScenarioOf,
         Forget, WorkersOf, Hired, CommandOf
    <2>9. keep' \in [Commands -> BOOLEAN]
      BY <1>1, Distinct DEF Inv, TypeOK, Actors, Forget, WorkersOf, Hired, CommandOf
    <2>10. leased' \in [Commands -> SUBSET Ports]
      BY <1>1, Distinct DEF Inv, TypeOK, Actors, PlaceInv, CommandOf, Forget, WorkersOf,
         Hired
    <2> QED
      BY <1>1, <2>1, <2>2, <2>3, <2>4, <2>5, <2>6, <2>7, <2>8, <2>9, <2>10 DEF Inv, TypeOK
  <1>3. PlaceInv'
    BY <1>1, Distinct DEF Inv, PlaceInv, Held, Teardown, ScenarioOf, Of, Actors, TypeOK,
       Forget, WorkersOf, Hired, CommandOf
  <1>4. PortInv'
    BY <1>1, Distinct DEF Inv, PortInv, PortsApart, CommandOf, TypeOK, PlaceInv, Actors,
       Forget, WorkersOf, Hired
  <1>5. OwnInv'
    BY <1>1, Distinct DEF Inv, OwnInv, Teardown, TypeOK, PlaceInv, Held, Actors, Forget,
       WorkersOf, Hired, CommandOf
  <1>6. StaleInv'
    BY <1>1, Distinct DEF Inv, StaleInv, Valid, Loads, TypeOK, PlaceInv, Held, Teardown,
       Actors, Forget, WorkersOf, Hired, CommandOf
  <1>7. RecordInv'
    BY <1>1, Distinct DEF Inv, RecordInv, Swept, IsDown, NoVolume, NoBridge, Excused, Noted,
       TypeOK, PlaceInv, OwnInv, PastInv, Held, Teardown, Actors, Forget, WorkersOf, Hired,
       CommandOf
  <1>8. CopyInv'
    BY <1>1, Distinct DEF Inv, CopyInv, Swept, IsDown, NoVolume, NoBridge, Excused, Noted,
       TypeOK, PlaceInv, OwnInv, PastInv, Held, Teardown, Actors, Forget, WorkersOf, Hired,
       CommandOf
  <1>9. PastInv'
    BY <1>1, Distinct DEF Inv, PastInv, IsDown, NoVolume, NoBridge, Excused, Noted, TypeOK,
       PlaceInv, OwnInv, Held, Teardown, Actors, Forget, WorkersOf, Hired, CommandOf
  <1>10. CleanInv'
    BY <1>1, Distinct DEF Inv, CleanInv, Reports, Noted, TypeOK, PlaceInv, OwnInv, Held,
       Teardown, Actors, Forget, WorkersOf, Hired, CommandOf
  <1> QED
    BY <1>2, <1>3, <1>4, <1>5, <1>6, <1>7, <1>8, <1>9, <1>10 DEF Inv

LEMMA ReleaseKeeps ==
    ASSUME Inv, NEW a \in Actors, Release(a)
    PROVE  Inv'
  <1>1. /\ pc[a] = "unlock"
        /\ Forget({a}, IF a \in Workers THEN "idle" ELSE "pick")
        /\ UNCHANGED <<todo, made, manifests, copy, containers, volumes, bridges, inflight,
                       faults, notes>>
    BY DEF Release, docker, files
  <1>2. TypeOK'
    <2>1. job' \in [Workers -> (Commands \X Scenarios) \cup {Nobody}]
      BY <1>1, Distinct DEF Inv, TypeOK, Actors, Forget, WorkersOf, Hired, CommandOf
    <2>2. pc' \in [Actors -> Phases]
      BY <1>1, Distinct DEF Inv, TypeOK, Actors, Phases, Teardown, Forget, WorkersOf, Hired,
         CommandOf
    <2>3. run' \in [Actors -> Runs \cup {Nobody}]
      BY <1>1, Distinct DEF Inv, TypeOK, Actors, PlaceInv, Held, Teardown, ScenarioOf,
         Forget, WorkersOf, Hired, CommandOf
    <2>4. err' \in [Actors -> BOOLEAN]
      BY <1>1, Distinct DEF Inv, TypeOK, Actors, Forget, WorkersOf, Hired, CommandOf
    <2>5. stale' \in [Cleaners -> BOOLEAN]
      BY <1>1, Distinct DEF Inv, TypeOK, Actors, Forget, WorkersOf, Hired, CommandOf
    <2>6. retried' \in [Workers -> BOOLEAN]
      BY <1>1, Distinct DEF Inv, TypeOK, Actors, Forget, WorkersOf, Hired, CommandOf
    <2>7. port' \in [Workers -> Ports \cup {NoPort}]
      BY <1>1, Distinct DEF Inv, TypeOK, Actors, Forget, WorkersOf, Hired, CommandOf
    <2>8. lock' \in [Scenarios -> Actors \cup {Nobody}]
      BY <1>1, Distinct DEF Inv, TypeOK, Actors, PlaceInv, Held, Teardown, ScenarioOf,
         Forget, WorkersOf, Hired, CommandOf
    <2>9. keep' \in [Commands -> BOOLEAN]
      BY <1>1, Distinct DEF Inv, TypeOK, Actors, Forget, WorkersOf, Hired, CommandOf
    <2>10. leased' \in [Commands -> SUBSET Ports]
      BY <1>1, Distinct DEF Inv, TypeOK, Actors, PlaceInv, CommandOf, Forget, WorkersOf,
         Hired
    <2> QED
      BY <1>1, <2>1, <2>2, <2>3, <2>4, <2>5, <2>6, <2>7, <2>8, <2>9, <2>10 DEF Inv, TypeOK
  <1>3. PlaceInv'
    BY <1>1, Distinct DEF Inv, PlaceInv, Held, Teardown, ScenarioOf, Of, Actors, TypeOK,
       Forget, WorkersOf, Hired, CommandOf
  <1>4. PortInv'
    BY <1>1, Distinct DEF Inv, PortInv, PortsApart, CommandOf, TypeOK, PlaceInv, Actors,
       Forget, WorkersOf, Hired
  <1>5. OwnInv'
    BY <1>1, Distinct DEF Inv, OwnInv, Teardown, TypeOK, PlaceInv, Held, Actors, Forget,
       WorkersOf, Hired, CommandOf
  <1>6. StaleInv'
    BY <1>1, Distinct DEF Inv, StaleInv, Valid, Loads, TypeOK, PlaceInv, Held, Teardown,
       Actors, Forget, WorkersOf, Hired, CommandOf
  <1>7. RecordInv'
    BY <1>1, Distinct DEF Inv, RecordInv, Swept, IsDown, NoVolume, NoBridge, Excused, Noted,
       TypeOK, PlaceInv, OwnInv, PastInv, Held, Teardown, Actors, Forget, WorkersOf, Hired,
       CommandOf
  <1>8. CopyInv'
    BY <1>1, Distinct DEF Inv, CopyInv, Swept, IsDown, NoVolume, NoBridge, Excused, Noted,
       TypeOK, PlaceInv, OwnInv, PastInv, Held, Teardown, Actors, Forget, WorkersOf, Hired,
       CommandOf
  <1>9. PastInv'
    BY <1>1, Distinct DEF Inv, PastInv, IsDown, NoVolume, NoBridge, Excused, Noted, TypeOK,
       PlaceInv, OwnInv, Held, Teardown, Actors, Forget, WorkersOf, Hired, CommandOf
  <1>10. CleanInv'
    BY <1>1, Distinct DEF Inv, CleanInv, Reports, Noted, TypeOK, PlaceInv, OwnInv, Held,
       Teardown, Actors, Forget, WorkersOf, Hired, CommandOf
  <1> QED
    BY <1>2, <1>3, <1>4, <1>5, <1>6, <1>7, <1>8, <1>9, <1>10 DEF Inv

LEMMA AcquireKeeps ==
    ASSUME Inv, NEW w \in Workers, Acquire(w)
    PROVE  Inv'
  <1>1. /\ pc[w] = "start"
        /\ lock[ScenarioOf(w)] = Nobody /\ made < MaxRuns
        /\ \A r \in manifests : Of(r) # ScenarioOf(w)
        /\ lock' = [lock EXCEPT ![ScenarioOf(w)] = w]
        /\ made' = made + 1
        /\ run' = [run EXCEPT ![w] = <<ScenarioOf(w), made + 1>>]
        /\ pc' = [pc EXCEPT ![w] = "copy"]
        /\ UNCHANGED <<job, err, todo, keep, retried, port, leased, manifests, copy,
                       containers, volumes, bridges, inflight, faults, stale, notes>>
    BY DEF Acquire, GoTo, docker, command, history, Kept
  <1>2. TypeOK'
    <2>1. lock' \in [Scenarios -> Actors \cup {Nobody}]
      BY <1>1, Distinct DEF Inv, TypeOK, Actors, PlaceInv, Held, Teardown, ScenarioOf
    <2>2. made' \in 0 .. MaxRuns
      BY <1>1, Distinct DEF Inv, TypeOK, Actors
    <2>3. run' \in [Actors -> Runs \cup {Nobody}]
      BY <1>1, Distinct DEF Inv, TypeOK, Actors, PlaceInv, Held, Teardown, ScenarioOf
    <2>4. pc' \in [Actors -> Phases]
      BY <1>1, Distinct DEF Inv, TypeOK, Actors, Phases, Teardown
    <2> QED
      BY <1>1, <2>1, <2>2, <2>3, <2>4 DEF Inv, TypeOK
  <1>3. PlaceInv'
    BY <1>1, Distinct DEF Inv, PlaceInv, Held, Teardown, ScenarioOf, Of, Actors, TypeOK
  <1>4. PortInv'
    BY <1>1, Distinct DEF Inv, PortInv, PortsApart, CommandOf, TypeOK, PlaceInv, Actors
  <1>5. OwnInv'
    <2>1. Of(run'[w]) = ScenarioOf(w) /\ pc'[w] = "copy"
      BY <1>1, Distinct DEF Inv, TypeOK, PlaceInv, ScenarioOf, Actors
    <2>2. \A v \in Workers : v # w => run'[v] = run[v] /\ pc'[v] = pc[v]
      BY <1>1 DEF Inv, TypeOK, Actors
    <2> QED
      BY <1>1, <2>1, <2>2 DEF Inv, OwnInv, Teardown
  <1>6. StaleInv'
    BY <1>1, Distinct DEF Inv, StaleInv, Valid, Loads, TypeOK, PlaceInv, Held, Teardown,
       Actors
  <1>7. RecordInv'
    BY <1>1, Distinct DEF Inv, RecordInv, Swept, IsDown, NoVolume, NoBridge, Excused, Noted,
       TypeOK, PlaceInv, OwnInv, PastInv, Held, Teardown, Actors
  <1>8. CopyInv'
    BY <1>1, Distinct DEF Inv, CopyInv, Swept, IsDown, NoVolume, NoBridge, Excused, Noted,
       TypeOK, PlaceInv, OwnInv, PastInv, Held, Teardown, Actors
  <1>9. PastInv'
    BY <1>1, Distinct DEF Inv, PastInv, IsDown, NoVolume, NoBridge, Excused, Noted, TypeOK,
       PlaceInv, OwnInv, Held, Teardown, Actors
  <1>10. CleanInv'
    BY <1>1, Distinct DEF Inv, CleanInv, Reports, Noted, TypeOK, PlaceInv, OwnInv, Held,
       Teardown, Actors
  <1> QED
    BY <1>2, <1>3, <1>4, <1>5, <1>6, <1>7, <1>8, <1>9, <1>10 DEF Inv

LEMMA CopyTreeKeeps ==
    ASSUME Inv, NEW w \in Workers, CopyTree(w)
    PROVE  Inv'
  <1>1. /\ pc[w] = "copy"
        /\ copy' = [copy EXCEPT ![ScenarioOf(w)] = Bare]
        /\ pc' = [pc EXCEPT ![w] = "generate"]
        /\ UNCHANGED <<job, run, err, todo, keep, retried, port, leased, lock, made,
                       manifests, containers, volumes, bridges, inflight, faults, stale,
                       notes>>
    BY DEF CopyTree, GoTo, docker, command, history
  <1>2. TypeOK'
    <2>1. copy' \in [Scenarios -> Runs \cup {None, Broken, Bare}]
      BY <1>1, Distinct DEF Inv, TypeOK, Actors, PlaceInv, Held, Teardown, ScenarioOf
    <2>2. pc' \in [Actors -> Phases]
      BY <1>1, Distinct DEF Inv, TypeOK, Actors, Phases, Teardown
    <2> QED
      BY <1>1, <2>1, <2>2 DEF Inv, TypeOK
  <1>3. PlaceInv'
    BY <1>1, Distinct DEF Inv, PlaceInv, Held, Teardown, ScenarioOf, Of, Actors, TypeOK
  <1>4. PortInv'
    BY <1>1, Distinct DEF Inv, PortInv, PortsApart, CommandOf, TypeOK, PlaceInv, Actors
  <1>5. OwnInv'
    BY <1>1, Distinct DEF Inv, OwnInv, Teardown, TypeOK, PlaceInv, Held, Actors
  <1>6. StaleInv'
    BY <1>1, Distinct DEF Inv, StaleInv, Valid, Loads, TypeOK, PlaceInv, Held, Teardown,
       Actors
  <1>7. RecordInv'
    BY <1>1, Distinct DEF Inv, RecordInv, Swept, IsDown, NoVolume, NoBridge, Excused, Noted,
       TypeOK, PlaceInv, OwnInv, PastInv, Held, Teardown, Actors
  <1>8. CopyInv'
    <2>1. \A r \in manifests : Of(r) # ScenarioOf(w)
      BY <1>1 DEF Inv, OwnInv, PlaceInv, Held, Actors
    <2>2. \A r \in manifests : copy'[Of(r)] = copy[Of(r)]
      BY <1>1, <2>1 DEF Inv, TypeOK
    <2>3. \A r \in Runs : Swept(r) => Swept(r)'
      BY <1>1 DEF Swept, IsDown, NoVolume, NoBridge, Excused, Noted
    <2> QED
      BY <1>1, <2>2, <2>3 DEF Inv, TypeOK, CopyInv, Noted
  <1>9. PastInv'
    BY <1>1, Distinct DEF Inv, PastInv, Swept, IsDown, NoVolume, NoBridge, Excused, Noted,
       TypeOK, PlaceInv, OwnInv, Held, Teardown, Actors
  <1>10. CleanInv'
    BY <1>1, Distinct DEF Inv, CleanInv, Reports, Noted, TypeOK, PlaceInv, OwnInv, Held,
       Teardown, Actors
  <1> QED
    BY <1>2, <1>3, <1>4, <1>5, <1>6, <1>7, <1>8, <1>9, <1>10 DEF Inv

LEMMA GenerateKeeps ==
    ASSUME Inv, NEW w \in Workers, Generate(w)
    PROVE  Inv'
  <1>1. /\ pc[w] = "generate"
        /\ \E p \in Ports : AllocatePorts(w, p)
        /\ copy' = [copy EXCEPT ![ScenarioOf(w)] = run[w]]
        /\ pc' = [pc EXCEPT ![w] = "manifest"]
        /\ UNCHANGED <<job, run, err, todo, keep, retried, lock, made, manifests, containers,
                       volumes, bridges, inflight, faults, stale, notes>>
    BY DEF Generate, GoTo, docker, history
  <1>2. TypeOK'
    <2>1. copy' \in [Scenarios -> Runs \cup {None, Broken, Bare}]
      BY <1>1, Distinct DEF Inv, TypeOK, Actors, PlaceInv, Held, Teardown, ScenarioOf,
         AllocatePorts, CommandOf
    <2>2. pc' \in [Actors -> Phases]
      BY <1>1, Distinct DEF Inv, TypeOK, Actors, Phases, Teardown, AllocatePorts, CommandOf
    <2>3. port' \in [Workers -> Ports \cup {NoPort}]
      BY <1>1, Distinct DEF Inv, TypeOK, Actors, AllocatePorts, CommandOf
    <2>4. leased' \in [Commands -> SUBSET Ports]
      BY <1>1, Distinct DEF Inv, TypeOK, Actors, PlaceInv, CommandOf, AllocatePorts
    <2> QED
      BY <1>1, <2>1, <2>2, <2>3, <2>4 DEF Inv, TypeOK
  <1>3. PlaceInv'
    BY <1>1, Distinct DEF Inv, PlaceInv, Held, Teardown, ScenarioOf, Of, Actors, TypeOK
  <1>4. PortInv'
    BY <1>1, Distinct DEF Inv, PortInv, PortsApart, CommandOf, TypeOK, PlaceInv, Actors,
       AllocatePorts
  <1>5. OwnInv'
    BY <1>1, Distinct DEF Inv, OwnInv, Teardown, TypeOK, PlaceInv, Held, Actors
  <1>6. StaleInv'
    BY <1>1, Distinct DEF Inv, StaleInv, Valid, Loads, TypeOK, PlaceInv, Held, Teardown,
       Actors
  <1>7. RecordInv'
    BY <1>1, Distinct DEF Inv, RecordInv, Swept, IsDown, NoVolume, NoBridge, Excused, Noted,
       TypeOK, PlaceInv, OwnInv, PastInv, Held, Teardown, Actors
  <1>8. CopyInv'
    <2>1. \A r \in manifests : Of(r) # ScenarioOf(w)
      BY <1>1 DEF Inv, OwnInv, PlaceInv, Held, Actors
    <2>2. \A r \in manifests : copy'[Of(r)] = copy[Of(r)]
      BY <1>1, <2>1 DEF Inv, TypeOK
    <2>3. \A r \in Runs : Swept(r) => Swept(r)'
      BY <1>1 DEF Swept, IsDown, NoVolume, NoBridge, Excused, Noted
    <2> QED
      BY <1>1, <2>2, <2>3 DEF Inv, TypeOK, CopyInv, Noted
  <1>9. PastInv'
    BY <1>1, Distinct DEF Inv, PastInv, Swept, IsDown, NoVolume, NoBridge, Excused, Noted,
       TypeOK, PlaceInv, OwnInv, Held, Teardown, Actors
  <1>10. CleanInv'
    BY <1>1, Distinct DEF Inv, CleanInv, Reports, Noted, TypeOK, PlaceInv, OwnInv, Held,
       Teardown, Actors
  <1> QED
    BY <1>2, <1>3, <1>4, <1>5, <1>6, <1>7, <1>8, <1>9, <1>10 DEF Inv

LEMMA WriteManifestKeeps ==
    ASSUME Inv, NEW w \in Workers, WriteManifest(w)
    PROVE  Inv'
  <1>1. /\ pc[w] = "manifest"
        /\ manifests' = manifests \cup {run[w]}
        /\ pc' = [pc EXCEPT ![w] = "validate"]
        /\ UNCHANGED <<job, run, err, todo, keep, retried, port, leased, lock, made, copy,
                       containers, volumes, bridges, inflight, faults, stale, notes>>
    BY DEF WriteManifest, GoTo, docker, command, history
  <1>2. TypeOK'
    <2>1. manifests' \in SUBSET Runs
      BY <1>1, Distinct DEF Inv, TypeOK, Actors, PlaceInv, Held
    <2>2. pc' \in [Actors -> Phases]
      BY <1>1, Distinct DEF Inv, TypeOK, Actors, Phases, Teardown
    <2> QED
      BY <1>1, <2>1, <2>2 DEF Inv, TypeOK
  <1>3. PlaceInv'
    BY <1>1, Distinct DEF Inv, PlaceInv, Held, Teardown, ScenarioOf, Of, Actors, TypeOK
  <1>4. PortInv'
    BY <1>1, Distinct DEF Inv, PortInv, PortsApart, CommandOf, TypeOK, PlaceInv, Actors
  <1>5. OwnInv'
    BY <1>1, Distinct DEF Inv, OwnInv, Teardown, TypeOK, PlaceInv, Held, Actors
  <1>6. StaleInv'
    BY <1>1, Distinct DEF Inv, StaleInv, Valid, Loads, TypeOK, PlaceInv, Held, Teardown,
       Actors
  <1>7. RecordInv'
    BY <1>1, Distinct DEF Inv, RecordInv, Swept, IsDown, NoVolume, NoBridge, Excused, Noted,
       TypeOK, PlaceInv, OwnInv, PastInv, Held, Teardown, Actors
  <1>8. CopyInv'
    <2>1. run[w] \in Runs /\ copy[Of(run[w])] = run[w] /\ \A r \in manifests : Of(r) # Of(run[w])
      BY <1>1 DEF Inv, OwnInv, PlaceInv, Held, Actors
    <2>2. \A r \in Runs : Swept(r) => Swept(r)'
      BY <1>1 DEF Swept, IsDown, NoVolume, NoBridge, Excused, Noted
    <2> QED
      BY <1>1, <2>1, <2>2 DEF Inv, TypeOK, CopyInv, Noted
  <1>9. PastInv'
    BY <1>1, Distinct DEF Inv, PastInv, Swept, IsDown, NoVolume, NoBridge, Excused, Noted,
       TypeOK, PlaceInv, OwnInv, Held, Teardown, Actors
  <1>10. CleanInv'
    BY <1>1, Distinct DEF Inv, CleanInv, Reports, Noted, TypeOK, PlaceInv, OwnInv, Held,
       Teardown, Actors
  <1> QED
    BY <1>2, <1>3, <1>4, <1>5, <1>6, <1>7, <1>8, <1>9, <1>10 DEF Inv

LEMMA PrepFailKeeps ==
    ASSUME Inv, NEW w \in Workers, PrepFail(w)
    PROVE  Inv'
  <1>1. /\ pc[w] \in {"copy", "generate", "manifest"}
        /\ \E left \in {None, Broken, Bare} \cup Remains(ScenarioOf(w)) :
                 copy' = [copy EXCEPT ![ScenarioOf(w)] = left]
        /\ pc' = [pc EXCEPT ![w] = "unlock"]
        /\ UNCHANGED <<job, run, err, todo, keep, retried, port, leased, lock, made,
                       manifests, containers, volumes, bridges, inflight, stale, notes>>
    BY DEF PrepFail, GoTo, Fault, docker, command, history
  <1>2. TypeOK'
    <2>1. copy' \in [Scenarios -> Runs \cup {None, Broken, Bare}]
      BY <1>1, Distinct DEF Inv, TypeOK, Actors, PlaceInv, Held, Teardown, ScenarioOf,
         Remains
    <2>2. pc' \in [Actors -> Phases]
      BY <1>1, Distinct DEF Inv, TypeOK, Actors, Phases, Teardown
    <2>3. faults' \in 0 .. MaxFaults
      BY <1>1, Distinct DEF Inv, TypeOK, Actors, Fault, PrepFail, GoTo, docker, command,
         history
    <2> QED
      BY <1>1, <2>1, <2>2, <2>3 DEF Inv, TypeOK
  <1>3. PlaceInv'
    BY <1>1, Distinct DEF Inv, PlaceInv, Held, Teardown, ScenarioOf, Of, Actors, TypeOK
  <1>4. PortInv'
    BY <1>1, Distinct DEF Inv, PortInv, PortsApart, CommandOf, TypeOK, PlaceInv, Actors
  <1>5. OwnInv'
    BY <1>1, Distinct DEF Inv, OwnInv, Teardown, TypeOK, PlaceInv, Held, Actors
  <1>6. StaleInv'
    BY <1>1, Distinct DEF Inv, StaleInv, Valid, Loads, TypeOK, PlaceInv, Held, Teardown,
       Actors
  <1>7. RecordInv'
    BY <1>1, Distinct DEF Inv, RecordInv, Swept, IsDown, NoVolume, NoBridge, Excused, Noted,
       TypeOK, PlaceInv, OwnInv, PastInv, Held, Teardown, Actors
  <1>8. CopyInv'
    <2>1. \A r \in manifests : Of(r) # ScenarioOf(w)
      BY <1>1 DEF Inv, OwnInv, PlaceInv, Held, Actors
    <2>2. \A r \in manifests : copy'[Of(r)] = copy[Of(r)]
      BY <1>1, <2>1 DEF Inv, TypeOK
    <2>3. \A r \in Runs : Swept(r) => Swept(r)'
      BY <1>1 DEF Swept, IsDown, NoVolume, NoBridge, Excused, Noted
    <2> QED
      BY <1>1, <2>2, <2>3 DEF Inv, TypeOK, CopyInv, Noted
  <1>9. PastInv'
    BY <1>1, Distinct DEF Inv, PastInv, Swept, IsDown, NoVolume, NoBridge, Excused, Noted,
       TypeOK, PlaceInv, OwnInv, Held, Teardown, Actors
  <1>10. CleanInv'
    BY <1>1, Distinct DEF Inv, CleanInv, Reports, Noted, TypeOK, PlaceInv, OwnInv, Held,
       Teardown, Actors
  <1> QED
    BY <1>2, <1>3, <1>4, <1>5, <1>6, <1>7, <1>8, <1>9, <1>10 DEF Inv

LEMMA ValidateKeeps ==
    ASSUME Inv, NEW w \in Workers, Validate(w)
    PROVE  Inv'
  <1>1. /\ pc[w] = "validate"
        /\ \E next \in {"deploy", "unlock", "down"} : pc' = [pc EXCEPT ![w] = next]
        /\ UNCHANGED <<job, run, err, todo, keep, retried, port, leased, lock, made,
                       manifests, copy, containers, volumes, bridges, inflight, faults, stale,
                       notes>>
    BY DEF Validate, GoTo, docker, files, command, history, Finish
  <1>2. TypeOK'
    <2>1. pc' \in [Actors -> Phases]
      BY <1>1, Distinct DEF Inv, TypeOK, Actors, Phases, Teardown
    <2> QED
      BY <1>1, <2>1 DEF Inv, TypeOK
  <1>3. PlaceInv'
    BY <1>1, Distinct DEF Inv, PlaceInv, Held, Teardown, ScenarioOf, Of, Actors, TypeOK
  <1>4. PortInv'
    BY <1>1, Distinct DEF Inv, PortInv, PortsApart, CommandOf, TypeOK, PlaceInv, Actors
  <1>5. OwnInv'
    BY <1>1, Distinct DEF Inv, OwnInv, Teardown, TypeOK, PlaceInv, Held, Actors
  <1>6. StaleInv'
    BY <1>1, Distinct DEF Inv, StaleInv, Valid, Loads, TypeOK, PlaceInv, Held, Teardown,
       Actors
  <1>7. RecordInv'
    BY <1>1, Distinct DEF Inv, RecordInv, Swept, IsDown, NoVolume, NoBridge, Excused, Noted,
       TypeOK, PlaceInv, OwnInv, PastInv, Held, Teardown, Actors
  <1>8. CopyInv'
    BY <1>1, Distinct DEF Inv, CopyInv, Swept, IsDown, NoVolume, NoBridge, Excused, Noted,
       TypeOK, PlaceInv, OwnInv, PastInv, Held, Teardown, Actors
  <1>9. PastInv'
    BY <1>1, Distinct, ZenonT(40) DEF Inv, PastInv, IsDown, NoVolume, NoBridge, Excused,
       Noted, TypeOK, PlaceInv, OwnInv, Held, Teardown, Actors
  <1>10. CleanInv'
    BY <1>1, Distinct DEF Inv, CleanInv, Reports, Noted, TypeOK, PlaceInv, OwnInv, Held,
       Teardown, Actors
  <1> QED
    BY <1>2, <1>3, <1>4, <1>5, <1>6, <1>7, <1>8, <1>9, <1>10 DEF Inv

LEMMA DeployUpKeeps ==
    ASSUME Inv, NEW w \in Workers, DeployUp(w)
    PROVE  Inv'
  <1>1. /\ pc[w] = "deploy"
        /\ containers' = containers \cup {run[w]}
        /\ volumes' = volumes \cup {run[w]}
        /\ bridges' = bridges \cup {run[w]}
        /\ UNCHANGED <<job, pc, run, err, todo, keep, retried, port, leased, lock, made,
                       manifests, copy, inflight, faults, stale, notes>>
    BY DEF DeployUp, files, command, history, Up
  <1>2. TypeOK'
    <2>1. containers' \in SUBSET (Runs \cup {Dev})
      BY <1>1, Distinct DEF Inv, TypeOK, Actors, PlaceInv, Held
    <2>2. volumes' \in SUBSET Runs
      BY <1>1, Distinct DEF Inv, TypeOK, Actors, PlaceInv, Held
    <2>3. bridges' \in SUBSET Runs
      BY <1>1, Distinct DEF Inv, TypeOK, Actors, PlaceInv, Held
    <2> QED
      BY <1>1, <2>1, <2>2, <2>3 DEF Inv, TypeOK
  <1>3. PlaceInv'
    BY <1>1, Distinct DEF Inv, PlaceInv, Held, Teardown, ScenarioOf, Of, Actors, TypeOK
  <1>4. PortInv'
    BY <1>1, Distinct DEF Inv, PortInv, PortsApart, CommandOf, TypeOK, PlaceInv, Actors
  <1>5. OwnInv'
    BY <1>1, Distinct DEF Inv, OwnInv, Teardown, TypeOK, PlaceInv, Held, Actors
  <1>6. StaleInv'
    BY <1>1, Distinct DEF Inv, StaleInv, Valid, Loads, TypeOK, PlaceInv, Held, Teardown,
       Actors
  <1>7. RecordInv'
    <2>1. run[w] \in manifests
      BY <1>1 DEF Inv, OwnInv
    <2>2. \A r \in Runs : r # run[w] /\ Swept(r) => Swept(r)'
      BY <1>1 DEF Swept, IsDown, NoVolume, NoBridge, Excused, Noted
    <2> QED
      BY <1>1, <2>1, <2>2 DEF Inv, RecordInv
  <1>8. CopyInv'
    BY <1>1, Distinct DEF Inv, CopyInv, Swept, IsDown, NoVolume, NoBridge, Excused, Noted,
       TypeOK, PlaceInv, OwnInv, PastInv, Held, Teardown, Actors
  <1>9. PastInv'
    <2>1. \A a \in Actors : pc[a] \in {"volumes", "bridge", "rmcopy", "delete"} =>
            run[a] \in Runs /\ run[a] # run[w]
      BY <1>1, Alone DEF Inv, PlaceInv, Held, Teardown, Actors
    <2>2. \A r \in Runs : r # run[w] =>
            /\ IsDown(r) => IsDown(r)'
            /\ NoVolume(r) => NoVolume(r)'
            /\ NoBridge(r) => NoBridge(r)'
      BY <1>1 DEF IsDown, NoVolume, NoBridge, Excused, Noted
    <2>3. \A a \in Actors : pc'[a] \in {"volumes", "bridge", "rmcopy", "delete"} => pc'[a] = pc[a]
      BY <1>1 DEF Inv, TypeOK
    <2> QED
      BY <1>1, <2>1, <2>2, <2>3 DEF Inv, PastInv
  <1>10. CleanInv'
    BY <1>1, Distinct DEF Inv, CleanInv, Reports, Noted, TypeOK, PlaceInv, OwnInv, Held,
       Teardown, Actors
  <1> QED
    BY <1>2, <1>3, <1>4, <1>5, <1>6, <1>7, <1>8, <1>9, <1>10 DEF Inv

LEMMA DeployEndsKeeps ==
    ASSUME Inv, NEW w \in Workers, DeployEnds(w)
    PROVE  Inv'
  <1>1. /\ pc[w] = "deploy"
        /\ \E next \in {"steps", "unlock", "down"} : pc' = [pc EXCEPT ![w] = next]
        /\ UNCHANGED <<job, run, err, todo, keep, retried, port, leased, lock, made,
                       manifests, copy, containers, volumes, bridges, inflight, faults, stale,
                       notes>>
    BY DEF DeployEnds, GoTo, docker, files, command, history, Finish
  <1>2. TypeOK'
    <2>1. pc' \in [Actors -> Phases]
      BY <1>1, Distinct DEF Inv, TypeOK, Actors, Phases, Teardown
    <2> QED
      BY <1>1, <2>1 DEF Inv, TypeOK
  <1>3. PlaceInv'
    BY <1>1, Distinct DEF Inv, PlaceInv, Held, Teardown, ScenarioOf, Of, Actors, TypeOK
  <1>4. PortInv'
    BY <1>1, Distinct DEF Inv, PortInv, PortsApart, CommandOf, TypeOK, PlaceInv, Actors
  <1>5. OwnInv'
    BY <1>1, Distinct DEF Inv, OwnInv, Teardown, TypeOK, PlaceInv, Held, Actors
  <1>6. StaleInv'
    BY <1>1, Distinct DEF Inv, StaleInv, Valid, Loads, TypeOK, PlaceInv, Held, Teardown,
       Actors
  <1>7. RecordInv'
    BY <1>1, Distinct DEF Inv, RecordInv, Swept, IsDown, NoVolume, NoBridge, Excused, Noted,
       TypeOK, PlaceInv, OwnInv, PastInv, Held, Teardown, Actors
  <1>8. CopyInv'
    BY <1>1, Distinct DEF Inv, CopyInv, Swept, IsDown, NoVolume, NoBridge, Excused, Noted,
       TypeOK, PlaceInv, OwnInv, PastInv, Held, Teardown, Actors
  <1>9. PastInv'
    BY <1>1, Distinct, ZenonT(40) DEF Inv, PastInv, IsDown, NoVolume, NoBridge, Excused,
       Noted, TypeOK, PlaceInv, OwnInv, Held, Teardown, Actors
  <1>10. CleanInv'
    BY <1>1, Distinct DEF Inv, CleanInv, Reports, Noted, TypeOK, PlaceInv, OwnInv, Held,
       Teardown, Actors
  <1> QED
    BY <1>2, <1>3, <1>4, <1>5, <1>6, <1>7, <1>8, <1>9, <1>10 DEF Inv

LEMMA DeployRetryKeeps ==
    ASSUME Inv, NEW w \in Workers, DeployRetry(w)
    PROVE  Inv'
  <1>1. /\ pc[w] = "deploy"
        /\ retried' = [retried EXCEPT ![w] = TRUE]
        /\ \E p \in Ports : AllocatePorts(w, p)
        /\ UNCHANGED <<job, pc, run, err, todo, keep, lock, made, manifests, copy, containers,
                       volumes, bridges, inflight, stale, notes>>
    BY DEF DeployRetry, Fault, docker, files, history
  <1>2. TypeOK'
    <2>1. retried' \in [Workers -> BOOLEAN]
      BY <1>1, Distinct DEF Inv, TypeOK, Actors, AllocatePorts, CommandOf
    <2>2. port' \in [Workers -> Ports \cup {NoPort}]
      BY <1>1, Distinct DEF Inv, TypeOK, Actors, AllocatePorts, CommandOf
    <2>3. leased' \in [Commands -> SUBSET Ports]
      BY <1>1, Distinct DEF Inv, TypeOK, Actors, PlaceInv, CommandOf, AllocatePorts
    <2>4. faults' \in 0 .. MaxFaults
      BY <1>1, Distinct DEF Inv, TypeOK, Actors, Fault, AllocatePorts, CommandOf,
         DeployRetry, docker, files, history
    <2> QED
      BY <1>1, <2>1, <2>2, <2>3, <2>4 DEF Inv, TypeOK
  <1>3. PlaceInv'
    BY <1>1, Distinct DEF Inv, PlaceInv, Held, Teardown, ScenarioOf, Of, Actors, TypeOK
  <1>4. PortInv'
    BY <1>1, Distinct DEF Inv, PortInv, PortsApart, CommandOf, TypeOK, PlaceInv, Actors,
       AllocatePorts
  <1>5. OwnInv'
    BY <1>1, Distinct DEF Inv, OwnInv, Teardown, TypeOK, PlaceInv, Held, Actors
  <1>6. StaleInv'
    BY <1>1, Distinct DEF Inv, StaleInv, Valid, Loads, TypeOK, PlaceInv, Held, Teardown,
       Actors
  <1>7. RecordInv'
    BY <1>1, Distinct DEF Inv, RecordInv, Swept, IsDown, NoVolume, NoBridge, Excused, Noted,
       TypeOK, PlaceInv, OwnInv, PastInv, Held, Teardown, Actors
  <1>8. CopyInv'
    BY <1>1, Distinct DEF Inv, CopyInv, Swept, IsDown, NoVolume, NoBridge, Excused, Noted,
       TypeOK, PlaceInv, OwnInv, PastInv, Held, Teardown, Actors
  <1>9. PastInv'
    BY <1>1, Distinct DEF Inv, PastInv, IsDown, NoVolume, NoBridge, Excused, Noted, TypeOK,
       PlaceInv, OwnInv, Held, Teardown, Actors
  <1>10. CleanInv'
    BY <1>1, Distinct DEF Inv, CleanInv, Reports, Noted, TypeOK, PlaceInv, OwnInv, Held,
       Teardown, Actors
  <1> QED
    BY <1>2, <1>3, <1>4, <1>5, <1>6, <1>7, <1>8, <1>9, <1>10 DEF Inv

LEMMA CutKeeps ==
    ASSUME Inv, NEW w \in Workers, Cut(w)
    PROVE  Inv'
  <1>1. /\ pc[w] \in {"deploy", "steps"}
        /\ inflight' = inflight \cup {run[w]}
        /\ \E next \in {"unlock", "down"} : pc' = [pc EXCEPT ![w] = next]
        /\ UNCHANGED <<job, run, err, todo, keep, retried, port, leased, lock, made,
                       manifests, copy, containers, volumes, bridges, stale, notes>>
    BY DEF Cut, GoTo, Fault, files, command, history, Finish
  <1>2. TypeOK'
    <2>1. inflight' \in SUBSET Runs
      BY <1>1, Distinct DEF Inv, TypeOK, Actors, PlaceInv, Held
    <2>2. pc' \in [Actors -> Phases]
      BY <1>1, Distinct DEF Inv, TypeOK, Actors, Phases, Teardown
    <2>3. faults' \in 0 .. MaxFaults
      BY <1>1, Distinct DEF Inv, TypeOK, Actors, Fault, Cut, files, command, history
    <2> QED
      BY <1>1, <2>1, <2>2, <2>3 DEF Inv, TypeOK
  <1>3. PlaceInv'
    BY <1>1, Distinct DEF Inv, PlaceInv, Held, Teardown, ScenarioOf, Of, Actors, TypeOK
  <1>4. PortInv'
    BY <1>1, Distinct DEF Inv, PortInv, PortsApart, CommandOf, TypeOK, PlaceInv, Actors
  <1>5. OwnInv'
    BY <1>1, Distinct DEF Inv, OwnInv, Teardown, TypeOK, PlaceInv, Held, Actors
  <1>6. StaleInv'
    BY <1>1, Distinct DEF Inv, StaleInv, Valid, Loads, TypeOK, PlaceInv, Held, Teardown,
       Actors
  <1>7. RecordInv'
    <2>1. run[w] \in manifests
      BY <1>1 DEF Inv, OwnInv
    <2>2. \A r \in Runs : r # run[w] /\ Swept(r) => Swept(r)'
      BY <1>1 DEF Swept, IsDown, NoVolume, NoBridge, Excused, Noted
    <2> QED
      BY <1>1, <2>1, <2>2 DEF Inv, RecordInv
  <1>8. CopyInv'
    BY <1>1, Distinct DEF Inv, CopyInv, Swept, IsDown, NoVolume, NoBridge, Excused, Noted,
       TypeOK, PlaceInv, OwnInv, PastInv, Held, Teardown, Actors
  <1>9. PastInv'
    <2>1. \A a \in Actors : pc[a] \in {"volumes", "bridge", "rmcopy", "delete"} =>
            run[a] \in Runs /\ run[a] # run[w]
      BY <1>1, Alone DEF Inv, PlaceInv, Held, Teardown, Actors
    <2>2. \A r \in Runs : r # run[w] =>
            /\ IsDown(r) => IsDown(r)'
            /\ NoVolume(r) => NoVolume(r)'
            /\ NoBridge(r) => NoBridge(r)'
      BY <1>1 DEF IsDown, NoVolume, NoBridge, Excused, Noted
    <2>3. \A a \in Actors : pc'[a] \in {"volumes", "bridge", "rmcopy", "delete"} => pc'[a] = pc[a]
      BY <1>1 DEF Inv, TypeOK
    <2> QED
      BY <1>1, <2>1, <2>2, <2>3 DEF Inv, PastInv
  <1>10. CleanInv'
    BY <1>1, Distinct DEF Inv, CleanInv, Reports, Noted, TypeOK, PlaceInv, OwnInv, Held,
       Teardown, Actors
  <1> QED
    BY <1>2, <1>3, <1>4, <1>5, <1>6, <1>7, <1>8, <1>9, <1>10 DEF Inv

LEMMA StepsKeeps ==
    ASSUME Inv, NEW w \in Workers, Steps(w)
    PROVE  Inv'
  <1>1. /\ pc[w] = "steps"
        /\ \E next \in {"unlock", "down"} : pc' = [pc EXCEPT ![w] = next]
        /\ UNCHANGED <<job, run, err, todo, keep, retried, port, leased, lock, made,
                       manifests, copy, containers, volumes, bridges, inflight, faults, stale,
                       notes>>
    BY DEF Steps, GoTo, docker, files, command, history, Finish
  <1>2. TypeOK'
    <2>1. pc' \in [Actors -> Phases]
      BY <1>1, Distinct DEF Inv, TypeOK, Actors, Phases, Teardown
    <2> QED
      BY <1>1, <2>1 DEF Inv, TypeOK
  <1>3. PlaceInv'
    BY <1>1, Distinct DEF Inv, PlaceInv, Held, Teardown, ScenarioOf, Of, Actors, TypeOK
  <1>4. PortInv'
    BY <1>1, Distinct DEF Inv, PortInv, PortsApart, CommandOf, TypeOK, PlaceInv, Actors
  <1>5. OwnInv'
    BY <1>1, Distinct DEF Inv, OwnInv, Teardown, TypeOK, PlaceInv, Held, Actors
  <1>6. StaleInv'
    BY <1>1, Distinct DEF Inv, StaleInv, Valid, Loads, TypeOK, PlaceInv, Held, Teardown,
       Actors
  <1>7. RecordInv'
    BY <1>1, Distinct DEF Inv, RecordInv, Swept, IsDown, NoVolume, NoBridge, Excused, Noted,
       TypeOK, PlaceInv, OwnInv, PastInv, Held, Teardown, Actors
  <1>8. CopyInv'
    BY <1>1, Distinct DEF Inv, CopyInv, Swept, IsDown, NoVolume, NoBridge, Excused, Noted,
       TypeOK, PlaceInv, OwnInv, PastInv, Held, Teardown, Actors
  <1>9. PastInv'
    BY <1>1, Distinct, ZenonT(40) DEF Inv, PastInv, IsDown, NoVolume, NoBridge, Excused,
       Noted, TypeOK, PlaceInv, OwnInv, Held, Teardown, Actors
  <1>10. CleanInv'
    BY <1>1, Distinct DEF Inv, CleanInv, Reports, Noted, TypeOK, PlaceInv, OwnInv, Held,
       Teardown, Actors
  <1> QED
    BY <1>2, <1>3, <1>4, <1>5, <1>6, <1>7, <1>8, <1>9, <1>10 DEF Inv

LEMMA StragglerKeeps ==
    ASSUME Inv, NEW r \in Runs, Straggler(r)
    PROVE  Inv'
  <1>1. /\ r \in inflight
        /\ inflight' = inflight \ {r}
        /\ containers' \in {containers, containers \cup {r}}
        /\ volumes' \in {volumes, volumes \cup {r}}
        /\ UNCHANGED <<job, pc, run, err, todo, keep, retried, port, leased, lock, made,
                       manifests, copy, bridges, faults, stale, notes>>
    BY DEF Straggler, files, command, history, Up
  <1>2. TypeOK'
    <2>1. inflight' \in SUBSET Runs
      BY <1>1, Distinct DEF Inv, TypeOK, Actors, PlaceInv, Held
    <2>2. containers' \in SUBSET (Runs \cup {Dev})
      BY <1>1, Distinct DEF Inv, TypeOK, Actors, PlaceInv, Held
    <2>3. volumes' \in SUBSET Runs
      BY <1>1, Distinct DEF Inv, TypeOK, Actors, PlaceInv, Held
    <2> QED
      BY <1>1, <2>1, <2>2, <2>3 DEF Inv, TypeOK
  <1>3. PlaceInv'
    BY <1>1, Distinct DEF Inv, PlaceInv, Held, Teardown, ScenarioOf, Of, Actors, TypeOK
  <1>4. PortInv'
    BY <1>1, Distinct DEF Inv, PortInv, PortsApart, CommandOf, TypeOK, PlaceInv, Actors
  <1>5. OwnInv'
    BY <1>1, Distinct DEF Inv, OwnInv, Teardown, TypeOK, PlaceInv, Held, Actors
  <1>6. StaleInv'
    BY <1>1, Distinct DEF Inv, StaleInv, Valid, Loads, TypeOK, PlaceInv, Held, Teardown,
       Actors
  <1>7. RecordInv'
    <2>1. \A q \in Runs :
            /\ IsDown(q) => IsDown(q)'
            /\ IsDown(q) /\ NoVolume(q) => NoVolume(q)'
            /\ NoBridge(q) => NoBridge(q)'
      BY <1>1 DEF IsDown, NoVolume, NoBridge, Excused, Noted
    <2> QED
      BY <1>1, <2>1 DEF Inv, TypeOK, RecordInv, Swept
  <1>8. CopyInv'
    <2>1. \A q \in Runs :
            /\ IsDown(q) => IsDown(q)'
            /\ IsDown(q) /\ NoVolume(q) => NoVolume(q)'
            /\ NoBridge(q) => NoBridge(q)'
      BY <1>1 DEF IsDown, NoVolume, NoBridge, Excused, Noted
    <2> QED
      BY <1>1, <2>1 DEF Inv, TypeOK, CopyInv, Swept, Noted
  <1>9. PastInv'
    <2>1. \A q \in Runs :
            /\ IsDown(q) => IsDown(q)'
            /\ IsDown(q) /\ NoVolume(q) => NoVolume(q)'
            /\ NoBridge(q) => NoBridge(q)'
      BY <1>1 DEF IsDown, NoVolume, NoBridge, Excused, Noted
    <2>2. \A a \in Actors : pc[a] \in {"volumes", "bridge", "rmcopy", "delete"} => run[a] \in Runs
      BY DEF Inv, PlaceInv, Held, Teardown
    <2> QED
      BY <1>1, <2>1, <2>2 DEF Inv, TypeOK, PastInv
  <1>10. CleanInv'
    BY <1>1, Distinct DEF Inv, CleanInv, Reports, Noted, TypeOK, PlaceInv, OwnInv, Held,
       Teardown, Actors
  <1> QED
    BY <1>2, <1>3, <1>4, <1>5, <1>6, <1>7, <1>8, <1>9, <1>10 DEF Inv

LEMMA ComposeDownKeeps ==
    ASSUME Inv, NEW a \in Actors, ComposeDown(a)
    PROVE  Inv'
  <1>1. /\ pc[a] = "down"
        /\ pc' = [pc EXCEPT ![a] = "reap"]
        /\ \/ /\ containers' = IF Loads(Of(run[a])) THEN containers \ {Identity(Of(run[a]))} ELSE containers
              /\ UNCHANGED <<err, notes>>
           \/ StepFails(a) /\ UNCHANGED containers
        /\ UNCHANGED <<job, run, todo, keep, retried, port, leased, lock, made, manifests,
                       copy, volumes, bridges, inflight, stale>>
    BY DEF ComposeDown, GoTo, files, command, cleaner
  <1>2. TypeOK'
    <2>1. pc' \in [Actors -> Phases]
      BY <1>1, Distinct DEF Inv, TypeOK, Actors, Phases, Teardown, StepFails, Fault, Note
    <2>2. containers' \in SUBSET (Runs \cup {Dev})
      BY <1>1, Distinct DEF Inv, TypeOK, Actors, PlaceInv, Held, StepFails, Fault, Note
    <2>3. err' \in [Actors -> BOOLEAN]
      BY <1>1, Distinct DEF Inv, TypeOK, Actors, StepFails, Fault, Note
    <2>4. faults' \in 0 .. MaxFaults
      BY <1>1, Distinct DEF Inv, TypeOK, Actors, Fault, StepFails, Note, ComposeDown, GoTo,
         files, command, cleaner
    <2>5. notes' \in SUBSET (Runs \X Kinds)
      BY <1>1, Distinct DEF Inv, TypeOK, Actors, PlaceInv, Held, Teardown, Kinds, StepFails,
         Fault, Note
    <2> QED
      BY <1>1, <2>1, <2>2, <2>3, <2>4, <2>5 DEF Inv, TypeOK
  <1>3. PlaceInv'
    BY <1>1, Distinct DEF Inv, PlaceInv, Held, Teardown, ScenarioOf, Of, Actors, TypeOK,
       StepFails, Fault, Note
  <1>4. PortInv'
    BY <1>1, Distinct DEF Inv, PortInv, PortsApart, CommandOf, TypeOK, PlaceInv, Actors,
       StepFails, Fault, Note
  <1>5. OwnInv'
    BY <1>1, Distinct DEF Inv, OwnInv, Teardown, TypeOK, PlaceInv, Held, Actors, StepFails,
       Fault, Note
  <1>6. StaleInv'
    BY <1>1, Distinct DEF Inv, StaleInv, Valid, Loads, TypeOK, PlaceInv, Held, Teardown,
       Actors, StepFails, Fault, Note
  <1>7. RecordInv'
    BY <1>1, Distinct DEF Inv, RecordInv, Swept, IsDown, NoVolume, NoBridge, Excused, Noted,
       TypeOK, PlaceInv, OwnInv, PastInv, Held, Teardown, Actors, StepFails, Fault, Note
  <1>8. CopyInv'
    BY <1>1, Distinct DEF Inv, CopyInv, Swept, IsDown, NoVolume, NoBridge, Excused, Noted,
       TypeOK, PlaceInv, OwnInv, PastInv, Held, Teardown, Actors, StepFails, Fault, Note
  <1>9. PastInv'
    BY <1>1, Distinct DEF Inv, PastInv, IsDown, NoVolume, NoBridge, Excused, Noted, TypeOK,
       PlaceInv, OwnInv, Held, Teardown, Actors, StepFails, Fault, Note
  <1>10. CleanInv'
    BY <1>1, Distinct DEF Inv, CleanInv, Reports, Noted, TypeOK, PlaceInv, OwnInv, Held,
       Teardown, Actors, StepFails, Fault, Note
  <1> QED
    BY <1>2, <1>3, <1>4, <1>5, <1>6, <1>7, <1>8, <1>9, <1>10 DEF Inv

LEMMA ReapContainersKeeps ==
    ASSUME Inv, NEW a \in Actors, ReapContainers(a)
    PROVE  Inv'
  <1>1. /\ pc[a] = "reap"
        /\ pc' = [pc EXCEPT ![a] = "volumes"]
        /\ \/ /\ containers' = containers \ {run[a]}
              /\ notes' = IF run[a] \in inflight THEN notes \cup {<<run[a], "inflight">>} ELSE notes
              /\ UNCHANGED err
           \/ StepFails(a) /\ UNCHANGED containers
        /\ UNCHANGED <<job, run, todo, keep, retried, port, leased, lock, made, manifests,
                       copy, volumes, bridges, inflight, stale>>
    BY DEF ReapContainers, GoTo, Note, files, command, cleaner
  <1>2. TypeOK'
    <2>1. pc' \in [Actors -> Phases]
      BY <1>1, Distinct DEF Inv, TypeOK, Actors, Phases, Teardown, StepFails, Fault, Note
    <2>2. containers' \in SUBSET (Runs \cup {Dev})
      BY <1>1, Distinct DEF Inv, TypeOK, Actors, PlaceInv, Held, StepFails, Fault, Note
    <2>3. err' \in [Actors -> BOOLEAN]
      BY <1>1, Distinct DEF Inv, TypeOK, Actors, StepFails, Fault, Note
    <2>4. faults' \in 0 .. MaxFaults
      BY <1>1, Distinct DEF Inv, TypeOK, Actors, Fault, StepFails, Note, ReapContainers,
         GoTo, files, command, cleaner
    <2>5. notes' \in SUBSET (Runs \X Kinds)
      BY <1>1, Distinct DEF Inv, TypeOK, Actors, PlaceInv, Held, Teardown, Kinds, StepFails,
         Fault, Note
    <2> QED
      BY <1>1, <2>1, <2>2, <2>3, <2>4, <2>5 DEF Inv, TypeOK
  <1>3. PlaceInv'
    BY <1>1, Distinct DEF Inv, PlaceInv, Held, Teardown, ScenarioOf, Of, Actors, TypeOK,
       StepFails, Fault, Note
  <1>4. PortInv'
    BY <1>1, Distinct DEF Inv, PortInv, PortsApart, CommandOf, TypeOK, PlaceInv, Actors,
       StepFails, Fault, Note
  <1>5. OwnInv'
    BY <1>1, Distinct DEF Inv, OwnInv, Teardown, TypeOK, PlaceInv, Held, Actors, StepFails,
       Fault, Note
  <1>6. StaleInv'
    BY <1>1, Distinct DEF Inv, StaleInv, Valid, Loads, TypeOK, PlaceInv, Held, Teardown,
       Actors, StepFails, Fault, Note
  <1>7. RecordInv'
    BY <1>1, Distinct DEF Inv, RecordInv, Swept, IsDown, NoVolume, NoBridge, Excused, Noted,
       TypeOK, PlaceInv, OwnInv, PastInv, Held, Teardown, Actors, StepFails, Fault, Note
  <1>8. CopyInv'
    BY <1>1, Distinct DEF Inv, CopyInv, Swept, IsDown, NoVolume, NoBridge, Excused, Noted,
       TypeOK, PlaceInv, OwnInv, PastInv, Held, Teardown, Actors, StepFails, Fault, Note
  <1>9. PastInv'
    BY <1>1, Distinct DEF Inv, PastInv, IsDown, NoVolume, NoBridge, Excused, Noted, TypeOK,
       PlaceInv, OwnInv, Held, Teardown, Actors, StepFails, Fault, Note
  <1>10. CleanInv'
    BY <1>1, Distinct DEF Inv, CleanInv, Reports, Noted, TypeOK, PlaceInv, OwnInv, Held,
       Teardown, Actors, StepFails, Fault, Note
  <1> QED
    BY <1>2, <1>3, <1>4, <1>5, <1>6, <1>7, <1>8, <1>9, <1>10 DEF Inv

LEMMA RemoveVolumesKeeps ==
    ASSUME Inv, NEW a \in Actors, RemoveVolumes(a)
    PROVE  Inv'
  <1>1. /\ pc[a] = "volumes"
        /\ pc' = [pc EXCEPT ![a] = "bridge"]
        /\ \/ volumes' = volumes \ {run[a]} /\ UNCHANGED <<err, notes>>
           \/ notes' = notes \cup {<<run[a], "volume">>} /\ UNCHANGED <<err, volumes>>
           \/ StepFails(a) /\ UNCHANGED volumes
        /\ UNCHANGED <<job, run, todo, keep, retried, port, leased, lock, made, manifests,
                       copy, containers, bridges, inflight, stale>>
    BY DEF RemoveVolumes, GoTo, Note, Fault, files, command, cleaner
  <1>2. TypeOK'
    <2>1. pc' \in [Actors -> Phases]
      BY <1>1, Distinct DEF Inv, TypeOK, Actors, Phases, Teardown, StepFails, Fault, Note
    <2>2. volumes' \in SUBSET Runs
      BY <1>1, Distinct DEF Inv, TypeOK, Actors, PlaceInv, Held, StepFails, Fault, Note
    <2>3. err' \in [Actors -> BOOLEAN]
      BY <1>1, Distinct DEF Inv, TypeOK, Actors, StepFails, Fault, Note
    <2>4. faults' \in 0 .. MaxFaults
      BY <1>1, Distinct DEF Inv, TypeOK, Actors, Fault, StepFails, Note, RemoveVolumes,
         GoTo, files, command, cleaner
    <2>5. notes' \in SUBSET (Runs \X Kinds)
      BY <1>1, Distinct DEF Inv, TypeOK, Actors, PlaceInv, Held, Teardown, Kinds, StepFails,
         Fault, Note
    <2> QED
      BY <1>1, <2>1, <2>2, <2>3, <2>4, <2>5 DEF Inv, TypeOK
  <1>3. PlaceInv'
    BY <1>1, Distinct DEF Inv, PlaceInv, Held, Teardown, ScenarioOf, Of, Actors, TypeOK,
       StepFails, Fault, Note
  <1>4. PortInv'
    BY <1>1, Distinct DEF Inv, PortInv, PortsApart, CommandOf, TypeOK, PlaceInv, Actors,
       StepFails, Fault, Note
  <1>5. OwnInv'
    BY <1>1, Distinct DEF Inv, OwnInv, Teardown, TypeOK, PlaceInv, Held, Actors, StepFails,
       Fault, Note
  <1>6. StaleInv'
    BY <1>1, Distinct DEF Inv, StaleInv, Valid, Loads, TypeOK, PlaceInv, Held, Teardown,
       Actors, StepFails, Fault, Note
  <1>7. RecordInv'
    BY <1>1, Distinct DEF Inv, RecordInv, Swept, IsDown, NoVolume, NoBridge, Excused, Noted,
       TypeOK, PlaceInv, OwnInv, PastInv, Held, Teardown, Actors, StepFails, Fault, Note
  <1>8. CopyInv'
    BY <1>1, Distinct DEF Inv, CopyInv, Swept, IsDown, NoVolume, NoBridge, Excused, Noted,
       TypeOK, PlaceInv, OwnInv, PastInv, Held, Teardown, Actors, StepFails, Fault, Note
  <1>9. PastInv'
    BY <1>1, Distinct DEF Inv, PastInv, IsDown, NoVolume, NoBridge, Excused, Noted, TypeOK,
       PlaceInv, OwnInv, Held, Teardown, Actors, StepFails, Fault, Note
  <1>10. CleanInv'
    BY <1>1, Distinct DEF Inv, CleanInv, Reports, Noted, TypeOK, PlaceInv, OwnInv, Held,
       Teardown, Actors, StepFails, Fault, Note
  <1> QED
    BY <1>2, <1>3, <1>4, <1>5, <1>6, <1>7, <1>8, <1>9, <1>10 DEF Inv

LEMMA StopBridgeKeeps ==
    ASSUME Inv, NEW a \in Actors, StopBridge(a)
    PROVE  Inv'
  <1>1. /\ pc[a] = "bridge"
        /\ pc' = [pc EXCEPT ![a] = "rmcopy"]
        /\ \/ bridges' = bridges \ {copy[Of(run[a])]} /\ UNCHANGED <<err, notes>>
           \/ StepFails(a) /\ UNCHANGED bridges
        /\ UNCHANGED <<job, run, todo, keep, retried, port, leased, lock, made, manifests,
                       copy, containers, volumes, inflight, stale>>
    BY DEF StopBridge, GoTo, files, command, cleaner
  <1>2. TypeOK'
    <2>1. pc' \in [Actors -> Phases]
      BY <1>1, Distinct DEF Inv, TypeOK, Actors, Phases, Teardown, StepFails, Fault, Note
    <2>2. bridges' \in SUBSET Runs
      BY <1>1, Distinct DEF Inv, TypeOK, Actors, PlaceInv, Held, StepFails, Fault, Note
    <2>3. err' \in [Actors -> BOOLEAN]
      BY <1>1, Distinct DEF Inv, TypeOK, Actors, StepFails, Fault, Note
    <2>4. faults' \in 0 .. MaxFaults
      BY <1>1, Distinct DEF Inv, TypeOK, Actors, Fault, StepFails, Note, StopBridge, GoTo,
         files, command, cleaner
    <2>5. notes' \in SUBSET (Runs \X Kinds)
      BY <1>1, Distinct DEF Inv, TypeOK, Actors, PlaceInv, Held, Teardown, Kinds, StepFails,
         Fault, Note
    <2> QED
      BY <1>1, <2>1, <2>2, <2>3, <2>4, <2>5 DEF Inv, TypeOK
  <1>3. PlaceInv'
    BY <1>1, Distinct DEF Inv, PlaceInv, Held, Teardown, ScenarioOf, Of, Actors, TypeOK,
       StepFails, Fault, Note
  <1>4. PortInv'
    BY <1>1, Distinct DEF Inv, PortInv, PortsApart, CommandOf, TypeOK, PlaceInv, Actors,
       StepFails, Fault, Note
  <1>5. OwnInv'
    BY <1>1, Distinct DEF Inv, OwnInv, Teardown, TypeOK, PlaceInv, Held, Actors, StepFails,
       Fault, Note
  <1>6. StaleInv'
    BY <1>1, Distinct DEF Inv, StaleInv, Valid, Loads, TypeOK, PlaceInv, Held, Teardown,
       Actors, StepFails, Fault, Note
  <1>7. RecordInv'
    BY <1>1, Distinct DEF Inv, RecordInv, Swept, IsDown, NoVolume, NoBridge, Excused, Noted,
       TypeOK, PlaceInv, OwnInv, PastInv, Held, Teardown, Actors, StepFails, Fault, Note
  <1>8. CopyInv'
    BY <1>1, Distinct DEF Inv, CopyInv, Swept, IsDown, NoVolume, NoBridge, Excused, Noted,
       TypeOK, PlaceInv, OwnInv, PastInv, Held, Teardown, Actors, StepFails, Fault, Note
  <1>9. PastInv'
    <2>1. run[a] \in Runs /\ a \in Actors
      BY <1>1 DEF Inv, PlaceInv, Held, Teardown
    <2>2. copy[Of(run[a])] = run[a] \/ NoBridge(run[a])
      BY <2>1 DEF Inv, CopyInv, RecordInv, Swept, NoBridge
    <2>3. NoBridge(run[a])'
      BY <1>1, <2>1, <2>2 DEF NoBridge, Noted, StepFails, Note
    <2>4. \A r \in Runs :
            /\ IsDown(r) => IsDown(r)'
            /\ NoVolume(r) => NoVolume(r)'
            /\ NoBridge(r) => NoBridge(r)'
      BY <1>1 DEF IsDown, NoVolume, NoBridge, Excused, Noted, StepFails, Note
    <2>5. \A b \in Actors :
            IF b = a THEN pc'[b] = "rmcopy" /\ pc[b] = "bridge" ELSE pc'[b] = pc[b]
      BY <1>1 DEF Inv, TypeOK
    <2>6. \A b \in Actors : pc[b] \in {"volumes", "bridge", "rmcopy", "delete"} => run[b] \in Runs
      BY DEF Inv, PlaceInv, Held, Teardown
    <2> QED
      BY <1>1, <2>3, <2>4, <2>5, <2>6 DEF Inv, PastInv
  <1>10. CleanInv'
    BY <1>1, Distinct DEF Inv, CleanInv, Reports, Noted, TypeOK, PlaceInv, OwnInv, Held,
       Teardown, Actors, StepFails, Fault, Note
  <1> QED
    BY <1>2, <1>3, <1>4, <1>5, <1>6, <1>7, <1>8, <1>9, <1>10 DEF Inv

LEMMA RemoveCopyKeeps ==
    ASSUME Inv, NEW a \in Actors, RemoveCopy(a)
    PROVE  Inv'
  <1>1. /\ pc[a] = "rmcopy"
        /\ pc' = [pc EXCEPT ![a] = "delete"]
        /\ \/ /\ copy' = [copy EXCEPT ![Of(run[a])] = None]
              /\ notes' = notes \cup Strangers(a)
              /\ UNCHANGED err
           \/ /\ \E left \in Remains(Of(run[a])) : copy' = [copy EXCEPT ![Of(run[a])] = left]
              /\ err' = [err EXCEPT ![a] = TRUE]
              /\ notes' = notes \cup {<<run[a], "failed">>} \cup NotesOfCut(a)
        /\ UNCHANGED <<job, run, todo, keep, retried, port, leased, lock, made, manifests,
                       containers, volumes, bridges, inflight, stale>>
    BY DEF RemoveCopy, GoTo, Fault, docker, command, cleaner
  <1>2. TypeOK'
    <2>1. pc' \in [Actors -> Phases]
      BY <1>1, Distinct DEF Inv, TypeOK, Actors, Phases, Teardown
    <2>2. copy' \in [Scenarios -> Runs \cup {None, Broken, Bare}]
      BY <1>1, Distinct DEF Inv, TypeOK, Actors, PlaceInv, Held, Teardown, ScenarioOf,
         Remains
    <2>3. err' \in [Actors -> BOOLEAN]
      BY <1>1, Distinct DEF Inv, TypeOK, Actors
    <2>4. faults' \in 0 .. MaxFaults
      BY <1>1, Distinct DEF Inv, TypeOK, Actors, Fault, RemoveCopy, GoTo, docker, command,
         cleaner
    <2>5. notes' \in SUBSET (Runs \X Kinds)
      BY <1>1, Distinct DEF Inv, TypeOK, Actors, PlaceInv, Held, Teardown, Kinds, Strangers,
         NotesOfCut
    <2> QED
      BY <1>1, <2>1, <2>2, <2>3, <2>4, <2>5 DEF Inv, TypeOK
  <1>3. PlaceInv'
    BY <1>1, Distinct DEF Inv, PlaceInv, Held, Teardown, ScenarioOf, Of, Actors, TypeOK
  <1>4. PortInv'
    BY <1>1, Distinct DEF Inv, PortInv, PortsApart, CommandOf, TypeOK, PlaceInv, Actors
  <1>5. OwnInv'
    BY <1>1, Distinct DEF Inv, OwnInv, Teardown, TypeOK, PlaceInv, Held, Actors
  <1>6. StaleInv'
    BY <1>1, Distinct DEF Inv, StaleInv, Valid, Loads, TypeOK, PlaceInv, Held, Teardown,
       Actors
  <1>7. RecordInv'
    BY <1>1, Distinct DEF Inv, RecordInv, Swept, IsDown, NoVolume, NoBridge, Excused, Noted,
       TypeOK, PlaceInv, OwnInv, PastInv, Held, Teardown, Actors
  <1>8. CopyInv'
    <2>1. run[a] \in Runs /\ Of(run[a]) \in Scenarios /\ Swept(run[a])
      BY <1>1, Distinct DEF Inv, PlaceInv, PastInv, Held, Teardown, Swept
    <2>2. \A r \in Runs : Swept(r) => Swept(r)'
      BY <1>1 DEF Swept, IsDown, NoVolume, NoBridge, Excused, Noted
    <2>3. ASSUME NEW r \in manifests, Of(r) = Of(run[a])
          PROVE  /\ copy'[Of(r)] = r \/ copy'[Of(r)] \in {None, Broken, Bare}
                 /\ copy'[Of(r)] = Bare =>
                       copy[Of(r)] = Bare \/ <<run[a], "cut">> \in notes'
      BY <1>1, <2>1, <2>3, Distinct DEF Inv, TypeOK, CopyInv, Remains, NotesOfCut
    <2>4. ASSUME NEW r \in manifests, Of(r) = Of(run[a]), r # run[a], copy[Of(r)] = r
          PROVE  <<r, "stale">> \in notes'
      BY <1>1, <2>1, <2>4 DEF Inv, TypeOK, Strangers, NotesOfCut
    <2>5. ASSUME NEW r \in manifests
          PROVE  \/ copy'[Of(r)] = r
                 \/ /\ copy'[Of(r)] \in {None, Broken, Bare}
                    /\ copy'[Of(r)] = Bare => Noted(r, "cut")' \/ Noted(r, "stale")'
                    /\ Noted(r, "stale")' \/ Swept(r)'
      <3>1. r \in Runs /\ notes \subseteq notes'
        BY <1>1 DEF Inv, TypeOK
      <3>2. CASE Of(r) # Of(run[a])
        <4>1. copy'[Of(r)] = copy[Of(r)]
          BY <1>1, <3>1, <3>2, Distinct DEF Inv, TypeOK
        <4> QED
          BY <2>2, <3>1, <4>1 DEF Inv, CopyInv, Noted
      <3>3. CASE r = run[a]
        BY <2>1, <2>2, <2>3, <3>1, <3>3 DEF Inv, CopyInv, Noted
      <3>4. CASE Of(r) = Of(run[a]) /\ r # run[a] /\ copy[Of(r)] = r
        BY <2>3, <2>4, <3>4 DEF Noted
      <3>5. CASE Of(r) = Of(run[a]) /\ r # run[a] /\ copy[Of(r)] # r
        <4>1. copy[Of(r)] \in {None, Broken, Bare}
          BY <3>5 DEF Inv, CopyInv
        <4>2. copy'[Of(r)] \in {None, Broken, copy[Of(r)]}
          BY <1>1, <2>1, <3>5, <4>1, Distinct DEF Inv, TypeOK, Remains
        <4> QED
          BY <2>2, <3>1, <3>5, <4>1, <4>2, Distinct DEF Inv, CopyInv, Noted
      <3> QED
        BY <3>2, <3>3, <3>4, <3>5
    <2> QED
      BY <1>1, <2>5 DEF Inv, CopyInv
  <1>9. PastInv'
    BY <1>1, Distinct DEF Inv, PastInv, Swept, IsDown, NoVolume, NoBridge, Excused, Noted,
       TypeOK, PlaceInv, OwnInv, Held, Teardown, Actors
  <1>10. CleanInv'
    BY <1>1, Distinct DEF Inv, CleanInv, Reports, Noted, TypeOK, PlaceInv, OwnInv, Held,
       Teardown, Actors
  <1> QED
    BY <1>2, <1>3, <1>4, <1>5, <1>6, <1>7, <1>8, <1>9, <1>10 DEF Inv

LEMMA DeleteManifestKeeps ==
    ASSUME Inv, NEW a \in Actors, DeleteManifest(a)
    PROVE  Inv'
  <1>1. /\ pc[a] = "delete"
        /\ pc' = [pc EXCEPT ![a] = "unlock"]
        /\ \/ manifests' = manifests \ {run[a]} /\ UNCHANGED <<err, notes>>
           \/ StepFails(a) /\ UNCHANGED manifests
        /\ UNCHANGED <<job, run, todo, keep, retried, port, leased, lock, made, copy,
                       containers, volumes, bridges, inflight, stale>>
    BY DEF DeleteManifest, GoTo, docker, command, cleaner
  <1>2. TypeOK'
    <2>1. pc' \in [Actors -> Phases]
      BY <1>1, Distinct DEF Inv, TypeOK, Actors, Phases, Teardown, StepFails, Fault, Note
    <2>2. manifests' \in SUBSET Runs
      BY <1>1, Distinct DEF Inv, TypeOK, Actors, PlaceInv, Held, StepFails, Fault, Note
    <2>3. err' \in [Actors -> BOOLEAN]
      BY <1>1, Distinct DEF Inv, TypeOK, Actors, StepFails, Fault, Note
    <2>4. faults' \in 0 .. MaxFaults
      BY <1>1, Distinct DEF Inv, TypeOK, Actors, Fault, StepFails, Note, DeleteManifest,
         GoTo, docker, command, cleaner
    <2>5. notes' \in SUBSET (Runs \X Kinds)
      BY <1>1, Distinct DEF Inv, TypeOK, Actors, PlaceInv, Held, Teardown, Kinds, StepFails,
         Fault, Note
    <2> QED
      BY <1>1, <2>1, <2>2, <2>3, <2>4, <2>5 DEF Inv, TypeOK
  <1>3. PlaceInv'
    BY <1>1, Distinct DEF Inv, PlaceInv, Held, Teardown, ScenarioOf, Of, Actors, TypeOK,
       StepFails, Fault, Note
  <1>4. PortInv'
    BY <1>1, Distinct DEF Inv, PortInv, PortsApart, CommandOf, TypeOK, PlaceInv, Actors,
       StepFails, Fault, Note
  <1>5. OwnInv'
    BY <1>1, Distinct DEF Inv, OwnInv, Teardown, TypeOK, PlaceInv, Held, Actors, StepFails,
       Fault, Note
  <1>6. StaleInv'
    BY <1>1, Distinct DEF Inv, StaleInv, Valid, Loads, TypeOK, PlaceInv, Held, Teardown,
       Actors, StepFails, Fault, Note
  <1>7. RecordInv'
    <2>1. Swept(run[a])
      BY <1>1 DEF Inv, PastInv, Swept
    <2>2. \A r \in Runs : Swept(r) => Swept(r)'
      BY <1>1 DEF Swept, IsDown, NoVolume, NoBridge, Excused, Noted, StepFails, Note
    <2>3. \A r \in Runs \ manifests' : r \notin manifests \/ r = run[a]
      BY <1>1
    <2> QED
      BY <2>1, <2>2, <2>3 DEF Inv, RecordInv
  <1>8. CopyInv'
    BY <1>1, Distinct DEF Inv, CopyInv, Swept, IsDown, NoVolume, NoBridge, Excused, Noted,
       TypeOK, PlaceInv, OwnInv, PastInv, Held, Teardown, Actors, StepFails, Fault, Note
  <1>9. PastInv'
    BY <1>1, Distinct DEF Inv, PastInv, Swept, IsDown, NoVolume, NoBridge, Excused, Noted,
       TypeOK, PlaceInv, OwnInv, Held, Teardown, Actors, StepFails, Fault, Note
  <1>10. CleanInv'
    BY <1>1, Distinct DEF Inv, CleanInv, Reports, Noted, TypeOK, PlaceInv, OwnInv, Held,
       Teardown, Actors, StepFails, Fault, Note
  <1> QED
    BY <1>2, <1>3, <1>4, <1>5, <1>6, <1>7, <1>8, <1>9, <1>10 DEF Inv

LEMMA ListManifestsKeeps ==
    ASSUME Inv, NEW c \in Cleaners, NEW named \in SUBSET Scenarios, ListManifests(c, named)
    PROVE  Inv'
  <1>1. /\ pc[c] = "idle"
        /\ todo' = [todo EXCEPT ![c] = {r \in manifests : Of(r) \in named}]
        /\ pc' = [pc EXCEPT ![c] = "pick"]
        /\ UNCHANGED <<job, run, err, keep, retried, port, leased, lock, made, manifests,
                       copy, containers, volumes, bridges, inflight, faults, stale, notes>>
    BY DEF ListManifests, GoTo, docker, files, command, history
  <1>2. TypeOK'
    <2>1. todo' \in [Cleaners -> SUBSET Runs]
      BY <1>1, Distinct DEF Inv, TypeOK, Actors
    <2>2. pc' \in [Actors -> Phases]
      BY <1>1, Distinct DEF Inv, TypeOK, Actors, Phases, Teardown
    <2> QED
      BY <1>1, <2>1, <2>2 DEF Inv, TypeOK
  <1>3. PlaceInv'
    BY <1>1, Distinct DEF Inv, PlaceInv, Held, Teardown, ScenarioOf, Of, Actors, TypeOK
  <1>4. PortInv'
    BY <1>1, Distinct DEF Inv, PortInv, PortsApart, CommandOf, TypeOK, PlaceInv, Actors
  <1>5. OwnInv'
    BY <1>1, Distinct DEF Inv, OwnInv, Teardown, TypeOK, PlaceInv, Held, Actors
  <1>6. StaleInv'
    BY <1>1, Distinct DEF Inv, StaleInv, Valid, Loads, TypeOK, PlaceInv, Held, Teardown,
       Actors
  <1>7. RecordInv'
    BY <1>1, Distinct DEF Inv, RecordInv, Swept, IsDown, NoVolume, NoBridge, Excused, Noted,
       TypeOK, PlaceInv, OwnInv, PastInv, Held, Teardown, Actors
  <1>8. CopyInv'
    BY <1>1, Distinct DEF Inv, CopyInv, Swept, IsDown, NoVolume, NoBridge, Excused, Noted,
       TypeOK, PlaceInv, OwnInv, PastInv, Held, Teardown, Actors
  <1>9. PastInv'
    BY <1>1, Distinct DEF Inv, PastInv, IsDown, NoVolume, NoBridge, Excused, Noted, TypeOK,
       PlaceInv, OwnInv, Held, Teardown, Actors
  <1>10. CleanInv'
    BY <1>1, Distinct DEF Inv, CleanInv, Reports, Noted, TypeOK, PlaceInv, OwnInv, Held,
       Teardown, Actors
  <1> QED
    BY <1>2, <1>3, <1>4, <1>5, <1>6, <1>7, <1>8, <1>9, <1>10 DEF Inv

LEMMA ValidateManifestKeeps ==
    ASSUME Inv, NEW c \in Cleaners, ValidateManifest(c)
    PROVE  Inv'
  <1>1. /\ pc[c] = "pick"
        /\ \E r \in todo[c] :
               /\ todo' = [todo EXCEPT ![c] = @ \ {r}]
               /\ \/ pc' = [pc EXCEPT ![c] = "lock"] /\ run' = [run EXCEPT ![c] = r]
                  \/ UNCHANGED <<pc, run>>
        /\ UNCHANGED <<job, err, keep, retried, port, leased, lock, made, manifests, copy,
                       containers, volumes, bridges, inflight, faults, stale, notes>>
    BY DEF ValidateManifest, GoTo, docker, files, command, history
  <1>2. TypeOK'
    <2>1. todo' \in [Cleaners -> SUBSET Runs]
      BY <1>1, Distinct DEF Inv, TypeOK, Actors
    <2>2. pc' \in [Actors -> Phases]
      BY <1>1, Distinct DEF Inv, TypeOK, Actors, Phases, Teardown
    <2>3. run' \in [Actors -> Runs \cup {Nobody}]
      BY <1>1, Distinct DEF Inv, TypeOK, Actors, PlaceInv, Held, Teardown, ScenarioOf
    <2> QED
      BY <1>1, <2>1, <2>2, <2>3 DEF Inv, TypeOK
  <1>3. PlaceInv'
    BY <1>1, Distinct DEF Inv, PlaceInv, Held, Teardown, ScenarioOf, Of, Actors, TypeOK
  <1>4. PortInv'
    BY <1>1, Distinct DEF Inv, PortInv, PortsApart, CommandOf, TypeOK, PlaceInv, Actors
  <1>5. OwnInv'
    BY <1>1, Distinct DEF Inv, OwnInv, Teardown, TypeOK, PlaceInv, Held, Actors
  <1>6. StaleInv'
    BY <1>1, Distinct DEF Inv, StaleInv, Valid, Loads, TypeOK, PlaceInv, Held, Teardown,
       Actors
  <1>7. RecordInv'
    BY <1>1, Distinct DEF Inv, RecordInv, Swept, IsDown, NoVolume, NoBridge, Excused, Noted,
       TypeOK, PlaceInv, OwnInv, PastInv, Held, Teardown, Actors
  <1>8. CopyInv'
    BY <1>1, Distinct DEF Inv, CopyInv, Swept, IsDown, NoVolume, NoBridge, Excused, Noted,
       TypeOK, PlaceInv, OwnInv, PastInv, Held, Teardown, Actors
  <1>9. PastInv'
    <2>1. \A b \in Actors : b # c => pc'[b] = pc[b] /\ run'[b] = run[b]
      BY <1>1 DEF Inv, TypeOK, Actors
    <2>2. c \in Actors /\ pc'[c] \in {"pick", "lock"}
      BY <1>1 DEF Inv, TypeOK, Actors
    <2>3. \A b \in Actors : pc'[b] \in {"volumes", "bridge", "rmcopy", "delete"} =>
            pc'[b] = pc[b] /\ run'[b] = run[b]
      BY <2>1, <2>2
    <2> QED
      BY <1>1, <2>3 DEF Inv, PastInv, IsDown, NoVolume, NoBridge, Excused, Noted
  <1>10. CleanInv'
    BY <1>1, Distinct DEF Inv, CleanInv, Reports, Noted, TypeOK, PlaceInv, OwnInv, Held,
       Teardown, Actors
  <1> QED
    BY <1>2, <1>3, <1>4, <1>5, <1>6, <1>7, <1>8, <1>9, <1>10 DEF Inv

LEMMA SweepKeeps ==
    ASSUME Inv, NEW c \in Cleaners, Sweep(c)
    PROVE  Inv'
  <1>1. /\ pc[c] = "lock" /\ lock[Of(run[c])] = Nobody
        /\ lock' = [lock EXCEPT ![Of(run[c])] = c]
        /\ stale' = [stale EXCEPT ![c] = run[c] \notin manifests \/ ~Valid(run[c])]
        /\ pc' = [pc EXCEPT ![c] = "down"]
        /\ UNCHANGED <<job, run, err, todo, keep, retried, port, leased, made, manifests,
                       copy, containers, volumes, bridges, inflight, faults, notes>>
    BY DEF Sweep, GoTo, docker, files, command
  <1>2. TypeOK'
    <2>1. lock' \in [Scenarios -> Actors \cup {Nobody}]
      BY <1>1, Distinct DEF Inv, TypeOK, Actors, PlaceInv, Held, Teardown, ScenarioOf
    <2>2. stale' \in [Cleaners -> BOOLEAN]
      BY <1>1, Distinct DEF Inv, TypeOK, Actors
    <2>3. pc' \in [Actors -> Phases]
      BY <1>1, Distinct DEF Inv, TypeOK, Actors, Phases, Teardown
    <2> QED
      BY <1>1, <2>1, <2>2, <2>3 DEF Inv, TypeOK
  <1>3. PlaceInv'
    BY <1>1, Distinct DEF Inv, PlaceInv, Held, Teardown, ScenarioOf, Of, Actors, TypeOK
  <1>4. PortInv'
    BY <1>1, Distinct DEF Inv, PortInv, PortsApart, CommandOf, TypeOK, PlaceInv, Actors
  <1>5. OwnInv'
    BY <1>1, Distinct DEF Inv, OwnInv, Teardown, TypeOK, PlaceInv, Held, Actors
  <1>6. StaleInv'
    <2>1. c \in Actors /\ (stale'[c] \/ Valid(run[c]))
      BY <1>1 DEF Inv, TypeOK, Actors
    <2>2. \A b \in Cleaners : b # c => pc'[b] = pc[b] /\ stale'[b] = stale[b]
      BY <1>1 DEF Inv, TypeOK, Actors
    <2>3. \A b \in Cleaners : Valid(run[b]) => Valid(run[b])'
      BY <1>1 DEF Valid, Loads
    <2> QED
      BY <1>1, <2>1, <2>2, <2>3 DEF Inv, StaleInv
  <1>7. RecordInv'
    BY <1>1, Distinct DEF Inv, RecordInv, Swept, IsDown, NoVolume, NoBridge, Excused, Noted,
       TypeOK, PlaceInv, OwnInv, PastInv, Held, Teardown, Actors
  <1>8. CopyInv'
    BY <1>1, Distinct DEF Inv, CopyInv, Swept, IsDown, NoVolume, NoBridge, Excused, Noted,
       TypeOK, PlaceInv, OwnInv, PastInv, Held, Teardown, Actors
  <1>9. PastInv'
    BY <1>1, Distinct DEF Inv, PastInv, IsDown, NoVolume, NoBridge, Excused, Noted, TypeOK,
       PlaceInv, OwnInv, Held, Teardown, Actors
  <1>10. CleanInv'
    BY <1>1, Distinct DEF Inv, CleanInv, Reports, Noted, TypeOK, PlaceInv, OwnInv, Held,
       Teardown, Actors
  <1> QED
    BY <1>2, <1>3, <1>4, <1>5, <1>6, <1>7, <1>8, <1>9, <1>10 DEF Inv

LEMMA CleanEndsKeeps ==
    ASSUME Inv, NEW c \in Cleaners, CleanEnds(c)
    PROVE  Inv'
  <1>1. /\ pc[c] = "pick"
        /\ pc' = [pc EXCEPT ![c] = "idle"]
        /\ UNCHANGED <<job, run, err, todo, keep, retried, port, leased, lock, made,
                       manifests, copy, containers, volumes, bridges, inflight, faults, stale,
                       notes>>
    BY DEF CleanEnds, GoTo, docker, files, command, history
  <1>2. TypeOK'
    <2>1. pc' \in [Actors -> Phases]
      BY <1>1, Distinct DEF Inv, TypeOK, Actors, Phases, Teardown
    <2> QED
      BY <1>1, <2>1 DEF Inv, TypeOK
  <1>3. PlaceInv'
    BY <1>1, Distinct DEF Inv, PlaceInv, Held, Teardown, ScenarioOf, Of, Actors, TypeOK
  <1>4. PortInv'
    BY <1>1, Distinct DEF Inv, PortInv, PortsApart, CommandOf, TypeOK, PlaceInv, Actors
  <1>5. OwnInv'
    BY <1>1, Distinct DEF Inv, OwnInv, Teardown, TypeOK, PlaceInv, Held, Actors
  <1>6. StaleInv'
    BY <1>1, Distinct DEF Inv, StaleInv, Valid, Loads, TypeOK, PlaceInv, Held, Teardown,
       Actors
  <1>7. RecordInv'
    BY <1>1, Distinct DEF Inv, RecordInv, Swept, IsDown, NoVolume, NoBridge, Excused, Noted,
       TypeOK, PlaceInv, OwnInv, PastInv, Held, Teardown, Actors
  <1>8. CopyInv'
    BY <1>1, Distinct DEF Inv, CopyInv, Swept, IsDown, NoVolume, NoBridge, Excused, Noted,
       TypeOK, PlaceInv, OwnInv, PastInv, Held, Teardown, Actors
  <1>9. PastInv'
    BY <1>1, Distinct DEF Inv, PastInv, IsDown, NoVolume, NoBridge, Excused, Noted, TypeOK,
       PlaceInv, OwnInv, Held, Teardown, Actors
  <1>10. CleanInv'
    BY <1>1, Distinct DEF Inv, CleanInv, Reports, Noted, TypeOK, PlaceInv, OwnInv, Held,
       Teardown, Actors
  <1> QED
    BY <1>2, <1>3, <1>4, <1>5, <1>6, <1>7, <1>8, <1>9, <1>10 DEF Inv

LEMMA StartCommandKeeps ==
    ASSUME Inv, NEW c \in Commands, StartCommand(c)
    PROVE  Inv'
  <1>1. PICK hired \in SUBSET (Workers \ Hired) :
        /\ \E scenario \in [hired -> Scenarios] :
              job' = [w \in Workers |-> IF w \in hired THEN <<c, scenario[w]>> ELSE job[w]]
        /\ pc' = [a \in Actors |-> IF a \in hired THEN "start" ELSE pc[a]]
    <2>1. \A hired : Injection(hired, Scenarios) \subseteq [hired -> Scenarios]
      BY DEF Injection
    <2> QED
      BY <2>1 DEF StartCommand
  <1>2. /\ keep' \in [Commands -> BOOLEAN]
        /\ UNCHANGED <<run, err, todo, retried, port, leased, lock, made, manifests, copy,
                       containers, volumes, bridges, inflight, faults, stale, notes>>
    BY DEF StartCommand, files, docker, history, Inv, TypeOK
  <1>3. \A a \in Actors : IF a \in hired THEN pc'[a] = "start" /\ pc[a] = "idle" ELSE pc'[a] = pc[a]
    BY <1>1, Distinct DEF Inv, PlaceInv, Hired, Actors
  <1>4. \A w \in Workers :
          IF w \in hired THEN job[w] = Nobody /\ job'[w] \in Commands \X Scenarios
          ELSE job'[w] = job[w]
    BY <1>1 DEF Hired
  <1>5. TypeOK'
    <2>1. pc' \in [Actors -> Phases]
      BY <1>1 DEF Inv, TypeOK, Phases
    <2>2. job' \in [Workers -> (Commands \X Scenarios) \cup {Nobody}]
      BY <1>1 DEF Inv, TypeOK
    <2> QED
      BY <1>2, <2>1, <2>2 DEF Inv, TypeOK
  <1>6. PlaceInv'
    <2>1. \A a \in Actors : pc'[a] \in Held <=> pc[a] \in Held /\ a \notin hired
      BY <1>3 DEF Held, Teardown
    <2>2. \A w \in Workers : w \notin hired => ScenarioOf(w)' = ScenarioOf(w)
      BY <1>4 DEF ScenarioOf
    <2>3. \A w \in Workers : /\ pc'[w] \notin {"pick", "lock"}
                             /\ pc'[w] = "idle" <=> job'[w] = Nobody
                             /\ pc'[w] \in Held => Of(run'[w]) = ScenarioOf(w)'
      BY <1>2, <1>3, <1>4, <2>1, <2>2, Distinct DEF Inv, PlaceInv, Actors
    <2>4. \A b \in Cleaners : b \in Actors /\ b \notin hired /\ pc'[b] = pc[b]
      BY <1>3, Distinct DEF Actors
    <2>5. \A s \in Scenarios : lock[s] # Nobody => lock[s] \in Actors /\ pc[lock[s]] \in Held
      BY DEF Inv, TypeOK, PlaceInv
    <2>6. \A s \in Scenarios : lock[s] # Nobody => pc'[lock[s]] \in Held
      BY <1>3, <2>1, <2>5 DEF Held, Teardown
    <2>7. \A a \in Actors : pc'[a] \in Held => run'[a] \in Runs /\ lock'[Of(run'[a])] = a
      BY <1>2, <2>1 DEF Inv, PlaceInv
    <2>8. \A s \in Scenarios : lock'[s] # Nobody =>
            pc'[lock'[s]] \in Held /\ Of(run'[lock'[s]]) = s
      BY <1>2, <2>6 DEF Inv, PlaceInv
    <2>9. \A b \in Cleaners : /\ pc'[b] \in {"idle", "pick", "lock", "unlock"} \cup Teardown
                              /\ pc'[b] = "lock" => run'[b] \in Runs
      BY <1>2, <2>4 DEF Inv, PlaceInv
    <2> QED
      BY <2>3, <2>7, <2>8, <2>9 DEF PlaceInv
  <1>7. PortInv'
    BY <1>2, <1>4, Distinct DEF Inv, PortInv, PortsApart, CommandOf
  <1>8. OwnInv' /\ StaleInv'
    BY <1>2, <1>3 DEF Inv, OwnInv, StaleInv, Valid, Loads, Teardown, Actors
  <1>9. RecordInv' /\ CopyInv'
    BY <1>2 DEF Inv, RecordInv, CopyInv, Swept, IsDown, NoVolume, NoBridge, Excused, Noted
  <1>10. PastInv' /\ CleanInv'
    BY <1>2, <1>3 DEF Inv, PastInv, CleanInv, Reports, IsDown, NoVolume, NoBridge, Excused,
       Noted
  <1> QED
    BY <1>5, <1>6, <1>7, <1>8, <1>9, <1>10 DEF Inv

LEMMA KillKeeps ==
    ASSUME Inv, NEW gone \in SUBSET Actors, Kill(gone)
    PROVE  Inv'
  <1> DEFINE at(phase) == {lock[s] : s \in {x \in Scenarios : lock[x] \in gone}} \cap
                          {a \in gone : pc[a] = phase}
  <1>1. /\ Forget(gone, "idle")
        /\ todo' = [c \in Cleaners |-> IF c \in gone THEN {} ELSE todo[c]]
        /\ notes' = notes \cup UNION {NotesOfCut(a) : a \in at("rmcopy")}
        /\ inflight' = inflight \cup {run[a] : a \in at("deploy") \cup at("steps")}
        /\ faults < MaxFaults /\ faults' = faults + 1
        /\ UNCHANGED <<manifests, made, containers, volumes, bridges>>
    BY DEF Kill, Fault
  <1>2. /\ copy' \in [Scenarios -> {None, Broken, Bare} \cup Runs]
        /\ \A s \in Scenarios :
              \/ copy'[s] = copy[s]
              \/ lock[s] \in at("copy")
              \/ lock[s] \in at("rmcopy") /\ copy'[s] \in Remains(s)
    BY DEF Kill
  <1>3. \A phase \in Phases : \A a \in at(phase) :
          a \in gone /\ a \in Actors /\ pc[a] = phase
    BY DEF Phases
  <1>4. \A a \in gone : pc[a] \in Held => a = lock[Of(run[a])] /\ run[a] \in Runs
    BY DEF Inv, PlaceInv
  <1>5. \A b \in Actors :
          IF b \in gone THEN pc'[b] = "idle" ELSE pc'[b] = pc[b] /\ run'[b] = run[b] /\ err'[b] = err[b]
    BY <1>1 DEF Forget, Inv, TypeOK
  \* What somebody else works on is left as it is.
  <1>6. ASSUME NEW b \in Actors \ gone, pc[b] \in Held
        PROVE  /\ run[b] \in Runs /\ Of(run[b]) \in Scenarios
               /\ copy'[Of(run[b])] = copy[Of(run[b])]
               /\ run[b] \in inflight' => run[b] \in inflight
    <2>1. run[b] \in Runs /\ Of(run[b]) \in Scenarios /\ lock[Of(run[b])] = b
      BY <1>6, Distinct DEF Inv, PlaceInv
    <2>2. \A phase \in Phases : b \notin at(phase)
      BY <1>6
    <2>3. \A a \in at("deploy") \cup at("steps") : run[a] # run[b]
      <3> SUFFICES ASSUME NEW a \in at("deploy") \cup at("steps"), run[a] = run[b] PROVE FALSE
        OBVIOUS
      <3>1. a \in gone /\ pc[a] \in Held
        BY DEF Held
      <3> QED
        BY <1>4, <2>1, <3>1
    <2>4. copy'[Of(run[b])] = copy[Of(run[b])]
      BY <1>2, <2>1, <2>2 DEF Phases, Teardown
    <2> QED
      BY <1>1, <2>1, <2>3, <2>4
  <1>7. \A r \in Runs : r \in inflight' => r \in inflight \/
            \E a \in at("deploy") \cup at("steps") : run[a] = r
    BY <1>1
  <1>8. notes \subseteq notes' /\ \A a \in at("rmcopy") : NotesOfCut(a) \subseteq notes'
    BY <1>1
  <1>9. \A a \in at("deploy") \cup at("steps") :
          a \in Workers /\ run[a] \in manifests /\ copy[Of(run[a])] = run[a]
            /\ copy'[Of(run[a])] = run[a]
    <2> SUFFICES ASSUME NEW a \in at("deploy") \cup at("steps")
                 PROVE  a \in Workers /\ run[a] \in manifests /\ copy[Of(run[a])] = run[a]
                          /\ copy'[Of(run[a])] = run[a]
      OBVIOUS
    <2>1. a \in gone /\ a \in Actors /\ pc[a] \in {"deploy", "steps"}
      OBVIOUS
    <2>2. a \in Workers /\ run[a] \in manifests /\ copy[Of(run[a])] = run[a]
      BY <2>1 DEF Inv, PlaceInv, OwnInv, Actors, Teardown
    <2>3. run[a] \in Runs /\ Of(run[a]) \in Scenarios /\ lock[Of(run[a])] = a
      BY <2>1, Distinct DEF Inv, PlaceInv, Held
    <2>4. a \notin at("copy") /\ a \notin at("rmcopy")
      BY <2>1
    <2>5. copy'[Of(run[a])] = copy[Of(run[a])]
      BY <1>2, <2>3, <2>4
    <2> QED
      BY <2>2, <2>5
  <1>10. TypeOK'
    <2>1. /\ job' \in [Workers -> (Commands \X Scenarios) \cup {Nobody}]
          /\ pc' \in [Actors -> Phases]
      BY <1>1 DEF Forget, Inv, TypeOK, Phases
    <2>2. /\ run' \in [Actors -> Runs \cup {Nobody}] /\ err' \in [Actors -> BOOLEAN]
          /\ stale' \in [Cleaners -> BOOLEAN] /\ retried' \in [Workers -> BOOLEAN]
      BY <1>1 DEF Forget, Inv, TypeOK
    <2>3. /\ port' \in [Workers -> Ports \cup {NoPort}]
          /\ lock' \in [Scenarios -> Actors \cup {Nobody}]
          /\ keep' \in [Commands -> BOOLEAN] /\ leased' \in [Commands -> SUBSET Ports]
      BY <1>1 DEF Forget, Inv, TypeOK
    <2>4. todo' \in [Cleaners -> SUBSET Runs] /\ faults' \in 0 .. MaxFaults
      BY <1>1, Distinct DEF Inv, TypeOK
    <2>5. notes' \subseteq Runs \X Kinds
      <3>1. \A a \in at("rmcopy") : run[a] \in Runs
        BY <1>4 DEF Held, Teardown
      <3>2. \A a \in at("rmcopy") : NotesOfCut(a) \subseteq Runs \X Kinds
        BY <3>1 DEF NotesOfCut, Strangers, Kinds
      <3> QED
        BY <1>1, <3>2 DEF Inv, TypeOK
    <2>6. inflight' \subseteq Runs
      BY <1>1, <1>9 DEF Inv, TypeOK
    <2> QED
      BY <1>1, <1>2, <2>1, <2>2, <2>3, <2>4, <2>5, <2>6 DEF Inv, TypeOK
  <1>11. PlaceInv'
    BY <1>1, Distinct DEF Forget, Inv, TypeOK, PlaceInv, Held, ScenarioOf, Actors, Teardown
  <1>12. PortInv'
    BY <1>1, Distinct DEF Forget, Inv, TypeOK, PlaceInv, PortInv, PortsApart, CommandOf,
       WorkersOf, Hired, Actors
  <1> HIDE DEF at
  <1>13. OwnInv'
    BY <1>1, <1>5, <1>6 DEF Inv, OwnInv, Actors, Held, Teardown
  <1>14. StaleInv'
    <2> SUFFICES ASSUME NEW c \in Cleaners, pc'[c] = "down", ~stale'[c] PROVE Valid(run[c])' 
      BY DEF StaleInv
    <2>1. c \in Actors \ gone /\ pc[c] = "down" /\ run'[c] = run[c]
      BY <1>5 DEF Actors
    <2>2. ~stale[c]
      BY <1>1, <2>1 DEF Forget, Inv, TypeOK
    <2> QED
      BY <1>6, <2>1, <2>2 DEF Inv, StaleInv, Valid, Loads, Held, Teardown
  <1>15. RecordInv'
    <2> SUFFICES ASSUME NEW r \in Runs \ manifests PROVE Swept(r)'
      BY <1>1 DEF RecordInv
    <2>1. r \in inflight' => r \in inflight
      BY <1>7, <1>9
    <2> QED
      BY <1>1, <1>8, <2>1 DEF Inv, RecordInv, Swept, IsDown, NoVolume, NoBridge, Excused,
         Noted
  <1>16. CopyInv'
    <2>1. ASSUME NEW r \in manifests
          PROVE  \/ copy'[Of(r)] = r
                 \/ /\ copy'[Of(r)] \in {None, Broken, Bare}
                    /\ copy'[Of(r)] = Bare => Noted(r, "cut")' \/ Noted(r, "stale")'
                    /\ Noted(r, "stale")' \/ Swept(r)'
      <3>1. r \in Runs /\ Of(r) \in Scenarios
        BY Distinct DEF Inv, TypeOK
      <3>2. CASE \E a \in at("deploy") \cup at("steps") : run[a] = r
        BY <1>9, <3>2
      <3>3. CASE ~ \E a \in at("deploy") \cup at("steps") : run[a] = r
        <4>1. Swept(r) => Swept(r)'
          BY <1>1, <1>7, <1>8, <3>1, <3>3 DEF Swept, IsDown, NoVolume, NoBridge, Excused,
             Noted
        <4>2. CASE copy'[Of(r)] = copy[Of(r)]
          BY <1>8, <4>1, <4>2 DEF Inv, CopyInv, Noted
        <4>3. CASE lock[Of(r)] \in at("copy")
          <5>1. lock[Of(r)] \in Actors /\ pc[lock[Of(r)]] = "copy" /\ lock[Of(r)] # Nobody
            BY <4>3, Distinct DEF at
          <5>2. lock[Of(r)] \in Workers /\ Of(run[lock[Of(r)]]) = Of(r)
            BY <3>1, <5>1 DEF Inv, PlaceInv, Actors, Teardown
          <5> QED
            BY <5>1, <5>2 DEF Inv, OwnInv
        <4>4. CASE lock[Of(r)] \in at("rmcopy") /\ copy'[Of(r)] \in Remains(Of(r))
          <5> DEFINE a == lock[Of(r)]
          <5>1. a \in Actors /\ pc[a] = "rmcopy" /\ a # Nobody
            BY <4>4, Distinct DEF at
          <5>2. run[a] \in Runs /\ Of(run[a]) = Of(r) /\ Swept(run[a])
            BY <3>1, <5>1 DEF Inv, PlaceInv, PastInv, Swept, Held, Teardown
          <5>3. NotesOfCut(a) \subseteq notes'
            BY <1>8, <4>4
          <5> HIDE DEF a
          <5>4. CASE r = run[a]
            BY <4>1, <4>4, <5>2, <5>3, <5>4, Distinct DEF Inv, CopyInv, Remains, NotesOfCut,
               Noted
          <5>5. CASE r # run[a] /\ copy[Of(r)] = r
            BY <3>1, <4>4, <5>2, <5>3, <5>5, Distinct DEF Remains, NotesOfCut, Strangers,
               Noted
          <5>6. CASE copy[Of(r)] # r
            <6>1. copy[Of(r)] \in {None, Broken, Bare}
              BY <5>6 DEF Inv, CopyInv
            <6>2. copy'[Of(r)] \in {None, Broken, copy[Of(r)]}
              BY <4>4, <6>1, Distinct DEF Remains
            <6> QED
              BY <1>8, <4>1, <5>6, <6>1, <6>2, Distinct DEF Inv, CopyInv, Noted
          <5> QED
            BY <5>4, <5>5, <5>6
        <4> QED
          BY <1>2, <3>1, <4>2, <4>3, <4>4
      <3> QED
        BY <3>2, <3>3
    <2> QED
      BY <1>1, <2>1 DEF Inv, CopyInv
  <1>17. PastInv' /\ CleanInv'
    <2> SUFFICES ASSUME NEW b \in Actors
                 PROVE  /\ pc'[b] \in {"volumes", "bridge", "rmcopy", "delete"} => IsDown(run[b])'
                        /\ pc'[b] \in {"bridge", "rmcopy", "delete"} => NoVolume(run[b])'
                        /\ pc'[b] \in {"rmcopy", "delete"} => NoBridge(run[b])'
                        /\ ~err'[b] =>
                              /\ pc'[b] \in {"volumes", "bridge", "rmcopy", "delete"} \/ Reports(b)' =>
                                    (run'[b] \in containers' \cup inflight' => Noted(run[b], "inflight")')
                              /\ pc'[b] \in {"bridge", "rmcopy", "delete"} \/ Reports(b)' =>
                                    (run'[b] \in volumes' =>
                                        Noted(run[b], "inflight")' \/ Noted(run[b], "volume")')
                              /\ pc'[b] = "delete" \/ Reports(b)' => copy'[Of(run'[b])] = None
                              /\ Reports(b)' => run'[b] \notin manifests'
      BY DEF PastInv, CleanInv
    <2>1. CASE b \in gone
      BY <1>5, <2>1 DEF Reports
    <2>2. CASE b \notin gone /\ pc[b] \notin Held
      BY <1>5, <2>2 DEF Reports, Held, Teardown
    <2>3. CASE b \notin gone /\ pc[b] \in Held
      <3>1. /\ pc'[b] = pc[b] /\ run'[b] = run[b] /\ err'[b] = err[b]
            /\ copy'[Of(run[b])] = copy[Of(run[b])]
            /\ run[b] \in inflight' => run[b] \in inflight
        BY <1>5, <1>6, <2>3
      <3> QED
        BY <1>1, <1>8, <3>1 DEF Inv, PastInv, CleanInv, Reports, IsDown, NoVolume, NoBridge,
           Excused, Noted
    <2> QED
      BY <2>1, <2>2, <2>3
  <1> QED
    BY <1>10, <1>11, <1>12, <1>13, <1>14, <1>15, <1>16, <1>17 DEF Inv

-----------------------------------------------------------------------------
LEMMA InitInv == Init => Inv
  BY Distinct DEF Init, Inv, TypeOK, PlaceInv, PortInv, PortsApart, OwnInv, StaleInv,
     RecordInv, CopyInv, PastInv, CleanInv, Swept, IsDown, NoVolume, NoBridge, Reports,
     Held, Teardown, Phases, Actors

LEMMA InvStep == Inv /\ [Next]_vars => Inv'
  <1> SUFFICES ASSUME Inv, [Next]_vars PROVE Inv'
    OBVIOUS
  <1>1. CASE UNCHANGED vars
    BY <1>1, ZenonT(40) DEF vars, Inv, TypeOK, PlaceInv, PortInv, PortsApart, OwnInv, StaleInv,
       RecordInv, CopyInv, PastInv, CleanInv, Swept, IsDown, NoVolume, NoBridge, Excused,
       Noted, Reports, Valid, Loads, ScenarioOf, CommandOf
  <1>2. ASSUME NEW a \in Actors, TeardownStep(a) PROVE Inv'
    BY <1>2, ComposeDownKeeps, ReapContainersKeeps, RemoveVolumesKeeps, StopBridgeKeeps,
       RemoveCopyKeeps, DeleteManifestKeeps, ReleaseKeeps DEF TeardownStep
  <1>3. ASSUME NEW w \in Workers, WorkerStep(w) PROVE Inv'
    BY <1>2, <1>3, RefuseKeeps, AcquireKeeps, CopyTreeKeeps, GenerateKeeps,
       WriteManifestKeeps, PrepFailKeeps, ValidateKeeps, DeployUpKeeps, DeployEndsKeeps,
       DeployRetryKeeps, CutKeeps, StepsKeeps DEF WorkerStep, Actors
  <1>4. ASSUME NEW c \in Cleaners, CleanerStep(c) PROVE Inv'
    BY <1>2, <1>4, ValidateManifestKeeps, SkipLiveKeeps, SweepKeeps, CleanEndsKeeps DEF
       CleanerStep, Actors
  <1>5. ASSUME NEW c \in Commands, KillCommand(c) PROVE Inv'
    BY <1>5, KillKeeps DEF KillCommand, WorkersOf, Hired, Actors
  <1>6. ASSUME NEW c \in Cleaners, KillCleaner(c) PROVE Inv'
    BY <1>6, KillKeeps DEF KillCleaner, Actors
  <1> QED
    BY <1>1, <1>3, <1>4, <1>5, <1>6, StartCommandKeeps, StragglerKeeps, ListManifestsKeeps
       DEF Next

(* What the properties rest on holds in every state of every behaviour.     *)
THEOREM Invariance == Spec => []Inv
  BY InitInv, InvStep, PTL DEF Spec

-----------------------------------------------------------------------------
(* Whatever a run has left in docker or on the host has a manifest to find  *)
(* it by, wherever a test run or a clean is killed or fails, or is what a   *)
(* teardown is known to have missed.                                        *)
THEOREM Recorded == Spec => []ResourcesRecorded
  <1>1. Inv => ResourcesRecorded
    BY DEF Inv, RecordInv, ResourcesRecorded, Swept, IsDown, NoVolume, NoBridge, Excused,
       Noted
  <1> QED
    BY <1>1, Invariance, PTL

(* A scenario has one environment, in its own copy until its containers are *)
(* down, however many commands run it or clean it.                          *)
THEOREM OneAtATime == Spec => []OneEnvironment
  <1>1. Inv => OneEnvironment
    BY DEF Inv, CopyInv, OneEnvironment, Swept, IsDown, Excused, Noted
  <1> QED
    BY <1>1, Invariance, PTL

(* The workers of one command never have the same host port.                *)
THEOREM OwnPorts == Spec => []PortsApart
  <1>1. Inv => PortsApart
    BY DEF Inv, PortInv
  <1> QED
    BY <1>1, Invariance, PTL

(* What a clean reports as swept is gone, but for what it is not told of.   *)
THEOREM SweptIsGone == Spec => []SweptMeansGone
  <1>1. Inv => SweptMeansGone
    <2> SUFFICES ASSUME Inv, NEW c \in Cleaners, pc[c] = "unlock", ~err[c]
                 PROVE  LET r == run[c]
                        IN  /\ r \notin manifests /\ copy[Of(r)] = None
                            /\ r \in bridges => Noted(r, "failed") \/ Noted(r, "stale")
                            /\ r \in containers => Noted(r, "inflight")
                            /\ r \in volumes => Noted(r, "inflight") \/ Noted(r, "volume")
      BY DEF SweptMeansGone
    <2>1. c \in Actors /\ Reports(c) /\ run[c] \in Runs
      BY DEF Inv, PlaceInv, Held, Actors, Reports
    <2> QED
      BY <2>1 DEF Inv, CleanInv, RecordInv, Swept, NoBridge
  <1> QED
    BY <1>1, Invariance, PTL

(* Containers go in the teardown of their own run, and those of the working *)
(* environment never go, but for a sweep that got its flock too late.       *)
THEOREM OnlyItsOwn == Spec => OnlyOwnTeardown
  <1>1. Inv /\ [Next]_vars =>
          [\A p \in containers \ containers' :
              \E a \in Actors : /\ pc[a] \in {"down", "reap"}
                                /\ run[a] = p \/ (a \in Cleaners /\ stale[a])]_vars
    <2> SUFFICES ASSUME Inv, Next, NEW p \in containers \ containers'
                 PROVE  \E a \in Actors : /\ pc[a] \in {"down", "reap"}
                                          /\ run[a] = p \/ (a \in Cleaners /\ stale[a])
      OBVIOUS
    <2>1. ASSUME NEW a \in Actors, TeardownStep(a)
          PROVE  \E b \in Actors : /\ pc[b] \in {"down", "reap"}
                                   /\ run[b] = p \/ (b \in Cleaners /\ stale[b])
      <3>1. CASE ReapContainers(a)
        BY <3>1 DEF ReapContainers
      <3>2. CASE ComposeDown(a)
        <4>1. pc[a] = "down" /\ Loads(Of(run[a])) /\ p = Identity(Of(run[a]))
          BY <3>2 DEF ComposeDown
        <4>2. CASE a \in Workers
          BY <4>1, <4>2, Distinct DEF Inv, OwnInv, PlaceInv, Identity, Held, Teardown
        <4>3. CASE a \in Cleaners
          BY <4>1, <4>3, Distinct DEF Inv, StaleInv, Valid, PlaceInv, Identity, Held,
             Teardown
        <4> QED
          BY <4>1, <4>2, <4>3 DEF Actors
      <3>3. CASE RemoveVolumes(a) \/ StopBridge(a)
        BY <3>3 DEF RemoveVolumes, StopBridge
      <3>4. CASE RemoveCopy(a) \/ DeleteManifest(a) \/ Release(a)
        BY <3>4 DEF RemoveCopy, DeleteManifest, Release, docker
      <3> QED
        BY <2>1, <3>1, <3>2, <3>3, <3>4 DEF TeardownStep
    <2>2. ASSUME NEW w \in Workers, WorkerStep(w), ~TeardownStep(w) PROVE containers \subseteq containers'
      BY <2>2 DEF WorkerStep, Refuse, Acquire, CopyTree, Generate, WriteManifest, PrepFail,
         Validate, DeployUp, DeployEnds, DeployRetry, Cut, Steps, Up, docker
    <2>3. ASSUME NEW c \in Cleaners, CleanerStep(c), ~TeardownStep(c) PROVE containers \subseteq containers'
      BY <2>3 DEF CleanerStep, ValidateManifest, SkipLive, Sweep, CleanEnds, docker
    <2>4. ASSUME NEW c \in Commands, StartCommand(c) PROVE containers \subseteq containers'
      BY <2>4 DEF StartCommand, docker
    <2>5. ASSUME NEW r \in Runs, Straggler(r) PROVE containers \subseteq containers'
      BY <2>5 DEF Straggler, Up
    <2>6. ASSUME NEW c \in Cleaners, NEW named, ListManifests(c, named) PROVE containers \subseteq containers'
      BY <2>6 DEF ListManifests, docker
    <2>7. ASSUME NEW gone, Kill(gone) PROVE containers \subseteq containers'
      BY <2>7 DEF Kill
    <2> QED
      BY <2>1, <2>2, <2>3, <2>4, <2>5, <2>6, <2>7 DEF Next, KillCommand, KillCleaner, Actors
  <1> QED
    BY <1>1, Invariance, PTL DEF Spec, OnlyOwnTeardown
=============================================================================
