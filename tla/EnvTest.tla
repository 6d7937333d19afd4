------------------------------- MODULE EnvTest -------------------------------
(***************************************************************************)
(* Environment tests: dwe test run and dwe test clean, in                  *)
(* src/internal/core/workflow/envtest and src/internal/cli/test.           *)
(*                                                                         *)
(* A run of a scenario deploys a copy of the project under a compose       *)
(* project of its own and tears it down again.  The copy's directory is    *)
(* fixed by the scenario; the compose project and the manifest carry the   *)
(* run's id.  A flock per scenario keeps two runs apart, and a manifest    *)
(* that is still there keeps the next run off an environment that --keep   *)
(* or a killed process left.  Clean lists the manifests first and takes    *)
(* the flock of each one later.                                            *)
(*                                                                         *)
(* Docker, the host's bridge daemon and the subprocesses dwe validate and  *)
(* dwe deploy run are external: what counts is which run's containers,     *)
(* volumes and daemon exist.  A docker command whose parent was killed may *)
(* still be at work.  Reports, logs and what a scenario's steps do inside  *)
(* the copy are left out.                                                  *)
(***************************************************************************)
EXTENDS Integers, Functions

CONSTANTS
    Scenarios,   \* the scenarios under workspace/tests
    Commands,    \* processes of dwe test run
    Workers,     \* the goroutines of those processes, each running one scenario
    Cleaners,    \* processes of dwe test clean
    Ports,       \* the free host ports the system may hand out
    Nobody,      \* no run, no process
    MaxRuns,     \* bound on the run ids drawn
    MaxFaults    \* bound on the operations that fail or are cut short and the kills

ASSUME EnvTestAssumption ==
    /\ Workers \cap Cleaners = {}
    /\ Nobody \notin Workers \cup Cleaners \cup Ports \cup (Commands \X Scenarios)
    /\ MaxRuns \in Nat /\ MaxFaults \in Nat

VARIABLES
    job,         \* the process and the scenario of a worker
    pc,          \* what a worker or a cleaner is about to do
    run,         \* the run whose manifest it works on
    err,         \* a step of its teardown has failed
    todo,        \* the manifests a cleaner listed and has not come to
    keep,        \* the command was given --keep
    retried,     \* the worker's deploy has had its second attempt
    port,        \* the host port in the local.yml of the worker's copy
    leased,      \* ports.go: leasedPorts, one set for each process
    lock,        \* holder of .dwe/tests/locks/<scenario>.lock
    made,        \* how many run ids have been drawn
    manifests,   \* the runs that have a manifest
    copy,        \* what is in .dwe/tests/runs/<scenario>
    containers,  \* the compose projects that have containers
    volumes,     \* and volumes
    bridges,     \* the runs whose copy has a bridge daemon
    inflight,    \* the runs with a docker command that lost its parent
    faults,      \* how many operations failed or were cut short, and kills
    \* what the properties compare with
    stale,       \* the cleaner's manifest had gone before it had the flock
    notes        \* what kept a teardown from its work, by run

vars == <<job, pc, run, err, todo, keep, retried, port, leased, lock, made, manifests, copy,
          containers, volumes, bridges, inflight, faults, stale, notes>>

Actors   == Workers \cup Cleaners
Runs     == Scenarios \X (1 .. MaxRuns)
Dev      == <<"dev">>      \* the working environment's compose project
None     == <<"none">>     \* no copy
Broken   == <<"broken">>   \* a part of a copy, whose configuration does not load
Bare     == <<"bare">>     \* one that loads and does not carry the run's identity
NoPort   == Nobody

CommandOf(w)  == job[w][1]
ScenarioOf(w) == job[w][2]
Hired         == {w \in Workers : job[w] # Nobody}
Of(r)    == r[1]           \* the scenario of a run
Teardown == {"down", "reap", "volumes", "bridge", "rmcopy", "delete"}
Phases   == {"idle", "start", "copy", "generate", "manifest", "validate", "deploy", "steps",
             "pick", "lock", "unlock"} \cup Teardown
Kinds    == {"failed", "inflight", "volume", "cut", "stale"}

Init ==
    /\ job = [w \in Workers |-> Nobody]
    /\ pc = [a \in Actors |-> "idle"]
    /\ run = [a \in Actors |-> Nobody]
    /\ err = [a \in Actors |-> FALSE]
    /\ todo = [c \in Cleaners |-> {}]
    /\ keep = [c \in Commands |-> FALSE]
    /\ retried = [w \in Workers |-> FALSE]
    /\ port = [w \in Workers |-> NoPort]
    /\ leased = [c \in Commands |-> {}]
    /\ lock = [s \in Scenarios |-> Nobody]
    /\ made = 0
    /\ manifests = {} /\ containers = {Dev} /\ volumes = {} /\ bridges = {} /\ inflight = {}
    /\ copy = [s \in Scenarios |-> None]
    /\ faults = 0
    /\ stale = [c \in Cleaners |-> FALSE]
    /\ notes = {}

docker  == <<containers, volumes, bridges, inflight>>
files   == <<manifests, copy, made>>
command == <<job, keep, retried, port, leased>>
history == <<stale, notes>>
cleaner == <<todo, stale>>

GoTo(a, phase) == pc' = [pc EXCEPT ![a] = phase]
Note(r, kind)  == notes' = notes \cup {<<r, kind>>}

\* An operation on the files or on docker fails or is cut short.
Fault == faults < MaxFaults /\ faults' = faults + 1

\* A removal that is cut short leaves any part of the copy that is there.
Remains(s) == {None} \cup (IF copy[s] = None THEN {} ELSE {Broken, copy[s]})
                    \cup (IF copy[s] \in Runs THEN {Bare} ELSE {})

\* A process lives as long as one of its workers.
WorkersOf(c) == {w \in Hired : CommandOf(w) = c}

\* The actors let go of what they hold in memory, and with the last worker
\* the leases of its process go.
Forget(gone, phase) ==
    /\ job' = [w \in Workers |-> IF w \in gone THEN Nobody ELSE job[w]]
    /\ pc' = [a \in Actors |-> IF a \in gone THEN phase ELSE pc[a]]
    /\ run' = [a \in Actors |-> IF a \in gone THEN Nobody ELSE run[a]]
    /\ err' = [a \in Actors |-> err[a] /\ a \notin gone]
    /\ stale' = [c \in Cleaners |-> stale[c] /\ c \notin gone]
    /\ retried' = [w \in Workers |-> retried[w] /\ w \notin gone]
    /\ port' = [w \in Workers |-> IF w \in gone THEN NoPort ELSE port[w]]
    /\ lock' = [s \in Scenarios |-> IF lock[s] \in gone THEN Nobody ELSE lock[s]]
    /\ keep' = [c \in Commands |-> keep[c] /\ ~(WorkersOf(c) \subseteq gone)]
    /\ leased' = [c \in Commands |-> IF WorkersOf(c) \subseteq gone THEN {} ELSE leased[c]]

-----------------------------------------------------------------------------
(* dwe test run *)

\* runTest: a worker for every scenario named, with fresh leases.
StartCommand(c) ==
    /\ WorkersOf(c) = {}
    /\ made < MaxRuns
    /\ \E k \in BOOLEAN : keep' = [keep EXCEPT ![c] = k]
    /\ \E hired \in SUBSET (Workers \ Hired) \ {{}} : \E scenario \in Injection(hired, Scenarios) :
        /\ job' = [w \in Workers |-> IF w \in hired THEN <<c, scenario[w]>> ELSE job[w]]
        /\ pc' = [a \in Actors |-> IF a \in hired THEN "start" ELSE pc[a]]
    /\ UNCHANGED <<run, err, todo, retried, port, leased, lock, files, docker, faults, history>>

\* Mutant: only an environment that is up is taken for a kept one.
KeptIfUp(s) == \E r \in manifests \cap containers : Of(r) = s

\* existingManifestPaths: an environment of the scenario is still there.
Kept(s) == \E r \in manifests : Of(r) = s

\* The flock is held, an environment was kept, the scenario does not load or
\* the isolation gate blocks it: nothing was created.
Refuse(w) ==
    /\ pc[w] = "start"
    /\ Forget({w}, "idle")
    /\ UNCHANGED <<todo, files, docker, faults, notes>>

\* The flock, the guard and the gate let it pass, and it draws its run id.
Acquire(w) ==
    LET s == ScenarioOf(w) IN
    /\ pc[w] = "start"
    /\ lock[s] = Nobody /\ ~Kept(s) /\ made < MaxRuns
    /\ lock' = [lock EXCEPT ![s] = w]
    /\ made' = made + 1
    /\ run' = [run EXCEPT ![w] = <<s, made'>>]
    /\ GoTo(w, "copy")
    /\ UNCHANGED <<err, todo, command, manifests, copy, docker, faults, history>>

\* CopyTree removes what an earlier run left and copies the project.
CopyTree(w) ==
    /\ pc[w] = "copy"
    /\ copy' = [copy EXCEPT ![ScenarioOf(w)] = Bare]
    /\ GoTo(w, "generate")
    /\ UNCHANGED <<run, err, todo, command, lock, manifests, made, docker, faults, history>>

\* Mutant: any free port, whatever the process has leased.
AllocateFree(w, p) ==
    /\ port' = [port EXCEPT ![w] = p]
    /\ leased' = [leased EXCEPT ![CommandOf(w)] = @ \cup {p}]

\* AllocatePorts: a port that no other batch of this process has had.
AllocatePorts(w, p) ==
    /\ p \notin leased[CommandOf(w)]
    /\ port' = [port EXCEPT ![w] = p]
    /\ leased' = [leased EXCEPT ![CommandOf(w)] = @ \cup {p}]

\* writeCopyLocalYAML and WriteDockerIdentity: ports and identity of the copy.
Generate(w) ==
    /\ pc[w] = "generate"
    /\ \E p \in Ports : AllocatePorts(w, p)
    /\ copy' = [copy EXCEPT ![ScenarioOf(w)] = run[w]]
    /\ GoTo(w, "manifest")
    /\ UNCHANGED <<job, run, err, todo, keep, retried, lock, manifests, made, docker,
                   faults, history>>

\* Mutant: a manifest only for an environment that is to be kept.
WriteManifestToKeep(w) ==
    /\ pc[w] = "manifest"
    /\ manifests' = manifests \cup (IF keep[CommandOf(w)] THEN {run[w]} ELSE {})
    /\ GoTo(w, "validate")
    /\ UNCHANGED <<run, err, todo, command, lock, copy, made, docker, faults, history>>

WriteManifest(w) ==
    /\ pc[w] = "manifest"
    /\ manifests' = manifests \cup {run[w]}
    /\ GoTo(w, "validate")
    /\ UNCHANGED <<run, err, todo, command, lock, copy, made, docker, faults, history>>

\* CopyTree's deferred removal and prepFail: the copy goes, best effort, and
\* the run ends with an error.  Leases that run out count as such a failure.
PrepFail(w) ==
    /\ pc[w] \in {"copy", "generate", "manifest"}
    /\ \/ pc[w] = "generate" /\ Ports \subseteq leased[CommandOf(w)] /\ UNCHANGED faults
       \/ Fault
    /\ \E left \in {None, Broken, Bare} \cup Remains(ScenarioOf(w)) :
           copy' = [copy EXCEPT ![ScenarioOf(w)] = left]
    /\ GoTo(w, "unlock")
    /\ UNCHANGED <<run, err, todo, command, lock, manifests, made, docker, history>>

\* finish: teardown, unless the environment is to be kept.
Finish(w) == GoTo(w, IF keep[CommandOf(w)] THEN "unlock" ELSE "down")

Validate(w) ==
    /\ pc[w] = "validate"
    /\ GoTo(w, "deploy") \/ Finish(w)
    /\ UNCHANGED <<run, err, todo, command, lock, files, docker, faults, history>>

\* dwe deploy run in the copy brings the stack and the bridge daemon up.
Up(r) ==
    /\ containers' = containers \cup {r}
    /\ volumes' = volumes \cup {r}

DeployUp(w) ==
    /\ pc[w] = "deploy" /\ run[w] \notin bridges
    /\ Up(run[w])
    /\ bridges' = bridges \cup {run[w]}
    /\ UNCHANGED <<pc, run, err, todo, command, lock, files, inflight, faults, history>>

\* It ends well, or it fails, before or after anything came up.
DeployEnds(w) ==
    /\ pc[w] = "deploy"
    /\ \/ run[w] \in bridges /\ GoTo(w, "steps")
       \/ Finish(w)
    /\ UNCHANGED <<run, err, todo, command, lock, files, docker, faults, history>>

\* It lost the port to somebody: one more attempt with a fresh one.
DeployRetry(w) ==
    /\ pc[w] = "deploy" /\ ~retried[w] /\ Fault
    /\ retried' = [retried EXCEPT ![w] = TRUE]
    /\ \E p \in Ports : AllocatePorts(w, p)
    /\ UNCHANGED <<job, pc, run, err, todo, keep, lock, files, docker, history>>

\* The deadline or Ctrl+C: exec.CommandContext kills dwe deploy run, or the
\* shell of a step (builtin/shell.go:91), and a docker command that it had
\* under way is left behind.
Cut(w) ==
    /\ pc[w] \in {"deploy", "steps"} /\ Fault
    /\ inflight' = inflight \cup {run[w]}
    /\ Finish(w)
    /\ UNCHANGED <<run, err, todo, command, lock, files, containers, volumes, bridges,
                   history>>

\* runSteps in this process: they pass, fail or are cut between two commands,
\* and then they are over.
Steps(w) ==
    /\ pc[w] = "steps"
    /\ Finish(w)
    /\ UNCHANGED <<run, err, todo, command, lock, files, docker, faults, history>>

\* The docker command that lost its parent ends, its work done or not.
Straggler(r) ==
    /\ r \in inflight
    /\ inflight' = inflight \ {r}
    /\ Up(r) \/ UNCHANGED <<containers, volumes>>
    /\ UNCHANGED <<pc, run, err, todo, command, lock, files, bridges, faults, history>>

-----------------------------------------------------------------------------
(* Teardown, for a worker and for a cleaner: every step is best effort *)

\* loadCopyConfig, and the identity that docker compose takes from the copy.
Loads(s)    == copy[s] \notin {None, Broken}
Identity(s) == IF copy[s] = Bare THEN Dev ELSE copy[s]

\* Mutant: a failed step is logged and forgotten.
StepForgotten(a) ==
    /\ Fault
    /\ UNCHANGED err
    /\ Note(run[a], "failed")

\* A step of the teardown fails: it is remembered, and the next one follows.
StepFails(a) ==
    /\ Fault
    /\ err' = [err EXCEPT ![a] = TRUE]
    /\ Note(run[a], "failed")

\* composeDownReal works in the copy, and is skipped when that does not load.
ComposeDown(a) ==
    LET s == Of(run[a]) IN
    /\ pc[a] = "down"
    /\ \/ /\ containers' = IF Loads(s) THEN containers \ {Identity(s)} ELSE containers
          /\ UNCHANGED <<err, faults, notes>>
       \/ Loads(s) /\ StepFails(a) /\ UNCHANGED containers
    /\ GoTo(a, "reap")
    /\ UNCHANGED <<run, command, lock, files, volumes, bridges, inflight, cleaner>>

\* reapContainersReal goes by the label of the manifest's compose project.
ReapContainers(a) ==
    /\ pc[a] = "reap"
    /\ \/ /\ containers' = containers \ {run[a]}
          /\ IF run[a] \in inflight THEN Note(run[a], "inflight") ELSE UNCHANGED notes
          /\ UNCHANGED <<err, faults>>
       \/ StepFails(a) /\ UNCHANGED containers
    /\ GoTo(a, "volumes")
    /\ UNCHANGED <<run, command, lock, files, volumes, bridges, inflight, cleaner>>

\* removeVolumesReal: only a failed listing is an error.  A volume that cannot
\* be removed, because a container uses it or otherwise, is not mentioned.
RemoveVolumes(a) ==
    LET r == run[a] IN
    /\ pc[a] = "volumes"
    /\ \/ /\ r \notin volumes \/ r \notin containers
          /\ volumes' = volumes \ {r}
          /\ UNCHANGED <<err, faults, notes>>
       \/ /\ r \in volumes
          /\ IF r \in containers THEN UNCHANGED faults ELSE Fault
          /\ Note(r, "volume")
          /\ UNCHANGED <<err, volumes>>
       \/ StepFails(a) /\ UNCHANGED volumes
    /\ GoTo(a, "bridge")
    /\ UNCHANGED <<run, command, lock, files, containers, bridges, inflight, cleaner>>

\* stopBridgeReal: the daemon whose PID is in the copy.
StopBridge(a) ==
    /\ pc[a] = "bridge"
    /\ \/ bridges' = bridges \ {copy[Of(run[a])]} /\ UNCHANGED <<err, faults, notes>>
       \/ StepFails(a) /\ UNCHANGED bridges
    /\ GoTo(a, "rmcopy")
    /\ UNCHANGED <<run, command, lock, files, containers, volumes, inflight, cleaner>>

\* A removal hits the copy of another run, or it is cut short.
Strangers(a)  == {<<r, "stale">> : r \in {copy[Of(run[a])]} \cap (Runs \ {run[a]})}
NotesOfCut(a) == {<<run[a], "cut">>} \cup Strangers(a)

RemoveCopy(a) ==
    LET s == Of(run[a]) IN
    /\ pc[a] = "rmcopy"
    /\ \/ /\ copy' = [copy EXCEPT ![s] = None]
          /\ notes' = notes \cup Strangers(a)
          /\ UNCHANGED <<err, faults>>
       \/ /\ Fault
          /\ \E left \in Remains(s) : copy' = [copy EXCEPT ![s] = left]
          /\ err' = [err EXCEPT ![a] = TRUE]
          /\ notes' = notes \cup {<<run[a], "failed">>} \cup NotesOfCut(a)
    /\ GoTo(a, "delete")
    /\ UNCHANGED <<run, command, lock, manifests, made, docker, cleaner>>

\* DeleteManifest; clean then reports the run as swept or as failed.
DeleteManifest(a) ==
    /\ pc[a] = "delete"
    /\ \/ manifests' = manifests \ {run[a]} /\ UNCHANGED <<err, faults, notes>>
       \/ StepFails(a) /\ UNCHANGED manifests
    /\ GoTo(a, "unlock")
    /\ UNCHANGED <<run, command, lock, copy, made, docker, cleaner>>

Release(a) ==
    /\ pc[a] = "unlock"
    /\ Forget({a}, IF a \in Workers THEN "idle" ELSE "pick")
    /\ UNCHANGED <<todo, files, docker, faults, notes>>

-----------------------------------------------------------------------------
(* dwe test clean *)

\* Clean: the manifests of the scenarios named, as they are now.
ListManifests(c, named) ==
    /\ pc[c] = "idle"
    /\ todo' = [todo EXCEPT ![c] = {r \in manifests : Of(r) \in named}]
    /\ GoTo(c, "pick")
    /\ UNCHANGED <<run, err, command, lock, files, docker, faults, history>>

\* Mutant: a manifest is taken on its word.
ValidAlways(r) == TRUE

\* validateManifestIdentity: a copy that loads must carry the run's identity.
Valid(r) == Loads(Of(r)) => copy[Of(r)] = r

\* The next manifest, looked at before the flock is asked for.
ValidateManifest(c) ==
    /\ pc[c] = "pick"
    /\ \E r \in todo[c] :
        /\ todo' = [todo EXCEPT ![c] = @ \ {r}]
        /\ IF Valid(r)
           THEN GoTo(c, "lock") /\ run' = [run EXCEPT ![c] = r]
           ELSE UNCHANGED <<pc, run>>
    /\ UNCHANGED <<err, command, lock, files, docker, faults, history>>

\* The flock is held: the scenario is live.
SkipLive(c) ==
    /\ pc[c] = "lock" /\ lock[Of(run[c])] # Nobody
    /\ Forget({c}, "pick")
    /\ UNCHANGED <<todo, files, docker, faults, notes>>

Sweep(c) ==
    /\ pc[c] = "lock" /\ lock[Of(run[c])] = Nobody
    /\ lock' = [lock EXCEPT ![Of(run[c])] = c]
    /\ stale' = [stale EXCEPT ![c] = run[c] \notin manifests \/ ~Valid(run[c])]
    /\ GoTo(c, "down")
    /\ UNCHANGED <<run, err, todo, command, files, docker, faults, notes>>

CleanEnds(c) ==
    /\ pc[c] = "pick" /\ todo[c] = {}
    /\ GoTo(c, "idle")
    /\ UNCHANGED <<run, err, todo, command, lock, files, docker, faults, history>>

-----------------------------------------------------------------------------
(* Processes are killed *)

\* The flocks of the dead are free.  A copy that was being made or removed
\* stays as it is, and a docker command goes on alone.
Kill(gone) ==
    LET at(phase)  == {lock[s] : s \in {x \in Scenarios : lock[x] \in gone}} \cap
                      {a \in gone : pc[a] = phase}
        fate(s)    == CASE lock[s] \in at("copy")   -> {None, Broken, Bare}
                        [] lock[s] \in at("rmcopy") -> Remains(s)
                        [] OTHER                    -> {copy[s]}
    IN
    /\ Fault
    /\ Forget(gone, "idle")
    /\ \E left \in [Scenarios -> {None, Broken, Bare} \cup Runs] :
        /\ \A s \in Scenarios : left[s] \in fate(s)
        /\ copy' = left
    /\ notes' = notes \cup UNION {NotesOfCut(a) : a \in at("rmcopy")}
    /\ inflight' = inflight \cup {run[a] : a \in at("deploy") \cup at("steps")}
    /\ todo' = [c \in Cleaners |-> IF c \in gone THEN {} ELSE todo[c]]
    /\ UNCHANGED <<manifests, made, containers, volumes, bridges>>

KillCommand(c) == WorkersOf(c) # {} /\ Kill(WorkersOf(c))
KillCleaner(c) == pc[c] # "idle" /\ Kill({c})

TeardownStep(a) ==
    \/ ComposeDown(a) \/ ReapContainers(a) \/ RemoveVolumes(a) \/ StopBridge(a)
    \/ RemoveCopy(a) \/ DeleteManifest(a) \/ Release(a)

WorkerStep(w) ==
    \/ Refuse(w) \/ Acquire(w) \/ CopyTree(w) \/ Generate(w) \/ WriteManifest(w) \/ PrepFail(w)
    \/ Validate(w) \/ DeployUp(w) \/ DeployEnds(w) \/ DeployRetry(w) \/ Cut(w) \/ Steps(w)
    \/ TeardownStep(w)

CleanerStep(c) ==
    \/ ValidateManifest(c) \/ SkipLive(c) \/ Sweep(c) \/ CleanEnds(c) \/ TeardownStep(c)

Next ==
    \/ \E c \in Commands : StartCommand(c) \/ KillCommand(c)
    \/ \E w \in Workers : WorkerStep(w)
    \/ \E r \in Runs : Straggler(r)
    \/ \E c \in Cleaners : CleanerStep(c) \/ KillCleaner(c)
    \/ \E c \in Cleaners, named \in SUBSET Scenarios : ListManifests(c, named)

Spec == Init /\ [][Next]_vars

-----------------------------------------------------------------------------
(* Properties *)

TypeOK ==
    /\ job \in [Workers -> (Commands \X Scenarios) \cup {Nobody}]
    /\ pc \in [Actors -> Phases]
    /\ run \in [Actors -> Runs \cup {Nobody}]
    /\ err \in [Actors -> BOOLEAN]
    /\ todo \in [Cleaners -> SUBSET Runs]
    /\ keep \in [Commands -> BOOLEAN]
    /\ retried \in [Workers -> BOOLEAN]
    /\ port \in [Workers -> Ports \cup {NoPort}]
    /\ leased \in [Commands -> SUBSET Ports]
    /\ lock \in [Scenarios -> Actors \cup {Nobody}]
    /\ made \in 0 .. MaxRuns
    /\ manifests \subseteq Runs /\ volumes \subseteq Runs
    /\ bridges \subseteq Runs /\ inflight \subseteq Runs
    /\ containers \subseteq Runs \cup {Dev}
    /\ copy \in [Scenarios -> Runs \cup {None, Broken, Bare}]
    /\ faults \in 0 .. MaxFaults
    /\ stale \in [Cleaners -> BOOLEAN]
    /\ notes \subseteq Runs \X Kinds

Noted(r, kind) == <<r, kind>> \in notes

\* Whatever a run has left in docker or on the host has a manifest to find it
\* by, at every moment and whatever is killed.  Without one there are only the
\* things of a teardown that could not remove them: a step failed, a volume
\* stayed, or a docker command that had lost its parent came after it.
ResourcesRecorded ==
    \A r \in Runs \ manifests :
        /\ r \in containers => Noted(r, "failed") \/ Noted(r, "inflight")
        /\ r \in volumes => Noted(r, "failed") \/ Noted(r, "inflight") \/ Noted(r, "volume")
        /\ r \in bridges => Noted(r, "failed") \/ Noted(r, "stale")

\* A scenario has one environment: while a run has its manifest there is no
\* other one, and the copy is its own until its containers have gone, which is
\* what docker compose down needs it for.  The exceptions are a step of the
\* teardown that failed, a docker command without a parent, and a removal
\* that was cut short or belongs to a sweep that got its flock too late.
OneEnvironment ==
    \A r \in manifests :
        /\ \A q \in manifests : Of(q) = Of(r) => q = r
        /\ \/ copy[Of(r)] = r
           \/ copy[Of(r)] = Bare /\ (Noted(r, "cut") \/ Noted(r, "stale"))
           \/ /\ copy[Of(r)] \in {None, Broken}
              /\ r \in containers => \E kind \in {"failed", "inflight", "stale"} : Noted(r, kind)

\* Containers go in the teardown of their own run, and those of the working
\* environment never go, not even when a sweep works in a copy that has lost
\* its identity: the check before the flock keeps it out.  A sweep that the
\* check no longer holds for when it gets the flock is the exception.
OnlyOwnTeardown ==
    [][\A p \in containers \ containers' :
          \E a \in Actors : /\ pc[a] \in {"down", "reap"}
                            /\ run[a] = p \/ (a \in Cleaners /\ stale[a])]_vars

\* The scenarios that one dwe test run works on at the same time never hold
\* the same host port, not even after one of them was given a second port.
PortsApart ==
    \A v, w \in Workers :
        v # w /\ port[v] # NoPort /\ port[w] = port[v] => CommandOf(v) # CommandOf(w)

\* What clean reports as swept is gone: the manifest, the copy, the daemon and
\* the containers.  What may be left are volumes, whose failed removal it is
\* not told of (clean.go:50 and tests.md:354 would have such a run reported as
\* failed), and what a docker command without a parent creates.
SweptMeansGone ==
    \A c \in Cleaners : LET r == run[c] IN
        pc[c] = "unlock" /\ ~err[c] =>
            /\ r \notin manifests /\ copy[Of(r)] = None
            /\ r \in bridges => Noted(r, "failed") \/ Noted(r, "stale")
            /\ r \in containers => Noted(r, "inflight")
            /\ r \in volumes => Noted(r, "inflight") \/ Noted(r, "volume")
=============================================================================
