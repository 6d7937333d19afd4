# TLA+ verification of dwe

`dwe` brings up a development workspace of docker-compose services from YAML: it
deploys them with pipelines whose progress is journaled, toggles them, takes and
restores snapshots, runs disposable test environments, and lets containers call
host commands through a bridge daemon.  This directory holds TLA+ modules for
the parts of it where several processes, crashes or long sequences of commands
matter, TLC configurations that check them on small instances, and TLAPS proofs.

Paths below are relative to `src/internal/`.

## 1. Inventory

| Component | State | Operations | Hard behaviour | What makes it correct |
|---|---|---|---|---|
| project locks (`shared/lock`) | flocks on `deploy.lock` and `snapshot.lock`, a PID in each file | `Acquire`, `Release`, `AcquireProjectLocks` | races of losers with the winner over the PID; kills; PID reuse; the second lock refused | exclusion, no leaked lock, one order of locks, no waiting |
| deploy journal (`core/workflow/deploy/journal`) | `state.yml`: status, hash, last run, step records per service and project; pending operations | `Load`, `Save`, `Decide`, `Recompute`, hashing, pending add/clear/replace | records of several kinds of runs under several configurations | a record means that the work was done |
| deploy run (`cli/deploy`) | locals of `RunHelper` | gates, skip decider, exit, clearing of pending operations, `state clear`, `state repair` | edits between and during runs, prompts, `--force`, `--resume`, crashes | the gate and the exit code tell the truth; a killed deploy can be resumed |
| executor and recorder (`core/execution/pipeline`) | the step loop, the recorder's copy of the journal | conditions, files gates, checks, steps, flushes; parallel groups | a crash at any step, a failed write, an error outside a step's body | every outcome reaches the journal in time |
| deploy plan and order (`core/workflow/deploy`) | none | `ResolvePlan`, service plans, `TopoSortByAfter` | cycles, optional services, dropped edges | a service comes after what it needs |
| service toggles (`cli/service`) | `local.yml`, `.env`, pending operations | mutate, plan, apply, roll back | facts read before the lock, apply and clear in different locked sections | what was toggled is applied or stays pending |
| lifecycle (`cli/lifecycle`, `core/workflow/lifecycle`) | containers, pending restart | run, stop, restart, reset | a reset that fails half-way | the journal does not claim what was torn down |
| bridge daemon (`core/bridge`, `cli/bridge`) | flock and PID of `daemon.pid`, `host.sock`, the port file | `Ensure`, `Cycle`, `StopDaemon`, `ProbeDaemon`; start, auto-stop, close | probes that look like daemons, a daemon that is closing, SIGTERM to a PID read earlier | one daemon, its own endpoints, a daemon when one was asked for |
| bridge session (`core/bridge/session.go`, `shared/bridgeclient`) | a connection, a subprocess, the pipes between | frames, signals, output, termination | a lost connection, a blocked stdin, SIGTERM then SIGKILL | every session ends and its process with it; the exit code comes with all the output |
| snapshots (`core/workflow/snapshot`) | snapshot directories, manifests, `current`, the captured and the live workspace files | create, restore, remove, pack, unpack | a crash or a failed write between the steps | a good snapshot is never lost, a restore brings back what was captured, its backup holds what was there before |
| environment tests (`core/workflow/envtest`) | copies, port leases, manifests of runs, containers and volumes | run, teardown, clean | parallel scenarios, leftovers of killed runs | whatever is left is on record, no port twice, nobody tears down another's run |
| user commands (`core/usercommands`) | a workflow's steps | sequential and parallel steps | cancellation in a parallel group | the outcome of the group is that of its steps |
| secrets and key gate (`cli/secrets`, `core/workflow/keygate`, `shared/secrets`) | the committed recipient, markers and `*.age` files, keyfiles of the machine | set, encrypt, init, rekey, import, remove, get | a rekey killed half-way, decisions before the locks, readers without locks | no value is lost, a broken rekey can be finished |
| configuration, validation, wizard, docker, UI | files, terminal | load, merge, check, render | none between processes | sequential functions, tested in the repository |

How they interact.  Every command that writes project state takes the project
locks first and gives up when they are held, so the journal, `local.yml` and the
snapshots have one writer at a time; they are still read before the locks are
taken in several commands.  A deploy decides from the journal and the hashes of
the configuration, runs the pipeline, and the recorder writes the journal after
every step.  Toggles, resets and lifecycle commands share the journal's pending
operations with the deploy.  `dwe status`, run, deploy, stop and reset call into
the bridge package, which knows nothing of the project locks: the flock on
`daemon.pid` is its only synchronisation.

## 2. Plan

1. **ProjectLocks** with **ExclusiveSection** as its abstract specification: all
   other modules rest on it. *Done; proved, and found again below the locks of
   ServiceToggle and Secrets.*
2. **Journal** and **DeployRun**: the journal as a value, deploy runs over it.
   *Done; proved, some of it under hypotheses on the environment.*
3. **BridgeDaemon**. *Done; proved.*
4. **ServiceToggle**: toggle, apply and clear against deploys and restarts of
   other sessions, on `Journal`'s pending operations. *Done; proved, what is owed where
   no run is forced.*
5. **Snapshot**: create, restore, remove, pack and unpack against kills and failed
   writes. *Done; proved.*
6. **ParallelGroup**: the error group of a parallel step with `max_concurrent`
   and `fail_fast`, and the shared recorder. *Done; safety proved.*
7. **BridgeSession**: one session, its client and its command. *Done; safety proved.*
8. **EnvTest**: test runs, their teardown and `test clean`. *Done; proved.*
9. **Secrets**: the recipient, the sealed values and the keyfiles. *Done; proved.*
10. **DeployOrder**: `TopoSortByAfter` against a reference definition over every
    small graph, with recursive functions. *Left.*

Every safety property that a run checks is stated by a theorem, under hypotheses that
the run's configuration satisfies (section 6).

## 3. Modules

### ProjectLocks (and ExclusiveSection)

One action per system call of `lock.Acquire` (`shared/lock/lock.go`): the
non-blocking flock (`Flock`, first and second attempt), the read of the PID
(`ReadPid`), `kill(pid, 0)` (`ProbePid`), the truncation of a file believed stale
(`CleanStale`), the truncation and the write of one's own PID (`TruncatePid`,
`WritePid`), an I/O error in `finalizeAcquire` (`AcquireError`) and the final
report.  `AcquireProjectLocks` is the sequence over `deploy` and `snapshot` with
the release of the first when the second fails (`GiveUp`); `deploy state clear`
and `repair` take the deploy lock only (`op = "state"`).  The kernel is external:
`Crash` may hit any live process, its flocks go one by one (`KernelClose`) and
only then is its PID dead (`Reap`); `Spawn` reuses a PID.

`ExclusiveSection` says what the locks promise: one owner or none, entered when
free, left at any time.  `ProjectLocks` implements it with
`owner <- the process past Acquire`.

### Journal

`state.yml` as a record: for the project and each service a status, the hash of
the configuration it was deployed with and its last run; per step its status and
action hash; the pending operations.  Operators are the package's functions:
`Recompute`, `Skippable` (`Decide`), `AddPending`, `ClearPendingServices`,
`ReplaceServiceWithPending`.  Hashes are injective: what is hashed stands for
its hash.  `Records` and `Journals` are the sets of what such a record may be.
`ConfigHash` keeps the two levels apart (service: own files and
`vars`; project: everything), because several properties turn on the difference.

### DeployRun (with MCDeployRun)

One deploy process from `RunHelper`'s gates to its exit, one action per step
outcome: skipped by `when:` (`SkipWhen`), by the journal (`SkipState`), by a files
gate (`SkipGate`); errors of a condition or gate (`WhenError`, `GateError`); the
start of a body with the recorder's mark (`StartBody`), its success or failure
(`BodyOk`, `BodyFail`, with `continue_on_error`); the end of the pipeline with the
stamping of statuses and hashes and the last flush (`PipelineFinish`), and
`ClearDeployedPending`.  `run.mem` is the recorder's copy of the journal, `disk`
the file; every flush may fail under `"save_error"`.  The plan of the whole project
is the sequence `FullPlan`; that of a service run is a subset of its steps in the
same order, so a run keeps its place in `FullPlan` (`run.idx`, `NextPlace`).
`DeployAssumption` says what the planner guarantees: no step occurs twice and the
steps of a service follow one another (`service_plan.go:89-99`, `plan.go:40-52`,
`pipeline/resolve.go:43`).  `RunHelper` computes the
gates as the code does for a full run, one service and several, and for plain,
`--resume`, `--force` and interactive calls (a user picks any answer of a prompt).

The environment is the constant `Env`, so that a run combines only what it asks
about: `"crash"`, `"fail"`, `"save_error"`, `"gate_error"`, `"when_error"`,
`"condition"` (what a `when:` looks at changes), `"service_run"`, `"force"`,
`"reset"`, `"torn_reset"`, `"repair"`, `"clear"`; `Editable` names the files a
user edits, at any time, also during a run (the deploy works from the
configuration it loaded, `run.cfg`).  One deploy at a time: that is
`MutualExclusion` of ProjectLocks.

Two ghosts: `done` says what each step's body achieved and under which
configuration (`never`, `torn` while or after it was interrupted, `done`);
`settled` whether anything happened since the last successful full deploy.
The code never reads them; the properties compare the journal with them.

### ServiceToggle (with MCServiceToggle)

Terminals that each run one command at a time over `local.yml` (`enabled`) and
`state.yml` (`disk`): a toggle of one or several services (`cli/service`), a
deploy, run, stop, restart and the reset of a service.  `pc` and `loc` are where a
command is and its locals; `lock` is the owner that `ExclusiveSection` promises,
and a locked section nobody can look into is one action.  What matters is what is
read before the locks: the direction, the deployed services and "was anything
ever deployed" of a toggle (`BeginToggle`), the configuration of a deploy and of a
run (`BeginDeploy`, `LoadForRun`).  `WriteLocal` writes the toggled keys,
`CommitToggle` adds the pending operations, `RollBack` restores the captured file;
an apply then goes through its steps (`left`), each under locks of its own, and
`ClearApplied` takes them once more.  `LoadUnlocked` and `SaveUnlocked` are the last
clear of a restart, which has no lock.  Which services a toggle, deploy or reset
names is the constant `Commands`; `Requires` is `on_enable`/`on_disable.requires`.

The steps of a deploy are DeployRun's subject; here it succeeds, fails with some
services deployed, or answers that it is up to date.  `.env` is derived from the
configuration and left out.

The ghosts: `wanted` is what the successful toggles made of `local.yml`.  `owed`
says of every service which deploy and restart a toggle or reset left to be done.
The code loses some of that work (section 7), so it is `raced`, and claims
nothing, when at that moment another session is past its last look at the
configuration or journal and about to clear (`PastRestart`, `PastDeploy`).
Everything else that is owed must be pending.

### BridgeDaemon (with MCBridgeDaemon)

Commands run `Ensure`, `Cycle`, `StopDaemon` or `ProbeDaemon`
(`core/bridge/ensure.go`), daemons run `runDaemon` (`cli/bridge/daemon.go`) with
`Start` and `Close` (`core/bridge/daemon.go`), all over the flock and the PID of
`daemon.pid`, the unix socket and the port file.  `lock.Acquire` appears again,
with the truncation and the write of the PID in one step, because the two-step
window is ProjectLocks' subject.  A command that finds the flock free holds it
with its own PID in the file until it has removed the endpoints or seen that
there is no daemon.  `phase` is the call a command is in; `Cycle` goes `cycle`,
`wait`, `ensure`.  When containers run is not modelled: `CloseListeners`, the
return of `RunAutoStop`, may come at any time.  SIGTERM is delivered before
kill(2) returns; a process that does not handle it ends (a deploy in its
pipeline cancels it and ends, too).  SIGKILL may hit anybody, a daemon may fail
to start.  The PID file exists from the start: before the very first daemon,
`ProbeDaemon` answers from its absence and takes no lock.

The ghosts `answer` and `void` follow what an answer of `Ensure` is worth:
`sound` when no stop, status or daemon's end came in between, `claimed` when only
a status, a stop or an older daemon's last moments did, `none` after something
that ends daemons.

### Snapshot (with MCSnapshot)

The directories under the snapshots root (`dirs`: what is captured, a manifest or
none, its status), the pointer `current`, the staging and set-aside names that
`create`, `restore` and `unpack` use, and the live project (`local.yml`, the journal,
the data).  `create` sets an existing snapshot aside, captures and writes the
manifest, `restore` takes a backup first and then replaces the live files one by
one, `unpack` is three renames and a manifest, `remove` deletes the directory and
then the pointer.  One command runs at a time (the project locks); every step may
be the last one of a killed process or fail.  What a service holds and the archive
format are abstracted to versions.  Ghosts: what the project was when a snapshot or
a backup was begun.

### ParallelGroup

The goroutines of one parallel step, for pipelines (`kind = "pipeline"`,
`core/execution/pipeline/executor.go`) and for workflows
(`core/usercommands/runtime/runners/workflow/parallel.go`): the slots of
`max_concurrent`, `fail_fast` or not, lenient sub-steps, the shared context that a
failure or SIGINT cancels, the bodies that are stopped by SIGTERM and then killed,
`Wait`, and the recorder, whose records every sub-step writes under one mutex.
Several runs follow one another over one journal, so that a resumed group skips
what is recorded.

### BridgeSession

A shim in a container (`shared/bridgeclient`), the connection with bounded room in
both directions, a session of the daemon (`core/bridge/session.go`) with the
goroutines that pump the connection, stdin, stdout and stderr, watch for the
container's end and wait for the process, and the command.  Frames are HELLO, STDIN,
EOF, SIGNAL and OUT, EXIT; the payload is counted, not modelled.  The connection may
be cut, the container, the command and the daemon may be killed, and `Close` of the
daemon may begin at any time.

### EnvTest (with MCEnvTest)

Workers of several `dwe test run` commands and a `test clean`, over the directories
of the scenarios' copies, the per-run lock, the manifests, the ports leased inside
one process, and docker (containers, volumes, a bridge daemon per run).  `job` is
what a worker is at: from the guard and the flock through the copy, the ports, the
generated files, the manifest and `dwe deploy run` as a subprocess to the steps of
the teardown, each of which may fail.  The clean validates a manifest, takes the
flock and tears the run down from what the manifest records.  Kills, failures, a
deadline that cuts the deploy or a step and a lost port that makes the deploy retry
are the faults; they are counted together.  A docker command whose parent was killed,
by a signal or by the deadline, may go on (`Straggler`).

### Secrets (with MCSecrets)

Shells that run the commands of `cli/secrets` over the committed `recipient`, the
ciphertext at each place (`stored`: layers and `*.age` files), the keyfiles and an
identity in the environment.  `Begin...` is what a command reads and decides
before the locks, `Acquire` the locks, which refuse a second command, and then one
action per write: the marker or the recipient (one rename), an output file
(truncated, then filled), a keyfile (created exclusively, then written), each
rewritten place of a rekey.  `init --replace-recipient` and `rekey` draw a fresh key
pair; `key remove` runs in the project or outside of it, where it has neither
guard nor locks; `get` and `decrypt` read the recipient, the value and the
identities at three moments.  A layer file stands for one of its markers: they are
all rewritten by one rename.  Initially the identity may be installed, in a file of
another name, only in the environment, or nowhere, its keyfile damaged or another
project's.

Ghosts: `mine` (key pairs this machine has had), `givenUp` (keyfiles removed with
the user's confirmation), `latest` (the plaintext last put at a place), `orphans`
(places a replaced recipient left behind), `unfinished` (a rekey broke off and none
has completed since).

## 4. Runs

| Run | Instance | Shows |
|---|---|---|
| `ProjectLocks` | 2 processes | exclusion, no leak, refinement of the exclusive section, and that nobody is stuck: attempts end and kills free the locks |
| `DeployRunCrash` | 2 services, 5 steps, `up` with a check | under kills, failures, partial runs, resets and repairs every skip, gate answer, `deployed` and exit 0 is backed by executed steps; crash marks are on disk |
| `DeployRunEdit` | 4 steps, a service's files and the plan edited, one templated step | the hashes keep skips and gate honest, with prompts, `--force`, resets, repairs and clears; once these stop, `--resume` leads to a deployed project |
| `DeployRunSaves` | 4 steps: conditional, producer gate, lenient | kills, flushes that fail, changing conditions, gate errors: exit 0 is true, a settled project is not deployed again, and once the mishaps stop `--resume` brings every step to a good record |
| `ServiceToggle` | 2 services, 2 terminals: one toggles, the other toggles, deploys, runs, restarts and resets | `local.yml` is the sum of the successful toggles; the deploys and restarts that toggles and resets owe are pending until done, but for the races of section 7 |
| `BridgeDaemon` | 2 commands, 2 daemons, all jobs and faults | one daemon on its own endpoints, clean hand-over, racing Ensures leave a daemon |
| `Snapshot` | 2 names, 3 commands, 2 faults | a good snapshot survives whatever fails, a capture is the project at one moment, a restore brings it back, its backup holds what was there, `current` points at something |
| `ParallelGroup` | 3 sub-steps, 2 slots, one lenient, 2 runs, both kinds | records and outcomes agree with what ran, success means all of it, a cancelled group ends |
| `BridgeSession` | 2 units of input, 1 of output, 1 signal | exit code after all output, "not running" only if nothing ran, no end of input the shim did not send, close leaves nothing; shims return; only a full stdin keeps a command whose container is gone, and a close waits for such a command or for a client that is still there |
| `BridgeSessionFull` | the same | a violation: the command that `session.go:148` says is ended when its container dies is not, when its stdin is full (section 7) |
| `EnvTest` | 2 workers, 2 commands, 2 scenarios, 1 clean, 2 ports, 2 runs, 2 faults | what a run leaves is on record, one environment per scenario, ports apart, what is reported as swept is gone, only one's own run is torn down |
| `Secrets` | 2 shells, 3 key pairs, 2 layers, 1 file, 3 commands, 1 fault | the committed recipient's identity is installed, no value is lost or rolled back, one recipient for all values but during and after a broken rekey, which can be finished; readers open everything |

`JournalSound` of DeployRun is a conjunction: `SkipSound`, `UpToDateSound`,
`OkMeansDeployed` and `ServiceCrashVisible`.  The runs check what a step of several
actors could break; the type invariant `TypeOK` of a module is in none.  It holds on
the same instances and is there to be checked first when a module is changed; where a
module has proofs, it is part of the invariant proved.

Bounds, and why they are enough.  *ProjectLocks*: an interference needs a holder
and a loser; two PIDs are reused without limit.  Section 6 lists what the proofs say
for every value of the constants; there a bound matters to the runs only.  *DeployRun*: two services with `after:` between them, one of two
steps, so that a crash falls between two steps of a service, between services
and at the first and last step; `up` belongs to the project and its check keeps
the early gate of full runs shut in `DeployRunCrash`, where the gate after a kill is
asked for services only: for full runs the code's answer is wrong there (section 7).
`DeployRunEdit` asks it on a plan without a check, under edits instead of kills.  Two versions of a file give edit and revert, the case a hash can get
wrong; more versions only add more distinct hashes.  The number of deploys,
crashes and edits is unbounded: the state space is finite because the journal
has no counters.  *ServiceToggle*: two services, one that is enabled by a deploy
or a restart and disabled by a restart and one that is enabled by a deploy, give every kind of
plan (none, restart, deploy, both); the commands repeat without limit.  Two
terminals are enough for every pairing of two commands, and each race here is
between two.  `deploy run --force` is in the module and not in the run (section 7).
*BridgeDaemon*: two of each, so that two Ensures race with two
spawned daemons while one of the commands may be a stop, a cycle or a status;
processes come back under their PIDs.  Commands and daemons are interchangeable,
so the safety run uses their symmetry.  *Snapshot*: one name to work on and one to
confuse it with, one version of the project before and one after (`MaxWork`); three
commands are a create, a restore and a retry.  *ParallelGroup*: more sub-steps than
slots, so that one waits while others run, fail or are cancelled.  *BridgeSession*:
a pipe with room for one and a network buffer with room for two, against two units
of input and frames in either direction, so that every writer can be blocked: the
command and the output pumps, the shim, and the reader of the connection in the write
to a full stdin.
*EnvTest*: two workers in one scenario or in two, two faults so that a teardown
that follows a fault may itself be cut; symmetry of all sets, hence no liveness.
*Secrets*: two shells are every pairing of a decision before the locks with a
command that runs in between; three commands are a broken rekey, its repetition
and something that races with either; a rekey has at least four writes to break
off between; every set is symmetric but the two layers, one of which commits the
recipient.  Four commands over four key pairs pass as well and take longer than a
run should.

## 5. Fairness

*ProjectLocks*: weak fairness of the system calls of `Acquire`, of the release of
a lock on the way out of a failed acquisition, and of the kernel closing a dead
process's files.  Nothing obliges a command to begin, to leave its critical
section or to exit: a deploy runs user code, and `state clear` waits at a prompt.
*DeployRun*: weak fairness of the running process (`Progress`: the bodies of steps
end) and of somebody calling `dwe deploy run --resume` while no deploy runs;
`Resumes` and `ResumePicksUp` assume that failures, edits and resets, kills and
failed writes, stop at some time: nobody promises more of a deploy that is disturbed
for ever.  *ParallelGroup*: weak fairness of the main goroutine and of each sub-step's, and of
a body that is being stopped: SIGTERM is followed by a kill (`WaitDelay`).  A body
that nobody cancels may run for ever.  *BridgeSession*: weak fairness of the
goroutines of the session and of the shim, of the escalation from SIGTERM to
SIGKILL and of the kernel's delivery; a command need never end by itself.
Nothing else is fair, and there is no assumption about ServiceToggle,
BridgeDaemon, Snapshot, EnvTest and Secrets.

## 6. Proofs

Each proof module extends the module it is about and proves its theorems for every
value of the constants that the named assumption of that module admits (that sets of
names are disjoint, that bounds are natural numbers), whatever the runs' instances
are.  The pattern is the same everywhere: the properties are not inductive, because
whether a step is safe depends on what the places of all processes say of the
shared state; an invariant `Inv` adds that, TLC has checked it on the module's run,
one lemma per action shows that it is kept, and the theorems follow from it.

| Module | Theorem | Property |
|---|---|---|
| `ProjectLocksProofs` | `TypeCorrect` | `TypeOK` (in no run) |
| | `Exclusion` | `MutualExclusion` |
| | `NothingLeaks` | `NoLeak` |
| | `DeployFirst` | `SnapshotImpliesDeploy` (in no run) |
| | `Implementation` | `ImplementsSection`, the refinement of ExclusiveSection |
| `DeployRunProofs` | `TypeCorrect` | `TypeOK` (in no run) |
| | `AgainNothing` | `Idempotent` |
| | `ExitZero`, under `Orderly` | `OkMeansDeployed` |
| | `SkipsAreSound`, under `Orderly` | `SkipSound` |
| | `CrashShows`, without `"save_error"` | `ServiceCrashVisible` |
| | `JournalIsSound`, under `FullRunsOnly` | `JournalSound` |
| | `SoundWithKills`, under `NeverQuiet` | `JournalSound` |
| | `ServiceIsDone`, under `EndsRecorded` | `DeployedMeansDone` |
| `BridgeProofs` | `Owned` | `EndpointsOwned` of BridgeDaemon |
| | `SomebodyServes` | `Served` of BridgeDaemon |
| | `BothDirections` | `StreamsWhole` |
| | `NotRun` | `UnreachableNotRun` |
| | `NothingLeft` | `ClosedLeavesNothing` |
| `ServiceToggleProofs` | `TypeCorrect` | `TypeOK` (in no run) |
| | `TogglesAddUp` | `TogglesKept` |
| | `OwedIsPending`, under `NoForce` | `OwedWorkPending` |
| | `LocksAsPromised` | refinement of ExclusiveSection by `lock` |
| `SecretsProofs` | `Installed` | `RecipientInstalled` |
| | `Openable` | `SealedKeysKept` |
| | `UnderOneRecipient` | `OneRecipient` |
| | `NothingBroughtBack` | `LatestValue` |
| | `ReadersOpen` | `ReaderOpens` |
| | `CanBeRunAgain` | `Resumable` |
| | `LocksAsPromised` | refinement of ExclusiveSection by `lock` |
| `ParallelGroupProofs` | `JournalIsTrue` | `JournalTruth` |
| | `OkIsComplete` | `OkMeansComplete` |
| `EnvTestProofs` | `Recorded` | `ResourcesRecorded` |
| | `OneAtATime` | `OneEnvironment` |
| | `OwnPorts` | `PortsApart` |
| | `SweptIsGone` | `SweptMeansGone` |
| | `OnlyItsOwn` | `OnlyOwnTeardown`, an action property |
| `SnapshotProofs` | `Kept` | `GoodSnapshotKept` |
| | `Captured` | `CapturesProject` |
| | `Backup` | `BackupHoldsOriginal` |
| | `RestoredAsStored` | `RoundTrip` |
| | `CurrentThere` | `CurrentIsThere` |

*ProjectLocks.*  For each place in the code the invariant says which locks a process
there has (`inside`: all locks of its operation; acquiring the snapshot lock: the
deploy lock; `truncate` and `write`: also the target; `idle` and `dead`: none), and
that nobody holds another lock.  A flock has one holder because `holder` is a
function, so two processes inside would both be the holder of `deploy`.  The
refinement uses it to show that an entry happens only when the section is free, and
that a killed owner's death, release and exit map to leaving the section or to a
stutter.

*DeployRun.*  `RunInv` says where a run is in the plan, `StampInv` when a journal may
say deployed.  `AgainNothing` needs no hypothesis: `SettledInv` says that as long as
nothing has happened the journal answers for every step it is asked about, and
`TryingInv` says the same of the part of the plan that a run has passed.  The other
theorems say what the journal is worth, and that depends on what happens around it.
The hypotheses name it, and none is idle: TLC finds a counterexample on the runs'
plans when `Env` and `Editable` go beyond them:

* `Orderly`: no reset breaks off half way (section 7); nobody forces a run that can
  leave the file behind, since a forced run overwrites good work before its record
  does; files are edited only where every run is a full one and ends with its
  journal written, because a service's record is believed by its owner's hash and a
  partial run does not renew the others'.  `DeployRunSaves` and `DeployRunCrash`
  satisfy it.
* `FullRunsOnly`: the environment fails bodies, forces, resets, clears and repairs,
  and conditions change, but nobody runs a single service, kills a run or makes a
  write, a gate or a condition fail.  Under edits and service runs, or a kill in a
  plan without a forced step, or a failing condition, "already up-to-date" can be
  wrong (section 7).  `DeployRunEdit` satisfies it.
* `EndsRecorded`: `Orderly`, nothing is edited, and no run stops without a failed
  step on record.  A gate or condition that cannot be evaluated, or a write that
  fails, leaves `deployed` over steps that did not run.  `DeployRunCrash` satisfies it.
* `NeverQuiet`: `EndsRecorded`, conditions do not change, and some step has a check or
  needs a consumed file.  A full run then always has something to ask, and the early
  gate answers for services only.  A condition must not change because its step may
  then run in a service that is still `deployed`, fail and be killed (section 7).
  `DeployRunCrash` satisfies it.

`DiskInv` and `MemInv` carry the argument: a record that the next run will believe
stands for a body that was done under the hash it is stored with, on the disk and in
the recorder's copy.  `KnownInv` carries `SoundWithKills`: a `deployed` service has a
record of every step that the journal alone answers for, so that such a step has its
body run only in a service that is not `deployed`, and a kill in the body leaves no
`deployed` behind for the gate to believe.

*BridgeDaemon.*  Who has the flock and what the endpoints are follows from the places
of the processes (`HolderInv`, `EndpointInv`).  `Served` needs more than safety of
one process: `ReadyInv` says that while an answer is sound, or an `Ensure` relies on
the process that has the flock, somebody holds it or will still ask for it.

The session and the daemon have one proof module, which extends both (their names
differ, from `DaemonSpec` down); they share no variable.

*ServiceToggle.*  `LockInv` says at which two places a command holds the locks from one
step to the next: a toggle between its write of `local.yml` and its commit or
roll-back, and a deploy while it runs.  Hence `ToggleInv`: `local.yml` is what the
finished toggles made it, and ahead by the one in its locked section, which knows what
to go back to; a roll-back cannot take along another's toggle.  `WorkInv` is about
what is going to be written later.  `DeployDebts`: a deploy that is owed is also in
the journal copy that a running deploy or the unlocked clear of a restart will write
back, and an apply that has gone past its deploy leg names no service in its final
clear whose deploy is still owed.  `RestartDebts`: while a restart is owed nobody is
between the last look and the unlocked clear, a deploy's copy has it pending, and a
run about to clear it has loaded the configuration as it is, but for the service that
a toggle is changing at this moment.  This is inductive because a toggle that comes
too late for one of them makes the work `raced`, not owed (section 3).  `LeftInv`
says which legs of an apply are left.  `NoForce`: no terminal runs
`deploy run --force`, which empties the journal with everything that is pending
(section 7); `TogglesAddUp` and the refinement need no hypothesis.

*The locks of ServiceToggle and Secrets.*  Both modules have the project locks as one
variable, the owner.  `LocksAsPromised` shows that they ask no more of it than
`ExclusiveSection`, which `ProjectLocks` implements: a command enters only a free
section and only its owner leaves it, also by being killed.

*Secrets.*  `UseInv`: every key pair that something is sealed to has its identity on
this machine's disk; `FreshInv`: a key pair being made is nobody else's yet;
`PlanInv`: a rekey at work has everything in its plan, as it is on the disk or
rewritten; `ResumeInv`: what a broken rekey left can be opened.  Without
`LockInv`, which gives the locks to whoever writes, `PlanInv` is not inductive: a set
would add a value behind the rekey's back.

*ParallelGroup.*  What is recorded as done was done (`WorkInv`), an error is in the
errgroup or among those collected (`ErrorInv`), and a run whose errors left records
has each of its ended sub-steps done, skipped or failed by name (`RecordInv`), so the
stamp of the service cannot pass over one (`DeployedInv`).

*BridgeSession.*  `OutputInv` counts: what the command wrote is in its pipe, on the
connection or at the shim, and the exit frame is behind it; `InputInv` does the same
for stdin, of which a part may be lost but never before its end.  The counting needs
the cardinality of the places of a frame type in a sequence, for which the module
proves its own lemmas (`CountAppend`, `CountTail` and others); there is no induction.

*EnvTest.*  `PlaceInv` gives the flock of a scenario to the actor at work on a run of
it, so that what it has done cannot be undone behind it: `OwnInv` and `PastInv` say
what its steps have made and removed so far, `RecordInv` that a run without a
manifest is swept but for what its notes excuse, `CopyInv` that one scenario's
manifests are one, and `CleanInv` what a teardown without an error has achieved.  A
clean works from a manifest that it read before the flock; `StaleInv` says that a
sweep that is not outdated works in the copy of its run.

*Snapshot.*  `KeptInv` has the witness: what was last stored under a name is in its
own directory or one that was set aside, and that directory is not the one which the
command at work may still overwrite, erase or take for another name's (`Home`).
`WholeInv` and `AsideInv` say that a directory with an `ok` manifest, at its name or
aside, is whole; `CaptureInv`, `BackupInv` and `RestoreInv` what a create, the backup
and a restore have done at each of their statements.  The proof needs no bound on the
faults, not even for `RoundTrip`: an erased directory that keeps an `ok` manifest is
one whose content is not wanted any more.

Model-checked only: liveness (`NeverStuck`, `Resumes`, `ResumePicksUp`,
`EndsWhenCancelled`, `LostCommandHoldsStdin`, `CloseWaitsForCommands`, `ShimReturns`),
because the prover does not
reason about ENABLED and fairness.  Out of its reach as well are induction over data
and modules with RECURSIVE operators; there are none here.

## 7. Where the code and its documentation differ

Found by a run, `BridgeSessionFull`:

* a session whose command does not read its stdin blocks in the write to the full
  pipe: it delivers no signal and does not notice that the container is dead, so the
  command is not ended, although the comment at `session.go:148-152` promises it
  SIGTERM, the grace window and SIGKILL (`session.go:169`; `LostCommandEnds`).  A
  daemon that closes waits for such a session without a bound (`daemon.go:195`).
  What the code does keep is `LostCommandHoldsStdin` and `CloseWaitsForCommands`.

Seen as counterexamples of a property or a configuration that is not among the
runs; how to see them again is said with each:

* a service killed in progress after its last step was journaled becomes `failed`,
  and no `--resume` ever repairs it: all its steps are skipped by the journal, and
  such a skip does not make the recorder stamp the service
  (`file_recorder.go:248`, against "makes a killed deploy resumable" in
  `docs/reference/concepts/state-and-locks.md:110`).  `Resumes` fails with `"crash"`
  and `"fail"`, or with `"save_error"`, in `Env`; `ResumePicksUp`, which `DeployRunSaves`
  checks with all three, is what is left of it: every step comes to a good record
  and the command exits 0, over a service that may stay `failed`;
* the early gate tests the last run for `failed` only (`deploy.go:722`).  A full run
  killed under edited `vars` is forgotten when the edit is reverted: the answer is
  "already up-to-date" over steps done under other values, though `deploy.go:761`
  speaks of "failed/partial/crashed runs" (`UpToDateSound` with edits and `"crash"`).
  A condition does it without an edit: a step whose condition has become true fails in
  a service that is `deployed`, the run is killed before its end, and `deploy run` of
  the service answers "already up-to-date" (`"crash"`, `"fail"`, `"service_run"` and
  `"condition"` in `Env`, with a conditional step);
* a reset whose pipeline fails or is killed returns before it touches the journal,
  which still says deployed, and the gate passes (`reset.go:260`, `501`;
  `UpToDateSound` with `"reset"` and `"torn_reset"` in `Env`: every reset of the passing
  runs takes the good branch of `ResetEnds`);
* `Ensure` takes a daemon that is closing, and keeps the flock, for one that serves;
  it answers, and no daemon is left (`ensure.go:145`, against `121`;
  `EnsureLeavesDaemon` of BridgeDaemon);
* `StopDaemon` signals the PID it read from the file after a failed flock, which may
  be that of a probing command (`ensure.go:228`, against `240`; `SignalsDaemonsOnly`);
* `init --replace-recipient` scans for readable values before the confirmation and
  the locks and compares only the recipient afterwards: a set, an encrypt or an
  import in between is left behind, and the report does not name it
  (`cli/secrets/init.go:105`, against `84-89`; `ReplaceLosesNothing` of Secrets);
* `key import` and the gate read the recipient before the locks and not again: an
  import that waits for a rekey installs the retired key (`key.go:152`, against
  `165-169`; `keygate.go:146`; `ImportIsCurrent`);
* `key remove` compares with the recipient before the confirmation and the locks: a
  rekey in between commits the very key that is then removed (`key.go:517`, against
  `552`; `RemovalSparesProject`).  Nor does the guard know a rekey that broke off: the
  new key is not the committed one, and is removed without `--force` although
  values are sealed to it.

Met while modelling, and not run:

* a loser's clean-up truncates the PID the winner has just written, and the
  `HeldError` may name a process that does not hold the lock
  (`shared/lock/lock.go:25`, `105`);
* for the same reason a `Cycle` may find an empty `daemon.pid`, signal nobody and
  keep the old daemon;
* an error of a files gate, recorded without a start, leaves the service's last
  run as it was (`file_recorder.go:212`);
* the hook that loads `.env` after render-env does not run when a resumed deploy
  skips render-env (`executor.go:1010`);
* a `when:` is not evaluated when the early gate answers (`decision.go:34-37`
  says always);
* the project's `in_progress` mark reaches the disk with a later flush
  (`file_recorder.go:91`);
* `--force` clears the journal in memory; the file follows with the first flush
  (`deploy.go:811`);
* `repair` recomputes the project's status only (`state.go:194`);
* a service of which all steps were skipped by conditions is `deployed`
  (`file_recorder.go:345`), and so is one whose last condition could not be
  evaluated (`executor.go:563`);
* after `vars` were edited, one service deployed and `vars` reverted, a full run
  skips render-env although `.env` came from the other values;
* `deploy run --force`, of one service too, starts from an empty journal and drops
  the pending operations of all services and the pending restart (`deploy.go:811`);
* the early gate answers "already up-to-date" and clears nothing, so that a pending
  deploy of a service that is deployed stays (`deploy.go:726`);
* the stop leg of an apply's restart clears the pending restart although the apply
  passes `SkipClearPending`: when the run leg fails, nothing is pending any more
  (`stop.go:177`; `service_plan.go:431` says that a failed step clears nothing);
* a run loads the configuration before the locks and clears the pending restart
  under them: what was toggled in between is not brought up and not pending
  (`run.go:170`, `370`; the comment at `366` speaks of the current `local.yml`);
* a pending restart has no owner: the clear of an apply takes along one that
  another session added after the apply's restart (`service_plan.go:465`);
* the clear at the end of a restart loads and saves the journal without the locks,
  and undoes what another session writes in between (`run.go:414`);
* a toggle reads the journal before the locks: when a first deploy ends in between,
  or the reset of the only service emptied the journal, nothing becomes pending
  (`service_toggle.go:417`); nor does it when a toggle is killed between
  `local.yml` and `state.yml`;
* a pipeline group without `fail_fast` that SIGINT reaches while its last sub-steps
  end well succeeds with sub-steps never run (`executor.go:1121-1150`, against
  `1071`); the workflow runner looks at the parent context;
* an interrupted group, or a `when:` that cannot be evaluated, leaves sub-steps
  without a record, and the service is `deployed` (`file_recorder.go:344`); a failed
  files gate does not mark the service seen;
* a HELLO above 1 MiB is answered by the shim with "daemon is not running", as is a
  connection cut before the first frame although the command runs; under `warn`
  both exit 0;
* a daemon that is killed closes the command's stdin, which looks like its end; a
  grandchild that keeps stdout open keeps the session; signals between the wait for
  the process and the close go to a PID that is gone;
* a snapshot's manifest lists services from a configuration loaded before the locks;
  `restore` does not look at the status of the snapshot and accepts the backup
  directories of `create`; a second attempt replaces the backup of the first;
* a kill between the two renames of `unpack` and the rewrite of the manifest leaves a
  snapshot with another name inside;
* a volume that cannot be removed is dropped without a word, and `test clean` reports
  the run as swept (`teardown.go:258`), although `clean.go:50` and
  `docs/reference/config/tests.md:354` ("a container or volume removal step failed
  partway through") count it as failed; `SweptMeansGone` excuses it by name and fails
  without that excuse;
* the orphan scan of `test clean` uses the manifests listed at its start: the
  environment of a run begun meanwhile is reported as an orphan (`clean.go:201`,
  against `61`), and the manifest is validated before the flock (`357`): in between
  the run may end and another be kept;
* a kill during the removal of a copy may leave a manifest that `clean` refuses for
  ever and that keeps `test run` out;
* the deadline kills `dwe deploy run` only; its docker command may create containers
  after the teardown has deleted the manifest, which it does after failed steps, too;
* `secrets encrypt --force` truncates the file it replaces (`outputfile.go:144`): a kill
  loses the old ciphertext, and a rekey then refuses until it is encrypted anew;
* a keyfile whose write is cut stays behind empty and blocks every import of that
  identity until `key remove` (`identity.go:362`).

## 8. Not modelled

The YAML codec and the temporary file of the journal's `Save` (a write happens or
fails); reports, hooks other than the clearing of pending operations, preflight
checks; the start of containers; TCP listeners and the token, which survives every restart; hooks of a
toggle, `.env`, the update of the working copy by a run.  In Snapshot
the archive format, in EnvTest the assertions of a scenario and the `--dry-run` of
`clean`, in BridgeSession the resolution of what to execute, in Secrets the splicing
of YAML, the age format, aliases and keyfiles that exist but cannot be read.

`TopoSortByAfter` and the other parts of deploy ordering; configuration, validation,
the wizard, docker and the user interface, which are sequential functions or I/O
(PROJECT.json gives the reason for each).
