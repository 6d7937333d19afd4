------------------------------ MODULE Snapshot ------------------------------
(***************************************************************************)
(* Snapshots of a project: dwe snapshot create, restore (and rollback),    *)
(* remove, pack and unpack, in src/internal/core/workflow/snapshot.        *)
(*                                                                         *)
(* A command holds both project locks while it works (module ProjectLocks),*)
(* so at most one is under way: op is that command and the statement it is *)
(* at.  What makes it hard is that a command may be killed between any two *)
(* statements, that any write may fail, and that the next command works on *)
(* what the dead one left on the disk.                                     *)
(*                                                                         *)
(* The contents of files are generations: Work, the project in use between *)
(* two commands, brings the files and the services' data to the next one.  *)
(* The user's workflows are external: create copies the services' data to  *)
(* the snapshot's artifacts and restore copies it back, or they fail half  *)
(* way.                                                                    *)
(***************************************************************************)
EXTENDS Integers, FiniteSets

CONSTANTS
    Names,        \* the names users give to snapshots
    Backups,      \* the directories <name>.create-backup-<random> there may be
    Olds,         \* the directories .unpack-old-<random> there may be
    Nobody,       \* no name
    RequireMatchingConfig, \* snapshot.yml: require_matching_config
    MaxWork,      \* bound on the generations of the project
    MaxCommands,  \* bound on the commands run
    MaxFaults     \* bound on the kills and failed writes

ASSUME SnapshotAssumption ==
    /\ Names \cap Backups = {} /\ Names \cap Olds = {} /\ Backups \cap Olds = {}
    /\ Nobody \notin Names \cup Backups \cup Olds
    /\ RequireMatchingConfig \in BOOLEAN
    /\ MaxWork \in Nat /\ MaxCommands \in Nat /\ MaxFaults \in Nat

VARIABLES
    live,       \* workspace/local.yml, .dwe/deploy/state.yml and the data
    dirs,       \* the directories under the snapshots' root
    preRestore, \* .dwe/snapshots/.pre-restore-backup
    current,    \* .dwe/snapshots/current
    packed,     \* an archive that pack wrote
    op,         \* the command under way
    commands,   \* how many have been started
    faults,     \* how many kills and failed writes there have been
    \* what the properties compare with
    good,       \* what the last create or unpack of a name that worked stored
    before,     \* the files when the last restore began to replace them
    swapped     \* that restore has replaced some

vars == <<live, dirs, preRestore, current, packed, op, commands, faults,
          good, before, swapped>>
disk == <<live, dirs, preRestore, current, packed>>
history == <<good, before, swapped>>

Missing == 0    \* no such file
Bare    == -1   \* a local.yml that holds nothing but preserved keys
Torn    == -2   \* data that a failed restore left half written
Gens    == 1 .. MaxWork + 1
Slots   == Names \cup Backups \cup Olds
Shown   == Names \cup Backups  \* names a user may give: dot-directories are hidden

\* The two files a snapshot stores and a restore replaces.  local.yml is its
\* own part, Missing when there is no file, and the keys under preserve_keys.
LocalGens == Gens \cup {Missing, Bare}
KeyGens   == Gens \cup {Missing}
FileSet   == [local : LocalGens, keys : KeyGens, state : Gens \cup {Missing}]
NoFiles   == [local |-> Missing, keys |-> Missing, state |-> Missing]
Files(w)  == [local |-> w.local, keys |-> w.keys, state |-> w.state]

Statuses == {"ok", "failed", "interrupted"}

\* A snapshot directory: the captured files, the artifacts of the workflow and
\* the manifest, of which the name, the outcome and the configuration hash
\* (that of the journal) matter here.
NoManifest == [name |-> Nobody, status |-> "none", hash |-> Missing, restored |-> "none"]
EmptyDir   == [exists |-> TRUE, local |-> Missing, state |-> Missing, art |-> Missing,
               manifest |-> NoManifest]
NoDir      == [EmptyDir EXCEPT !.exists = FALSE]
Content(d) == [local |-> d.local, state |-> d.state, art |-> d.art]
Nothing    == [local |-> Torn, state |-> Torn, art |-> Torn]  \* never stored

\* What RemoveAll may leave of a directory when it fails or is killed.
Remains(d) ==
    [exists : {TRUE}, local : {d.local, Missing}, state : {d.state, Missing},
     art : {d.art, Missing}, manifest : {d.manifest, NoManifest}]

Idle == [cmd |-> "none", name |-> Nobody, pc |-> "idle", aside |-> Nobody,
         status |-> "ok", prior |-> Nothing]
Command(cmd, n, pc, aside, prior) ==
    [cmd |-> cmd, name |-> n, pc |-> pc, aside |-> aside, status |-> "ok", prior |-> prior]
GoTo(pc) == op' = [op EXCEPT !.pc = pc]
Return   == op' = Idle
At(cmd, pc) == op.cmd = cmd /\ op.pc = pc
IsIdle   == op = Idle

Init ==
    /\ \E l \in {1, Missing}, s \in {1, Missing} :
          live = [local |-> l, keys |-> l, state |-> s, data |-> 1]
    /\ dirs = [d \in Slots |-> NoDir]
    /\ preRestore = NoFiles /\ current = Nobody /\ packed = NoDir
    /\ op = Idle /\ commands = 0 /\ faults = 0
    /\ good = [n \in Names |-> Nothing] /\ before = NoFiles /\ swapped = FALSE

Fault == faults < MaxFaults /\ faults' = faults + 1
NoFault == faults' = faults

Start == IsIdle /\ commands < MaxCommands /\ commands' = commands + 1 /\ NoFault

\* A step of the command under way that only touches dirs.
InDirs == UNCHANGED <<live, preRestore, current, packed, commands, history>>

Newest == live.data

\* The project in use between two commands: a deploy, a toggle, an edit.
Work ==
    /\ IsIdle /\ Newest < MaxWork + 1 /\ Newest # Torn
    /\ \E l \in {Newest + 1, Missing}, k \in {Newest + 1, Missing}, s \in {Newest + 1, Missing} :
          /\ l = Missing => k = Missing
          /\ live' = [local |-> l, keys |-> k, state |-> s, data |-> Newest + 1]
    /\ UNCHANGED <<dirs, preRestore, current, packed, op, commands, faults, history>>

(***************************************************************************)
(* create                                                                  *)
(***************************************************************************)

\* Mutant: an existing directory is deleted, and not set aside.
CreateBeginDeleting(n) ==
    /\ Start
    /\ dirs' = [dirs EXCEPT ![n] = NoDir]
    /\ op' = Command("create", n, "mkdir", Nobody, Nothing)
    /\ UNCHANGED <<live, preRestore, current, packed, history>>

\* An existing directory is confirmed, or the command refused, and set aside.
CreateBegin(n) ==
    /\ Start
    /\ \/ /\ ~dirs[n].exists
          /\ op' = Command("create", n, "mkdir", Nobody, Nothing)
          /\ UNCHANGED dirs
       \/ \E b \in Backups :
          /\ dirs[n].exists /\ ~dirs[b].exists
          /\ dirs' = [dirs EXCEPT ![b] = dirs[n], ![n] = NoDir]
          /\ op' = Command("create", n, "mkdir", b, Nothing)
    /\ UNCHANGED <<live, preRestore, current, packed, history>>

\* An error of MkdirAll or of captureWorkspaceFiles puts the backup back; with
\* no backup the directory stays as it is.
CreateGivesUp == IF op.aside = Nobody THEN Return ELSE GoTo("revert")

CreateMkdir ==
    /\ At("create", "mkdir") /\ InDirs
    /\ \/ NoFault /\ dirs' = [dirs EXCEPT ![op.name] = EmptyDir] /\ GoTo("local")
       \/ Fault /\ CreateGivesUp /\ UNCHANGED dirs

\* A file that is not there is skipped, not written as empty.
Copied(from, to) == IF from = Missing THEN to ELSE from

\* Mutant: a local.yml that is left with nothing else is not written.
CaptureLocalWhenFull ==
    /\ At("create", "local") /\ InDirs
    /\ \/ /\ NoFault /\ GoTo("state")
          /\ dirs' = IF live.local = Bare THEN dirs
                     ELSE [dirs EXCEPT ![op.name].local = Copied(live.local, @)]
       \/ Fault /\ CreateGivesUp /\ UNCHANGED dirs

\* captureLocalYML strips the preserved keys, and writes the file even when
\* nothing else is in it.
CaptureLocal ==
    /\ At("create", "local") /\ InDirs
    /\ \/ /\ NoFault /\ GoTo("state")
          /\ dirs' = [dirs EXCEPT ![op.name].local = Copied(live.local, @)]
       \/ Fault /\ CreateGivesUp /\ UNCHANGED dirs

CaptureState ==
    /\ At("create", "state") /\ InDirs
    /\ \/ /\ NoFault /\ GoTo("workflow")
          /\ dirs' = [dirs EXCEPT ![op.name].state = Copied(live.state, @)]
       \/ Fault /\ CreateGivesUp /\ UNCHANGED dirs

\* RunWorkflow and classifyRunErr; what a workflow that did not end well has
\* written of the artifacts is anybody's guess.
CreateWorkflow ==
    /\ At("create", "workflow") /\ InDirs /\ NoFault
    /\ \E s \in Statuses, a \in {live.data, Missing} :
          /\ s = "ok" => a = live.data
          /\ dirs' = [dirs EXCEPT ![op.name].art = a]
          /\ op' = [op EXCEPT !.pc = "manifest", !.status = s]

Unfinished == IF op.aside = Nobody THEN Return ELSE GoTo("revert")

\* ScanArtifacts and SaveManifest.  A failed scan demotes the outcome.  A
\* manifest that cannot be written is the command's error when all else went
\* well: it returns there and then, the old directory still aside.
WriteManifest(status) ==
    dirs' = [dirs EXCEPT ![op.name].manifest =
        [name |-> op.name, status |-> status, hash |-> live.state, restored |-> "none"]]

CreateManifest ==
    /\ At("create", "manifest")
    /\ UNCHANGED <<live, preRestore, current, packed, commands, before, swapped>>
    /\ \/ /\ NoFault /\ op.status = "ok" /\ WriteManifest("ok")
          /\ good' = [good EXCEPT ![op.name] = Content(dirs[op.name])]
          /\ GoTo(IF op.aside = Nobody THEN "current" ELSE "drop")
       \/ /\ NoFault /\ op.status # "ok" /\ WriteManifest(op.status)
          /\ Unfinished /\ UNCHANGED good
       \/ Fault /\ op.status = "ok" /\ Return /\ UNCHANGED <<dirs, good>>
       \/ Fault /\ op.status # "ok" /\ Unfinished /\ UNCHANGED <<dirs, good>>
       \/ /\ Fault /\ op.status = "ok" /\ WriteManifest("failed")
          /\ Unfinished /\ UNCHANGED good

\* RemoveAll of what the attempt left, then the backup is renamed back.
RevertRemove ==
    /\ At("create", "revert") /\ InDirs
    /\ \/ NoFault /\ dirs' = [dirs EXCEPT ![op.name] = NoDir] /\ GoTo("rename_back")
       \/ Fault /\ Return /\ \E r \in Remains(dirs[op.name]) : dirs' = [dirs EXCEPT ![op.name] = r]

RevertRename ==
    /\ At("create", "rename_back") /\ InDirs /\ Return
    /\ \/ NoFault /\ dirs' = [dirs EXCEPT ![op.name] = dirs[op.aside], ![op.aside] = NoDir]
       \/ Fault /\ UNCHANGED dirs

\* The backup of an attempt that worked is removed, whatever becomes of it.
DropBackup ==
    /\ At("create", "drop") /\ InDirs /\ GoTo("current")
    /\ \/ NoFault /\ dirs' = [dirs EXCEPT ![op.aside] = NoDir]
       \/ Fault /\ \E r \in Remains(dirs[op.aside]) : dirs' = [dirs EXCEPT ![op.aside] = r]

\* WriteCurrent, the last statement of create and of restore.
PointCurrent ==
    /\ op.cmd \in {"create", "restore"} /\ op.pc = "current" /\ Return
    /\ \/ NoFault /\ current' = op.name
       \/ Fault /\ UNCHANGED current
    /\ UNCHANGED <<live, dirs, preRestore, packed, commands, history>>

(***************************************************************************)
(* restore, and rollback, which restores the name snapshot.yml gives it    *)
(***************************************************************************)

Diverged(m) == m.hash # Missing /\ live.state # Missing /\ m.hash # live.state

\* The checks and the confirmation change nothing.  The outcome of the create
\* is not one of them.
RestoreBegin(d) ==
    /\ Start
    /\ dirs[d].exists /\ dirs[d].manifest # NoManifest
    /\ ~(RequireMatchingConfig /\ Diverged(dirs[d].manifest))
    /\ op' = Command("restore", d, "clear", Nobody, Nothing)
    /\ UNCHANGED <<disk, history>>

\* Mutant: the copies are written over the last backup.
ClearPreRestoreOver ==
    /\ At("restore", "clear") /\ NoFault /\ GoTo("backup_local")
    /\ before' = Files(live) /\ swapped' = FALSE
    /\ UNCHANGED <<disk, commands, good>>

\* writePreRestoreBackup: RemoveAll of the last one, then a copy of each file.
ClearPreRestore ==
    /\ At("restore", "clear")
    /\ \/ NoFault /\ preRestore' = NoFiles /\ GoTo("backup_local")
       \/ /\ Fault /\ Return
          /\ \E l \in BOOLEAN, s \in BOOLEAN :
                preRestore' = [local |-> IF l THEN preRestore.local ELSE Missing,
                               keys  |-> IF l THEN preRestore.keys ELSE Missing,
                               state |-> IF s THEN preRestore.state ELSE Missing]
    /\ before' = Files(live) /\ swapped' = FALSE
    /\ UNCHANGED <<live, dirs, current, packed, commands, good>>

BackupLocal ==
    /\ At("restore", "backup_local")
    /\ \/ /\ NoFault /\ GoTo("backup_state")
          /\ preRestore' = IF live.local = Missing THEN preRestore
                           ELSE [preRestore EXCEPT !.local = live.local, !.keys = live.keys]
       \/ Fault /\ Return /\ UNCHANGED preRestore
    /\ UNCHANGED <<live, dirs, current, packed, commands, history>>

BackupState ==
    /\ At("restore", "backup_state")
    /\ \/ /\ NoFault /\ GoTo("swap_local")
          /\ preRestore' = [preRestore EXCEPT !.state = Copied(live.state, @)]
       \/ Fault /\ Return /\ UNCHANGED preRestore
    /\ UNCHANGED <<live, dirs, current, packed, commands, history>>

\* restoreLocalYML.  The preserved keys stay those of the working copy; with no
\* file in the snapshot, a file with nothing else is left of the working copy.
SwapLocal ==
    /\ At("restore", "swap_local")
    /\ \/ /\ NoFault /\ GoTo("swap_state") /\ swapped' = TRUE
          /\ live' = [live EXCEPT !.local =
                        IF dirs[op.name].local # Missing THEN dirs[op.name].local
                        ELSE IF live.keys # Missing THEN Bare ELSE Missing]
       \/ Fault /\ Return /\ UNCHANGED <<live, swapped>>
    /\ UNCHANGED <<dirs, preRestore, current, packed, commands, good, before>>

\* Mutant: with no journal in the snapshot the working copy's stays.
SwapStateKept ==
    /\ At("restore", "swap_state")
    /\ \/ /\ NoFault /\ GoTo("workflow")
          /\ live' = [live EXCEPT !.state = Copied(dirs[op.name].state, @)]
       \/ Fault /\ Return /\ UNCHANGED live
    /\ UNCHANGED <<dirs, preRestore, current, packed, commands, history>>

\* The journal is overwritten, or removed when the snapshot has none.
SwapState ==
    /\ At("restore", "swap_state")
    /\ \/ NoFault /\ GoTo("workflow") /\ live' = [live EXCEPT !.state = dirs[op.name].state]
       \/ Fault /\ Return /\ UNCHANGED live
    /\ UNCHANGED <<dirs, preRestore, current, packed, commands, history>>

\* Without its artifacts a restore workflow cannot work; one that stops half
\* way leaves the data as it was, replaced or torn.
RestoreWorkflow ==
    /\ At("restore", "workflow") /\ NoFault
    /\ LET art == dirs[op.name].art IN
       \E s \in Statuses, v \in {live.data, art, Torn} \ {Missing} :
          /\ s = "ok" => art # Missing /\ v = art
          /\ live' = [live EXCEPT !.data = v]
          /\ op' = [op EXCEPT !.pc = "manifest", !.status = s]
    /\ UNCHANGED <<dirs, preRestore, current, packed, commands, history>>

\* The outcome goes to last_restore.  After one that is not ok the command
\* ends: the files stay replaced and current as it was.
RestoreManifest ==
    /\ At("restore", "manifest") /\ InDirs
    /\ \/ /\ NoFault /\ dirs' = [dirs EXCEPT ![op.name].manifest.restored = op.status]
          /\ IF op.status = "ok" THEN GoTo("current") ELSE Return
       \/ Fault /\ Return /\ UNCHANGED dirs

(***************************************************************************)
(* remove                                                                  *)
(***************************************************************************)

\* From here on what the directory holds is no longer wanted under any name.
RemoveBegin(d) ==
    /\ Start /\ dirs[d].exists
    /\ op' = Command("remove", d, "workflow", Nobody, Nothing)
    /\ good' = [n \in Names |-> IF good[n] = Content(dirs[d]) THEN Nothing ELSE good[n]]
    /\ UNCHANGED <<disk, before, swapped>>

\* There may be no remove workflow; one that fails ends the command.
RemoveWorkflow ==
    /\ At("remove", "workflow") /\ InDirs /\ NoFault
    /\ \E a \in {dirs[op.name].art, Missing} : dirs' = [dirs EXCEPT ![op.name].art = a]
    /\ Return \/ GoTo("erase")

RemoveErase ==
    /\ At("remove", "erase") /\ InDirs
    /\ \/ NoFault /\ dirs' = [dirs EXCEPT ![op.name] = NoDir] /\ GoTo("clear")
       \/ Fault /\ Return /\ \E r \in Remains(dirs[op.name]) : dirs' = [dirs EXCEPT ![op.name] = r]

\* Mutant: current is left as it is.
RemoveClearNot ==
    /\ At("remove", "clear") /\ Return /\ NoFault
    /\ UNCHANGED <<disk, commands, history>>

RemoveClear ==
    /\ At("remove", "clear") /\ Return
    /\ \/ NoFault /\ current' = IF current = op.name THEN Nobody ELSE current
       \/ Fault /\ UNCHANGED current
    /\ UNCHANGED <<live, dirs, preRestore, packed, commands, history>>

(***************************************************************************)
(* pack and unpack                                                         *)
(***************************************************************************)

\* An archive of a directory that has a manifest; pack.exclude may leave the
\* artifacts out.
Pack(d) ==
    /\ Start /\ dirs[d].exists /\ dirs[d].manifest # NoManifest
    /\ \E a \in {dirs[d].art, Missing} : packed' = [dirs[d] EXCEPT !.art = a]
    /\ UNCHANGED <<live, dirs, preRestore, current, op, history>>

\* The archive is extracted and verified in a hidden directory, and all the
\* questions are asked, before anything changes; then the old one goes aside.
UnpackBegin(n) ==
    /\ Start /\ packed.exists
    /\ \/ /\ ~dirs[n].exists
          /\ op' = Command("unpack", n, "install", Nobody, good[n])
          /\ UNCHANGED dirs
       \/ \E o \in Olds :
          /\ dirs[n].exists /\ ~dirs[o].exists
          /\ dirs' = [dirs EXCEPT ![o] = dirs[n], ![n] = NoDir]
          /\ op' = Command("unpack", n, "install", o, good[n])
    /\ UNCHANGED <<live, preRestore, current, packed, history>>

UnpackInstall ==
    /\ At("unpack", "install")
    /\ \/ /\ NoFault /\ dirs' = [dirs EXCEPT ![op.name] = packed] /\ GoTo("name")
          /\ good' = [good EXCEPT ![op.name] = Content(packed)]
       \/ /\ Fault /\ UNCHANGED <<dirs, good>>
          /\ IF op.aside = Nobody THEN Return ELSE GoTo("rename_back")
    /\ UNCHANGED <<live, preRestore, current, packed, commands, before, swapped>>

\* The manifest takes the name of the directory; when it cannot be written the
\* directory is removed and the old one comes back.
UnpackName ==
    /\ At("unpack", "name")
    /\ UNCHANGED <<live, preRestore, current, packed, commands, before, swapped>>
    /\ \/ /\ NoFault /\ dirs' = [dirs EXCEPT ![op.name].manifest.name = op.name]
          /\ IF op.aside = Nobody THEN Return ELSE GoTo("drop")
          /\ UNCHANGED good
       \/ /\ Fault /\ dirs[op.name].manifest.name # op.name
          /\ dirs' = [dirs EXCEPT ![op.name] = NoDir]
          /\ good' = [good EXCEPT ![op.name] = op.prior]
          /\ IF op.aside = Nobody THEN Return ELSE GoTo("rename_back")

UnpackBack ==
    /\ At("unpack", "rename_back") /\ InDirs /\ Return
    /\ \/ NoFault /\ dirs' = [dirs EXCEPT ![op.name] = dirs[op.aside], ![op.aside] = NoDir]
       \/ Fault /\ UNCHANGED dirs

UnpackDrop ==
    /\ At("unpack", "drop") /\ InDirs /\ Return
    /\ \/ NoFault /\ dirs' = [dirs EXCEPT ![op.aside] = NoDir]
       \/ Fault /\ \E r \in Remains(dirs[op.aside]) : dirs' = [dirs EXCEPT ![op.aside] = r]

(***************************************************************************)
(* A kill between two statements.  A RemoveAll that is under way leaves    *)
(* what it has not come to.                                                *)
(***************************************************************************)
Erasing ==
    CASE op.pc = "revert" \/ At("remove", "erase") -> {op.name}
      [] op.pc = "drop" -> {op.aside}
      [] OTHER -> {}

Kill ==
    /\ ~IsIdle /\ Fault /\ Return
    /\ \/ UNCHANGED dirs
       \/ \E d \in Erasing : \E r \in Remains(dirs[d]) : dirs' = [dirs EXCEPT ![d] = r]
    /\ UNCHANGED <<live, preRestore, current, packed, commands, history>>

Create == \/ \E n \in Names : CreateBegin(n)
          \/ CreateMkdir \/ CaptureLocal \/ CaptureState \/ CreateWorkflow
          \/ CreateManifest \/ RevertRemove \/ RevertRename \/ DropBackup
Restore == \/ \E d \in Shown : RestoreBegin(d)
           \/ ClearPreRestore \/ BackupLocal \/ BackupState \/ SwapLocal \/ SwapState
           \/ RestoreWorkflow \/ RestoreManifest
Remove == (\E d \in Shown : RemoveBegin(d)) \/ RemoveWorkflow \/ RemoveErase \/ RemoveClear
Unpack == \/ \E n \in Names : UnpackBegin(n)
          \/ UnpackInstall \/ UnpackName \/ UnpackBack \/ UnpackDrop

Next == \/ Work \/ Create \/ Restore \/ PointCurrent \/ Remove
        \/ (\E d \in Shown : Pack(d)) \/ Unpack \/ Kill

Spec == Init /\ [][Next]_vars

-----------------------------------------------------------------------------

DirSet == [exists : BOOLEAN, local : LocalGens, state : Gens \cup {Missing},
           art : Gens \cup {Missing, Torn},
           manifest : [name : Names \cup {Nobody}, status : Statuses \cup {"none"},
                       hash : Gens \cup {Missing}, restored : Statuses \cup {"none"}]]

\* The types of the files, of the command under way and of the counters.
TypeOK ==
    /\ live.data \in Gens \cup {Torn} /\ Files(live) \in FileSet
    /\ dirs \in [Slots -> DirSet]
    /\ preRestore \in FileSet /\ before \in FileSet /\ swapped \in BOOLEAN
    /\ current \in Shown \cup {Nobody}
    /\ packed \in DirSet
    /\ op.name \in Shown \cup {Nobody} /\ op.aside \in Backups \cup Olds \cup {Nobody}
    /\ op.status \in Statuses
    /\ commands \in 0 .. MaxCommands /\ faults \in 0 .. MaxFaults

\* What the last create or unpack of a name stored stays on the disk until the
\* user removes it or replaces it with another that worked: whatever fails or
\* is killed, some directory holds it whole, with a manifest (create.go:130 and
\* unpack.go:101, which rename the old directory aside and not delete it).
GoodSnapshotKept ==
    \A n \in Names : good[n] # Nothing =>
        \E d \in Slots : /\ dirs[d].exists /\ dirs[d].manifest # NoManifest
                         /\ Content(dirs[d]) = good[n]

\* A snapshot whose manifest says ok holds the files and the data of one moment,
\* the project's when it was taken, and nothing of what an earlier attempt left
\* under its name (create.go:118).
CapturesProject ==
    op.cmd = "create" /\ op.pc \in {"drop", "current"} =>
        Content(dirs[op.name]) =
            [local |-> live.local, state |-> live.state, art |-> live.data]

\* Whatever happens to a restore once it has replaced a file, and whatever the
\* other commands do, until the next restore .pre-restore-backup holds the
\* files as they were (restore.go:327, docs/reference/config/snapshot.md).
BackupHoldsOriginal == swapped => preRestore = before

\* A restore that worked brings back what the last create or unpack of that name
\* stored, and the preserved keys as they were before, whatever went wrong until
\* then (restore.go:230).
RoundTrip ==
    /\ op.cmd = "restore" /\ op.pc = "current"
    /\ op.name \in Names /\ good[op.name] # Nothing
    /\ dirs[op.name].manifest.status = "ok"
    => LET g == good[op.name] IN
       /\ live.state = g.state /\ live.data = g.art /\ live.keys = before.keys
       /\ live.local = IF g.local # Missing THEN g.local
                       ELSE IF before.keys # Missing THEN Bare ELSE Missing

\* As long as no command was killed and no write failed, current names a
\* directory that is there and has a manifest whenever no command is at work.
CurrentIsThere ==
    IsIdle /\ faults = 0 /\ current # Nobody =>
        dirs[current].exists /\ dirs[current].manifest # NoManifest
=============================================================================
