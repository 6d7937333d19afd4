---------------------------- MODULE SnapshotProofs ----------------------------
(***************************************************************************)
(* Proofs about snapshots, for any names and directories, any number of    *)
(* commands and generations of the project, and any number of kills and    *)
(* failed writes.                                                          *)
(***************************************************************************)
EXTENDS Snapshot, TLAPS

-----------------------------------------------------------------------------
(* What the invariant is made of.                                          *)

ManifestSet == [name : Names \cup {Nobody}, status : Statuses \cup {"none"},
                hash : Gens \cup {Missing}, restored : Statuses \cup {"none"}]
ContentSet == [local : LocalGens \cup {Torn}, state : Gens \cup {Missing, Torn},
               art : Gens \cup {Missing, Torn}]
CreatePlaces  == {"mkdir", "local", "state", "workflow", "manifest", "revert", "rename_back",
                  "drop", "current"}
RestorePlaces == {"clear", "backup_local", "backup_state", "swap_local", "swap_state",
                  "workflow", "manifest", "current"}
RemovePlaces  == {"workflow", "erase", "clear"}
UnpackPlaces  == {"install", "name", "rename_back", "drop"}

OpSet == [cmd : {"none", "create", "restore", "remove", "unpack"},
          name : Shown \cup {Nobody},
          pc : {"idle"} \cup CreatePlaces \cup RestorePlaces \cup RemovePlaces
                        \cup UnpackPlaces,
          aside : Backups \cup Olds \cup {Nobody}, status : Statuses, prior : ContentSet]

Types ==
    /\ TypeOK
    /\ live \in [local : LocalGens, keys : KeyGens, state : Gens \cup {Missing},
                 data : Gens \cup {Torn}]
    /\ op \in OpSet
    /\ good \in [Names -> ContentSet]

\* Where each command can be, and what it works on.
PlaceInv ==
    /\ op.cmd = "none" => op = Idle
    /\ op.cmd = "create" => /\ op.pc \in CreatePlaces /\ op.name \in Names
                            /\ op.aside \in Backups \cup {Nobody}
    /\ op.cmd = "restore" => /\ op.pc \in RestorePlaces /\ op.name \in Shown
                             /\ op.aside = Nobody
    /\ op.cmd = "remove" => /\ op.pc \in RemovePlaces /\ op.name \in Shown
                            /\ op.aside = Nobody
    /\ op.cmd = "unpack" => /\ op.pc \in UnpackPlaces /\ op.name \in Names
                            /\ op.aside \in Olds \cup {Nobody}
    /\ op.pc \in {"revert", "rename_back", "drop"} => op.aside # Nobody

GoneInv == \A d \in Slots : dirs[d].exists \/ dirs[d] = NoDir

Present(d)  == dirs[d].exists /\ dirs[d].manifest # NoManifest
Holds(d, c) == Present(d) /\ Content(dirs[d]) = c

\* What create has captured so far; the manifest comes last.
CaptureInv == op.cmd = "create" =>
    LET d == dirs[op.name] IN
    /\ op.pc = "mkdir" => ~d.exists
    /\ op.pc \in {"local", "state", "workflow", "manifest"} => d.exists /\ d.manifest = NoManifest
    /\ op.pc = "local" => d.local = Missing
    /\ op.pc \in {"local", "state"} => d.state = Missing
    /\ op.pc \in {"state", "workflow", "manifest", "drop", "current"} => d.local = live.local
    /\ op.pc \in {"workflow", "manifest", "drop", "current"} => d.state = live.state
    /\ op.pc = "manifest" /\ op.status = "ok" => d.art = live.data
    /\ op.pc \in {"drop", "current"} => Present(op.name) /\ d.art = live.data
    /\ op.pc = "revert" => d.manifest.status # "ok"

\* The backup that restore makes; a local.yml that is not there has no keys.
BackupInv ==
    /\ live.local = Missing => live.keys = Missing
    /\ swapped => preRestore = before
    /\ op.cmd = "restore" =>
       /\ op.pc \in {"backup_local", "backup_state"} => ~swapped
       /\ op.pc \in {"backup_local", "backup_state", "swap_local"} => before = Files(live)
       /\ op.pc = "backup_local" => preRestore = NoFiles
       /\ op.pc = "backup_state" => /\ preRestore.local = before.local
                                    /\ preRestore.keys = before.keys
                                    /\ preRestore.state = Missing
       /\ op.pc \in {"swap_local", "swap_state", "workflow", "manifest", "current"} =>
             preRestore = before

\* What restore has replaced so far.
RestoreInv == op.cmd = "restore" =>
    /\ Present(op.name)
    /\ op.pc \in {"swap_state", "workflow", "manifest", "current"} =>
          /\ live.keys = before.keys
          /\ dirs[op.name].local # Missing => live.local = dirs[op.name].local
          /\ dirs[op.name].local = Missing =>
                live.local = IF before.keys # Missing THEN Bare ELSE Missing
    /\ op.pc \in {"workflow", "manifest", "current"} => live.state = dirs[op.name].state
    /\ op.pc \in {"manifest", "current"} /\ op.status = "ok" => live.data = dirs[op.name].art
    /\ op.pc = "current" => op.status = "ok"

\* A directory under a name whose manifest says ok holds what was last stored
\* there.
WholeInv == \A n \in Names :
    good[n] # Nothing /\ dirs[n].manifest.status = "ok" => Content(dirs[n]) = good[n]

\* So does the one set aside that may come back; what remove erases is not
\* expected there any more.
AsideInv ==
    /\ \/ op.cmd = "create" /\ op.pc \notin {"drop", "current"}
       \/ op.cmd = "unpack" /\ op.pc = "rename_back"
       => (op.aside # Nobody /\ good[op.name] # Nothing /\ dirs[op.aside].manifest.status = "ok" =>
              Content(dirs[op.aside]) = good[op.name])
    /\ op.cmd = "unpack" /\ op.pc \in {"install", "name"} =>
          (op.aside # Nobody /\ op.prior # Nothing /\ dirs[op.aside].manifest.status = "ok" =>
              Content(dirs[op.aside]) = op.prior)
    /\ op.cmd = "remove" /\ op.name \in Names /\ dirs[op.name].manifest.status = "ok" =>
          good[op.name] = Nothing

\* The command under way may still overwrite or erase that directory.
Doomed(d) ==
    /\ d = op.name
    /\ \/ op.cmd = "create" /\ op.pc \notin {"drop", "current"}
       \/ op.cmd = "remove"
       \/ op.cmd = "unpack" /\ op.pc \in {"install", "rename_back"}

\* What was last stored under a name is in its own directory or in one that was
\* set aside, never in one that another name's command may touch.
Home(n, d) ==
    /\ d = n \/ d \in Backups \cup Olds
    /\ ~Doomed(d)
    /\ n # op.name \/ op.pc = "drop" => d # op.aside

KeptInv == \A n \in Names :
    good[n] # Nothing => \E d \in Slots : Home(n, d) /\ Holds(d, good[n])

UnpackInv ==
    /\ packed.exists => packed.manifest # NoManifest
    /\ op.cmd = "unpack" =>
       /\ packed.exists
       /\ op.pc = "install" => good[op.name] = op.prior
       /\ op.pc \in {"name", "drop"} => Holds(op.name, good[op.name])
       /\ op.pc \in {"install", "name"} /\ op.prior # Nothing =>
             \E d \in Backups \cup Olds : Holds(d, op.prior)
       /\ op.pc = "rename_back" => faults # 0

\* Without a fault, current is present, but for the moments when a command
\* replaces or removes the directory it names.
CurrentInv == faults = 0 /\ current # Nobody =>
    /\ op.aside # current
    /\ IF current = op.name /\ op.cmd = "create" /\ op.pc \notin {"drop", "current"}
       THEN op.aside # Nobody /\ Present(op.aside)
       ELSE \/ Present(current)
            \/ current = op.name /\ \/ op.cmd = "unpack" /\ op.pc = "install"
                                    \/ op.cmd = "remove" /\ op.pc = "clear"

Inv ==
    /\ Types /\ PlaceInv /\ GoneInv /\ CaptureInv /\ BackupInv /\ RestoreInv
    /\ WholeInv /\ AsideInv /\ KeptInv /\ UnpackInv /\ CurrentInv

-----------------------------------------------------------------------------
(* The marks are no generations; no directory is no name.                  *)
LEMMA Marks ==
    /\ Missing \notin Gens /\ Bare \notin Gens /\ Torn \notin Gens
    /\ Missing # Bare /\ Missing # Torn /\ Bare # Torn
    /\ Missing \in LocalGens /\ Bare \in LocalGens /\ Torn \notin LocalGens
    /\ Missing \in KeyGens
    /\ Gens \subseteq LocalGens /\ Gens \subseteq KeyGens
  BY SnapshotAssumption DEF Missing, Bare, Torn, Gens, LocalGens, KeyGens

LEMMA Places ==
    /\ Names \cap Backups = {} /\ Names \cap Olds = {} /\ Backups \cap Olds = {}
    /\ Nobody \notin Slots
    /\ Names \subseteq Shown /\ Shown \subseteq Slots /\ Backups \subseteq Slots /\ Olds \subseteq Slots
  BY SnapshotAssumption DEF Slots, Shown

LEMMA Directories ==
    /\ NoManifest \in ManifestSet
    /\ NoManifest.status = "none" /\ NoManifest.name = Nobody /\ NoManifest.restored = "none"
    /\ EmptyDir \in DirSet /\ NoDir \in DirSet
    /\ EmptyDir.exists /\ ~NoDir.exists
    /\ EmptyDir.manifest = NoManifest /\ NoDir.manifest = NoManifest
    /\ EmptyDir.local = Missing /\ EmptyDir.state = Missing
    /\ NoFiles \in FileSet
    /\ NoFiles.local = Missing /\ NoFiles.keys = Missing /\ NoFiles.state = Missing
    /\ Nothing \in ContentSet
    /\ \A d \in DirSet : Content(d) \in ContentSet /\ Content(d) # Nothing
  BY Marks DEF ManifestSet, NoManifest, EmptyDir, NoDir, DirSet, NoFiles, FileSet, Nothing,
     ContentSet, Content, Statuses

LEMMA IdleIs ==
    /\ Idle.cmd = "none" /\ Idle.name = Nobody /\ Idle.pc = "idle" /\ Idle.aside = Nobody
    /\ Idle.status = "ok" /\ Idle.prior = Nothing
  BY DEF Idle

\* Where a step of the command leads.
Everywhere == CreatePlaces \cup RestorePlaces \cup RemovePlaces \cup UnpackPlaces

LEMMA GoesTo ==
    ASSUME Types, NEW p \in Everywhere, NEW s \in Statuses,
           op' = [op EXCEPT !.pc = p, !.status = s]
    PROVE  /\ op' \in OpSet
           /\ op'.cmd = op.cmd /\ op'.name = op.name /\ op'.pc = p /\ op'.aside = op.aside
           /\ op'.status = s /\ op'.prior = op.prior
  BY DEF Types, OpSet, Everywhere

LEMMA GoesOn ==
    ASSUME Types, NEW p \in Everywhere, op' = [op EXCEPT !.pc = p]
    PROVE  /\ op' \in OpSet
           /\ op'.cmd = op.cmd /\ op'.name = op.name /\ op'.pc = p /\ op'.aside = op.aside
           /\ op'.status = op.status /\ op'.prior = op.prior
  BY DEF Types, OpSet, Everywhere

LEMMA Ends ==
    ASSUME op' = Idle
    PROVE  /\ op' \in OpSet
           /\ op'.cmd = "none" /\ op'.name = Nobody /\ op'.pc = "idle" /\ op'.aside = Nobody
           /\ op'.status = "ok" /\ op'.prior = Nothing
  BY Directories DEF Idle, OpSet, Statuses

\* What a change of one directory, or of two, leaves of the others.
LEMMA SetOne ==
    ASSUME Types, NEW s \in Slots, NEW e \in DirSet, dirs' = [dirs EXCEPT ![s] = e]
    PROVE  /\ dirs' \in [Slots -> DirSet]
           /\ dirs'[s] = e /\ \A d \in Slots : d # s => dirs'[d] = dirs[d]
  BY DEF Types, TypeOK

LEMMA Moved ==
    ASSUME Types, NEW s \in Slots, NEW t \in Slots, s # t,
           dirs' = [dirs EXCEPT ![t] = dirs[s], ![s] = NoDir]
    PROVE  /\ dirs' \in [Slots -> DirSet]
           /\ dirs'[t] = dirs[s] /\ dirs'[s] = NoDir
           /\ \A d \in Slots : d # s /\ d # t => dirs'[d] = dirs[d]
  BY Directories DEF Types, TypeOK

LEMMA Left ==
    ASSUME NEW e \in DirSet, NEW r \in Remains(e)
    PROVE  /\ r \in DirSet /\ r.manifest \in {e.manifest, NoManifest}
           /\ r.manifest.status = "ok" => e.manifest.status = "ok"
  BY Directories, Marks DEF Remains, DirSet

\* The manifests that the commands write are none of those that are not there.
LEMMA Manifests ==
    ASSUME Inv, op.name \in Names
    PROVE  /\ \A s \in Statuses :
                 LET m == [name |-> op.name, status |-> s, hash |-> live.state,
                           restored |-> "none"]
                 IN  m \in ManifestSet /\ m # NoManifest /\ m.status = s
           /\ LET m == [dirs[op.name].manifest EXCEPT !.name = op.name]
              IN  /\ m \in ManifestSet /\ m # NoManifest
                  /\ m.status = dirs[op.name].manifest.status
PROOF
  <1>1. live.state \in Gens \cup {Missing} /\ Nobody # op.name /\ NoManifest.name = Nobody
    BY Directories, SnapshotAssumption DEF Inv, Types
  <1>2. dirs[op.name].manifest \in ManifestSet
    BY Places DEF Inv, Types, TypeOK, DirSet, ManifestSet
  <1>3. ASSUME NEW s \in Statuses
        PROVE  LET m == [name |-> op.name, status |-> s, hash |-> live.state,
                         restored |-> "none"]
               IN  m \in ManifestSet /\ m # NoManifest /\ m.status = s
    BY <1>1 DEF ManifestSet
  <1>4. LET m == [dirs[op.name].manifest EXCEPT !.name = op.name]
        IN  /\ m \in ManifestSet /\ m # NoManifest
            /\ m.status = dirs[op.name].manifest.status
    BY <1>1, <1>2 DEF ManifestSet
  <1> QED
    BY <1>3, <1>4

LEMMA Restamped ==
    ASSUME NEW m \in ManifestSet, NEW s \in Statuses
    PROVE  /\ [m EXCEPT !.restored = s] \in ManifestSet
           /\ [m EXCEPT !.restored = s] # NoManifest
           /\ [m EXCEPT !.restored = s].status = m.status
  BY Directories DEF ManifestSet, Statuses

\* The command under way works in the snapshots' directories.
LEMMA Here ==
    ASSUME Inv, op.cmd # "none"
    PROVE  /\ op.name \in Slots /\ dirs[op.name] \in DirSet
           /\ dirs[op.name].manifest \in ManifestSet
           /\ op.aside # Nobody => /\ op.aside \in Slots /\ op.aside # op.name
                                  /\ dirs[op.aside] \in DirSet
           /\ op.status \in Statuses /\ op.prior \in ContentSet
PROOF
  <1>1. op.name \in Slots /\ (op.aside # Nobody => op.aside \in Slots /\ op.aside # op.name)
    BY Places DEF Inv, PlaceInv, Types, OpSet, Shown
  <1> QED
    BY <1>1 DEF Inv, Types, TypeOK, OpSet, DirSet, ManifestSet

LEMMA Counted ==
    ASSUME TypeOK, commands < MaxCommands, commands' = commands + 1
    PROVE  commands' \in 0 .. MaxCommands
  BY SnapshotAssumption DEF TypeOK

LEMMA FaultIs ==
    ASSUME TypeOK
    PROVE  /\ NoFault => faults' = faults /\ faults' \in 0 .. MaxFaults
           /\ Fault => faults' # 0 /\ faults' \in 0 .. MaxFaults
  BY SnapshotAssumption DEF TypeOK, Fault, NoFault

\* A command that ends in a fault leaves what it has done so far.
LEMMA GiveUpKeeps ==
    ASSUME Inv, Fault,
           op' = Idle,
           UNCHANGED <<live, dirs, preRestore, current, packed, commands, good, before, swapped>>
    PROVE  Inv'
  <1>1. /\ faults' # 0 /\ faults' \in 0 .. MaxFaults
        /\ UNCHANGED <<live, dirs, preRestore, current, packed, commands, good, before, swapped>>
    BY FaultIs, Here, Places DEF Inv, Types
  <1>2. /\ op' \in OpSet /\ op' = Idle
        /\ op'.cmd = "none" /\ op'.name = Nobody /\ op'.pc = "idle" /\ op'.aside = Nobody
    BY Ends
  <1>3. Types'
    BY <1>1, <1>2 DEF Inv, Types, TypeOK, OpSet
  <1>4. PlaceInv'
    BY <1>1, <1>2 DEF Inv, PlaceInv, CreatePlaces, RestorePlaces, RemovePlaces, UnpackPlaces
  <1>5. GoneInv'
    BY <1>1, <1>2 DEF Inv, GoneInv
  <1>6. CaptureInv'
    BY <1>1, <1>2 DEF Inv, CaptureInv, PlaceInv, Present
  <1>7. BackupInv'
    BY <1>1, <1>2 DEF Inv, BackupInv, PlaceInv, Files
  <1>8. RestoreInv'
    BY <1>1, <1>2 DEF Inv, RestoreInv, PlaceInv, Present
  <1>9. WholeInv'
    <2>1. ASSUME NEW n \in Names, good'[n] # Nothing, dirs'[n].manifest.status = "ok"
        PROVE  Content(dirs'[n]) = good'[n]
      BY <1>1, <1>2, <2>1, Places DEF Inv, WholeInv, PlaceInv, Types, TypeOK, OpSet
    <2> QED
      BY <2>1 DEF WholeInv
  <1>10. AsideInv'
    BY <1>1, <1>2, Places DEF Inv, AsideInv, PlaceInv, Content, Types, TypeOK, OpSet
  <1>11. KeptInv'
    <2>1. ASSUME NEW n \in Names, good'[n] # Nothing, good[n] = good'[n],
               NEW d \in Slots, Home(n, d), Holds(d, good[n])
        PROVE  \E x \in Slots : Home(n, x)' /\ Present(x)' /\ Content(dirs'[x]) = Content(dirs[d])
      BY <1>1, <1>2, <2>1, Places DEF Inv, Home, Doomed, Holds, Present, PlaceInv, Types,
         TypeOK, OpSet
    <2> QED
      BY <2>1, <1>1, <1>2 DEF Inv, KeptInv, Holds
  <1>12. UnpackInv'
    BY <1>1, <1>2 DEF Inv, UnpackInv, Holds, Present, PlaceInv, Content
  <1>13. CurrentInv'
    BY <1>1, <1>2, Places DEF Inv, CurrentInv, Present, PlaceInv, Types, TypeOK, OpSet
  <1> QED
    BY <1>3, <1>4, <1>5, <1>6, <1>7, <1>8, <1>9, <1>10, <1>11, <1>12, <1>13 DEF Inv

\* So does one that ends while it erases a directory.
LEMMA CutKeeps ==
    ASSUME Inv, NEW z \in Slots,
           NEW r \in Remains(dirs[z]),
           op.cmd # "none",
           \/ z = op.name /\ (op.cmd = "remove" \/ op.pc = "revert")
           \/ z = op.aside /\ op.pc = "drop",
           Fault,
           op' = Idle,
           dirs' = [dirs EXCEPT ![z] = r],
           UNCHANGED <<live, preRestore, current, packed, commands, good, before, swapped>>
    PROVE  Inv'
  <1>1. /\ op.cmd # "none"
        /\ \/ z = op.name /\ (op.cmd = "remove" \/ op.pc = "revert")
           \/ z = op.aside /\ op.pc = "drop"
        /\ faults' # 0 /\ faults' \in 0 .. MaxFaults
        /\ UNCHANGED <<live, preRestore, current, packed, commands, good, before, swapped>>
    BY FaultIs, Here, Places DEF Inv, Types
  <1>2. /\ op' \in OpSet /\ op' = Idle
        /\ op'.cmd = "none" /\ op'.name = Nobody /\ op'.pc = "idle" /\ op'.aside = Nobody
    BY Ends
  <1>3. z \in Slots /\ r \in DirSet
    BY <1>1, Left DEF Inv, Types, TypeOK, DirSet
  <1>4. /\ dirs' \in [Slots -> DirSet]
        /\ \A x \in Slots : x # z => dirs'[x] = dirs[x]
        /\ dirs'[z] = r
    BY <1>3, SetOne DEF Inv
  <1>5. Types'
    BY <1>1, <1>2, <1>4 DEF Inv, Types, TypeOK, OpSet
  <1>6. PlaceInv'
    BY <1>1, <1>2, <1>4 DEF Inv, PlaceInv, CreatePlaces, RestorePlaces, RemovePlaces,
       UnpackPlaces
  <1>7. GoneInv'
    BY <1>1, <1>2, <1>4 DEF Inv, GoneInv, Remains
  <1>8. CaptureInv'
    BY <1>1, <1>2, <1>4 DEF Inv, CaptureInv, PlaceInv, Present
  <1>9. BackupInv'
    BY <1>1, <1>2, <1>4 DEF Inv, BackupInv, PlaceInv, Files
  <1>10. RestoreInv'
    BY <1>1, <1>2, <1>4 DEF Inv, RestoreInv, PlaceInv, Present
  <1>11. WholeInv'
    <2>1. ASSUME NEW n \in Names, good'[n] # Nothing, dirs'[n].manifest.status = "ok"
          PROVE  Content(dirs'[n]) = good'[n]
      <3>1. CASE n # z
        BY <3>1, <2>1, <1>1, <1>2, <1>4, Places DEF Inv, WholeInv
      <3>2. CASE n = z
        <4>1. dirs[n].manifest.status = "ok" /\ good[n] # Nothing /\ dirs[z] \in DirSet
          BY <3>2, <2>1, <1>1, <1>2, <1>4, <1>3, Left DEF Inv, Types, TypeOK
        <4>2. n = op.name /\ op.cmd = "remove"
          <5>1. op.aside # Nobody => op.aside \in Backups \cup Olds
            BY Places DEF Inv, Types, OpSet
          <5>2. z = op.name
            BY <5>1, <3>2, <1>1, Places DEF Inv, PlaceInv
          <5>3. op.pc = "revert" => op.cmd = "create"
            BY <1>1 DEF Inv, PlaceInv, Types, OpSet, RestorePlaces, RemovePlaces,
               UnpackPlaces
          <5>4. op.cmd = "remove" \/ op.pc = "revert"
            BY <5>1, <3>2, <1>1, Places DEF Inv, PlaceInv
          <5> QED
            BY <5>3, <5>4, <5>2, <4>1, <3>2, <1>1 DEF Inv, CaptureInv
        <4> QED
          BY <4>1, <4>2 DEF Inv, AsideInv
      <3> QED
        BY <3>1, <3>2
    <2> QED
      BY <2>1 DEF WholeInv
  <1>12. AsideInv'
    BY <1>1, <1>2, <1>4, Places DEF Inv, AsideInv, PlaceInv, Content, Types, TypeOK, OpSet
  <1>13. KeptInv'
    <2>1. ASSUME NEW n \in Names, NEW d \in Slots, Home(n, d), Holds(d, good[n])
          PROVE  d # z /\ Home(n, d)'
      <3>1. /\ op.cmd \in {"create", "restore", "remove", "unpack"}
            /\ op.pc = "revert" => op.cmd = "create"
        BY <1>1, Places DEF Inv, PlaceInv, Types, OpSet, CreatePlaces, RestorePlaces,
           RemovePlaces, UnpackPlaces
      <3>2. d # z
        BY <3>1, <2>1, <1>1 DEF Home, Doomed
      <3>3. Home(n, d)'
        BY <2>1, <1>2, Places DEF Home, Doomed
      <3> QED
        BY <3>2, <3>3
    <2> QED
      BY <2>1, <1>1, <1>2, <1>4 DEF Inv, KeptInv, Holds, Present
  <1>14. UnpackInv'
    BY <1>1, <1>2, <1>4 DEF Inv, UnpackInv, Holds, Present, PlaceInv, Content
  <1>15. CurrentInv'
    BY <1>1, <1>2, <1>4, Places DEF Inv, CurrentInv, Present, PlaceInv, Types, TypeOK, OpSet
  <1> QED
    BY <1>5, <1>6, <1>7, <1>8, <1>9, <1>10, <1>11, <1>12, <1>13, <1>14, <1>15 DEF Inv

\* A create that fails goes back to what was there before.
LEMMA RevertKeeps ==
    ASSUME Inv, op.cmd = "create" /\ op.aside # Nobody,
           \/ op.pc \in {"mkdir", "local", "state"}
           \/ op.pc = "manifest" /\ op.status # "ok",
           Fault,
           op' = [op EXCEPT !.pc = "revert"],
           UNCHANGED <<live, dirs, preRestore, current, packed, commands, good, before, swapped>>
    PROVE  Inv'
  <1>1. /\ op.cmd = "create" /\ op.aside # Nobody
        /\ \/ op.pc \in {"mkdir", "local", "state"}
           \/ op.pc = "manifest" /\ op.status # "ok"
        /\ faults' # 0 /\ faults' \in 0 .. MaxFaults
        /\ op.name \in Slots /\ dirs[op.name] \in DirSet
        /\ op.aside # Nobody => /\ op.aside \in Slots /\ op.aside # op.name
                               /\ dirs[op.aside] \in DirSet
        /\ UNCHANGED <<live, dirs, preRestore, current, packed, commands, good, before, swapped>>
    BY FaultIs, Here, Places DEF Inv, Types
  <1>2. /\ op' \in OpSet
        /\ op'.cmd = op.cmd /\ op'.name = op.name /\ op'.pc = "revert" /\ op'.aside = op.aside
        /\ op'.status = op.status /\ op'.prior = op.prior
    BY GoesOn DEF Inv, Everywhere, CreatePlaces, RestorePlaces, RemovePlaces, UnpackPlaces
  <1>3. Types'
    BY <1>1, <1>2 DEF Inv, Types, TypeOK, OpSet
  <1>4. PlaceInv'
    BY <1>1, <1>2 DEF Inv, PlaceInv, CreatePlaces, RestorePlaces, RemovePlaces, UnpackPlaces
  <1>5. GoneInv'
    BY <1>1, <1>2 DEF Inv, GoneInv
  <1>6. CaptureInv'
    BY <1>1, <1>2, Marks, Places, Directories DEF Inv, CaptureInv, PlaceInv, Present, Types,
       TypeOK, OpSet, GoneInv
  <1>7. BackupInv'
    BY <1>1, <1>2 DEF Inv, BackupInv, PlaceInv, Files
  <1>8. RestoreInv'
    BY <1>1, <1>2 DEF Inv, RestoreInv, PlaceInv, Present
  <1>9. WholeInv'
    <2>1. ASSUME NEW n \in Names, good'[n] # Nothing, dirs'[n].manifest.status = "ok"
        PROVE  Content(dirs'[n]) = good'[n]
      BY <1>1, <1>2, <2>1, Places DEF Inv, WholeInv, PlaceInv, Types, TypeOK, OpSet
    <2> QED
      BY <2>1 DEF WholeInv
  <1>10. AsideInv'
    BY <1>1, <1>2, Places DEF Inv, AsideInv, PlaceInv, Content, Types, TypeOK, OpSet
  <1>11. KeptInv'
    <2>1. ASSUME NEW n \in Names, good'[n] # Nothing, good[n] = good'[n],
               NEW d \in Slots, Home(n, d), Holds(d, good[n])
        PROVE  \E x \in Slots : Home(n, x)' /\ Present(x)' /\ Content(dirs'[x]) = Content(dirs[d])
      BY <1>1, <1>2, <2>1, Places DEF Inv, Home, Doomed, Holds, Present, PlaceInv, Types,
         TypeOK, OpSet
    <2> QED
      BY <2>1, <1>1, <1>2 DEF Inv, KeptInv, Holds
  <1>12. UnpackInv'
    BY <1>1, <1>2 DEF Inv, UnpackInv, Holds, Present, PlaceInv, Content
  <1>13. CurrentInv'
    BY <1>1, <1>2, Places DEF Inv, CurrentInv, Present, PlaceInv, Types, TypeOK, OpSet
  <1> QED
    BY <1>3, <1>4, <1>5, <1>6, <1>7, <1>8, <1>9, <1>10, <1>11, <1>12, <1>13 DEF Inv

LEMMA WorkKeeps ==
    ASSUME Inv, Work
    PROVE  Inv'
  <1>1. ASSUME op.cmd = "none" /\ op.name = Nobody /\ op.pc = "idle" /\ op.aside = Nobody,
               live.data # Torn /\ live.data < MaxWork + 1,
               \E l \in {live.data + 1, Missing}, k \in {live.data + 1, Missing},
                  s \in {live.data + 1, Missing} :
                     /\ l = Missing => k = Missing
                     /\ live' = [local |-> l, keys |-> k, state |-> s, data |-> live.data + 1],
               UNCHANGED <<dirs, preRestore, current, packed, op, commands, faults, good,
                           before, swapped>>
        PROVE  Inv'
    <2>1. /\ op.cmd = "none" /\ op.name = Nobody /\ op.pc = "idle" /\ op.aside = Nobody
          /\ live.data # Torn /\ live.data < MaxWork + 1
          /\ \E l \in {live.data + 1, Missing}, k \in {live.data + 1, Missing},
                s \in {live.data + 1, Missing} :
                   /\ l = Missing => k = Missing
                   /\ live' = [local |-> l, keys |-> k, state |-> s, data |-> live.data + 1]
          /\ UNCHANGED <<dirs, preRestore, current, packed, op, commands, faults, good,
                         before, swapped>>
      BY <1>1, FaultIs, Here, Places DEF Inv, Types
    <2>2. Types'
      <3>1. live' \in [local : LocalGens, keys : KeyGens, state : Gens \cup {Missing},
                 data : Gens \cup {Torn}] /\ Files(live') \in FileSet
        BY <2>1, Marks, SnapshotAssumption DEF Inv, Types, TypeOK, Files, FileSet, Gens,
           LocalGens, KeyGens, Missing
      <3> QED
        BY <2>1, <3>1 DEF Inv, Types, TypeOK, OpSet
    <2>3. PlaceInv'
      BY <2>1 DEF Inv, PlaceInv, CreatePlaces, RestorePlaces, RemovePlaces, UnpackPlaces
    <2>4. GoneInv'
      BY <2>1 DEF Inv, GoneInv
    <2>5. CaptureInv'
      BY <2>1 DEF Inv, CaptureInv, PlaceInv, Present
    <2>6. BackupInv'
      BY <2>1 DEF Inv, BackupInv, PlaceInv, Files
    <2>7. RestoreInv'
      BY <2>1 DEF Inv, RestoreInv, PlaceInv, Present
    <2>8. WholeInv'
      <3>1. ASSUME NEW n \in Names, good'[n] # Nothing, dirs'[n].manifest.status = "ok"
          PROVE  Content(dirs'[n]) = good'[n]
        BY <2>1, <3>1, Places DEF Inv, WholeInv, PlaceInv, Types, TypeOK, OpSet
      <3> QED
        BY <3>1 DEF WholeInv
    <2>9. AsideInv'
      BY <2>1, Places DEF Inv, AsideInv, PlaceInv, Content, Types, TypeOK, OpSet
    <2>10. KeptInv'
      <3>1. ASSUME NEW n \in Names, good'[n] # Nothing, good[n] = good'[n],
                 NEW d \in Slots, Home(n, d), Holds(d, good[n])
          PROVE  \E x \in Slots : Home(n, x)' /\ Present(x)' /\ Content(dirs'[x]) = Content(dirs[d])
        BY <2>1, <3>1, Places DEF Inv, Home, Doomed, Holds, Present, PlaceInv, Types,
           TypeOK, OpSet
      <3> QED
        BY <3>1, <2>1 DEF Inv, KeptInv, Holds
    <2>11. UnpackInv'
      BY <2>1 DEF Inv, UnpackInv, Holds, Present, PlaceInv, Content
    <2>12. CurrentInv'
      BY <2>1, Places DEF Inv, CurrentInv, Present, PlaceInv, Types, TypeOK, OpSet
    <2> QED
      BY <2>2, <2>3, <2>4, <2>5, <2>6, <2>7, <2>8, <2>9, <2>10, <2>11, <2>12 DEF Inv
  <1> QED
    BY <1>1, IdleIs DEF Work, IsIdle, history, Newest

LEMMA CreateBeginKeeps ==
    ASSUME Inv, NEW n \in Names, CreateBegin(n)
    PROVE  Inv'
  <1>1. ASSUME op.cmd = "none" /\ op.name = Nobody /\ op.pc = "idle" /\ op.aside = Nobody,
               commands < MaxCommands /\ commands' = commands + 1,
               ~dirs[n].exists,
               NoFault,
               op' = [cmd |-> "create", name |-> n, pc |-> "mkdir", aside |-> Nobody,
                      status |-> "ok", prior |-> Nothing],
               UNCHANGED <<live, dirs, preRestore, current, packed, good, before, swapped>>
        PROVE  Inv'
    <2>1. /\ op.cmd = "none" /\ op.name = Nobody /\ op.pc = "idle" /\ op.aside = Nobody
          /\ commands < MaxCommands /\ commands' = commands + 1
          /\ ~dirs[n].exists
          /\ faults' = faults /\ faults' \in 0 .. MaxFaults
          /\ UNCHANGED <<live, dirs, preRestore, current, packed, good, before, swapped>>
      BY <1>1, FaultIs, Here, Places DEF Inv, Types
    <2>2. /\ op' \in OpSet
          /\ op'.cmd = "create" /\ op'.name = n /\ op'.pc = "mkdir" /\ op'.aside = Nobody
          /\ op'.status = "ok" /\ op'.prior = Nothing
      BY <1>1, Directories, Places DEF Inv, Types, OpSet, CreatePlaces, RestorePlaces,
         RemovePlaces, UnpackPlaces, Statuses, Shown
    <2>3. Types'
      <3>1. commands' \in 0 .. MaxCommands
        BY <2>1, <2>2, Counted DEF Inv, Types, TypeOK
      <3> QED
        BY <2>1, <2>2, <3>1 DEF Inv, Types, TypeOK, OpSet
    <2>4. PlaceInv'
      BY <2>1, <2>2 DEF Inv, PlaceInv, CreatePlaces, RestorePlaces, RemovePlaces,
         UnpackPlaces
    <2>5. GoneInv'
      BY <2>1, <2>2 DEF Inv, GoneInv
    <2>6. CaptureInv'
      BY <2>1, <2>2 DEF Inv, CaptureInv, PlaceInv, Present
    <2>7. BackupInv'
      BY <2>1, <2>2 DEF Inv, BackupInv, PlaceInv, Files
    <2>8. RestoreInv'
      BY <2>1, <2>2 DEF Inv, RestoreInv, PlaceInv, Present
    <2>9. WholeInv'
      <3>1. ASSUME NEW k \in Names, good'[k] # Nothing, dirs'[k].manifest.status = "ok"
          PROVE  Content(dirs'[k]) = good'[k]
        BY <2>1, <2>2, <3>1, Places DEF Inv, WholeInv, PlaceInv, Types, TypeOK, OpSet
      <3> QED
        BY <3>1 DEF WholeInv
    <2>10. AsideInv'
      BY <2>1, <2>2, Places DEF Inv, AsideInv, PlaceInv, Content, Types, TypeOK, OpSet
    <2>11. KeptInv'
      <3>1. ASSUME NEW k \in Names, good'[k] # Nothing, good[k] = good'[k],
                 NEW d \in Slots, Home(k, d), Holds(d, good[k])
          PROVE  \E x \in Slots : Home(k, x)' /\ Present(x)' /\ Content(dirs'[x]) = Content(dirs[d])
        BY <2>1, <2>2, <3>1, Places DEF Inv, Home, Doomed, Holds, Present, PlaceInv, Types,
           TypeOK, OpSet
      <3> QED
        BY <3>1, <2>1, <2>2 DEF Inv, KeptInv, Holds
    <2>12. UnpackInv'
      BY <2>1, <2>2 DEF Inv, UnpackInv, Holds, Present, PlaceInv, Content
    <2>13. CurrentInv'
      BY <2>1, <2>2, Places DEF Inv, CurrentInv, Present, PlaceInv, Types, TypeOK, OpSet
    <2> QED
      BY <2>3, <2>4, <2>5, <2>6, <2>7, <2>8, <2>9, <2>10, <2>11, <2>12, <2>13 DEF Inv
  <1>2. ASSUME NEW b \in Backups,
               op.cmd = "none" /\ op.name = Nobody /\ op.pc = "idle" /\ op.aside = Nobody,
               commands < MaxCommands /\ commands' = commands + 1,
               dirs[n].exists /\ ~dirs[b].exists,
               NoFault,
               op' = [cmd |-> "create", name |-> n, pc |-> "mkdir", aside |-> b,
                      status |-> "ok", prior |-> Nothing],
               dirs' = [dirs EXCEPT ![b] = dirs[n], ![n] = NoDir],
               UNCHANGED <<live, preRestore, current, packed, good, before, swapped>>
        PROVE  Inv'
    <2>1. /\ op.cmd = "none" /\ op.name = Nobody /\ op.pc = "idle" /\ op.aside = Nobody
          /\ commands < MaxCommands /\ commands' = commands + 1
          /\ dirs[n].exists /\ ~dirs[b].exists
          /\ faults' = faults /\ faults' \in 0 .. MaxFaults
          /\ UNCHANGED <<live, preRestore, current, packed, good, before, swapped>>
      BY <1>2, FaultIs, Here, Places DEF Inv, Types
    <2>2. /\ op' \in OpSet
          /\ op'.cmd = "create" /\ op'.name = n /\ op'.pc = "mkdir" /\ op'.aside = b
          /\ op'.status = "ok" /\ op'.prior = Nothing
      BY <1>2, Directories, Places DEF Inv, Types, OpSet, CreatePlaces, RestorePlaces,
         RemovePlaces, UnpackPlaces, Statuses, Shown
    <2>3. /\ dirs' \in [Slots -> DirSet]
          /\ dirs'[b] = dirs[n] /\ dirs'[n] = NoDir
          /\ \A x \in Slots : x # n /\ x # b => dirs'[x] = dirs[x]
      BY <1>2, <2>1, Moved, Places DEF Inv, PlaceInv
    <2>4. Types'
      <3>1. commands' \in 0 .. MaxCommands
        BY <2>1, <2>2, <2>3, Counted DEF Inv, Types, TypeOK
      <3> QED
        BY <2>1, <2>2, <2>3, <3>1 DEF Inv, Types, TypeOK, OpSet
    <2>5. PlaceInv'
      BY <2>1, <2>2, <2>3 DEF Inv, PlaceInv, CreatePlaces, RestorePlaces, RemovePlaces,
         UnpackPlaces
    <2>6. GoneInv'
      BY <2>1, <2>2, <2>3 DEF Inv, GoneInv
    <2>7. CaptureInv'
      BY <2>1, <2>2, <2>3, Marks, Places, Directories DEF Inv, CaptureInv, PlaceInv,
         Present, Types, TypeOK, OpSet
    <2>8. BackupInv'
      BY <2>1, <2>2, <2>3 DEF Inv, BackupInv, PlaceInv, Files
    <2>9. RestoreInv'
      BY <2>1, <2>2, <2>3 DEF Inv, RestoreInv, PlaceInv, Present
    <2>10. WholeInv'
      <3>1. ASSUME NEW k \in Names, good'[k] # Nothing, dirs'[k].manifest.status = "ok"
          PROVE  Content(dirs'[k]) = good'[k]
        BY <2>1, <2>2, <2>3, <3>1, Marks, Places, Directories DEF Inv, WholeInv, PlaceInv,
           Types, TypeOK, OpSet, Content
      <3> QED
        BY <3>1 DEF WholeInv
    <2>11. AsideInv'
      BY <2>1, <2>2, <2>3, Marks, Places, Directories DEF Inv, AsideInv, PlaceInv, Content,
         Types, TypeOK, OpSet, WholeInv
    <2>12. KeptInv'
      <3>1. ASSUME NEW k \in Names, good'[k] # Nothing, good[k] = good'[k],
                 NEW d \in Slots, Home(k, d), Holds(d, good[k])
          PROVE  \E x \in Slots : Home(k, x)' /\ Present(x)' /\ Content(dirs'[x]) = Content(dirs[d])
        BY <2>1, <2>2, <2>3, <3>1, Places DEF Inv, Home, Doomed, Holds, Present, PlaceInv,
           Types, TypeOK, OpSet
      <3> QED
        BY <3>1, <2>1, <2>2, <2>3 DEF Inv, KeptInv, Holds
    <2>13. UnpackInv'
      BY <2>1, <2>2, <2>3 DEF Inv, UnpackInv, Holds, Present, PlaceInv, Content
    <2>14. CurrentInv'
      BY <2>1, <2>2, <2>3, Places DEF Inv, CurrentInv, Present, PlaceInv, Types, TypeOK,
         OpSet
    <2> QED
      BY <2>4, <2>5, <2>6, <2>7, <2>8, <2>9, <2>10, <2>11, <2>12, <2>13, <2>14 DEF Inv
  <1> QED
    BY <1>1, <1>2, IdleIs DEF CreateBegin, Start, IsIdle, history, Command

LEMMA CreateMkdirKeeps ==
    ASSUME Inv, CreateMkdir
    PROVE  Inv'
  <1>1. ASSUME op.cmd = "create" /\ op.pc = "mkdir",
               NoFault,
               op' = [op EXCEPT !.pc = "local"],
               dirs' = [dirs EXCEPT ![op.name] = EmptyDir],
               UNCHANGED <<live, preRestore, current, packed, commands, good, before, swapped>>
        PROVE  Inv'
    <2>1. /\ op.cmd = "create" /\ op.pc = "mkdir"
          /\ faults' = faults /\ faults' \in 0 .. MaxFaults
          /\ op.name \in Slots /\ dirs[op.name] \in DirSet
          /\ op.aside # Nobody => /\ op.aside \in Slots /\ op.aside # op.name
                                 /\ dirs[op.aside] \in DirSet
          /\ UNCHANGED <<live, preRestore, current, packed, commands, good, before, swapped>>
      BY <1>1, FaultIs, Here, Places DEF Inv, Types
    <2>2. /\ op' \in OpSet
          /\ op'.cmd = op.cmd /\ op'.name = op.name /\ op'.pc = "local" /\ op'.aside = op.aside
          /\ op'.status = op.status /\ op'.prior = op.prior
      BY <1>1, GoesOn DEF Inv, Everywhere, CreatePlaces, RestorePlaces, RemovePlaces,
         UnpackPlaces
    <2>3. /\ dirs' \in [Slots -> DirSet]
          /\ \A x \in Slots : x # op.name => dirs'[x] = dirs[x]
          /\ dirs'[op.name] = EmptyDir
      BY <1>1, <2>1, SetOne, Directories, Places DEF Inv, PlaceInv
    <2>4. Types'
      BY <2>1, <2>2, <2>3 DEF Inv, Types, TypeOK, OpSet
    <2>5. PlaceInv'
      BY <2>1, <2>2, <2>3 DEF Inv, PlaceInv, CreatePlaces, RestorePlaces, RemovePlaces,
         UnpackPlaces
    <2>6. GoneInv'
      BY <2>1, <2>2, <2>3, Marks, Places, Directories DEF Inv, GoneInv, Types, TypeOK, OpSet
    <2>7. CaptureInv'
      BY <2>1, <2>2, <2>3, Marks, Places, Directories DEF Inv, CaptureInv, PlaceInv,
         Present, Types, TypeOK, OpSet
    <2>8. BackupInv'
      BY <2>1, <2>2, <2>3 DEF Inv, BackupInv, PlaceInv, Files
    <2>9. RestoreInv'
      BY <2>1, <2>2, <2>3 DEF Inv, RestoreInv, PlaceInv, Present
    <2>10. WholeInv'
      <3>1. ASSUME NEW n \in Names, good'[n] # Nothing, dirs'[n].manifest.status = "ok"
          PROVE  Content(dirs'[n]) = good'[n]
        BY <2>1, <2>2, <2>3, <3>1, Marks, Places, Directories DEF Inv, WholeInv, PlaceInv,
           Types, TypeOK, OpSet, Content
      <3> QED
        BY <3>1 DEF WholeInv
    <2>11. AsideInv'
      BY <2>1, <2>2, <2>3, Places DEF Inv, AsideInv, PlaceInv, Content, Types, TypeOK, OpSet
    <2>12. KeptInv'
      <3>1. ASSUME NEW n \in Names, good'[n] # Nothing, good[n] = good'[n],
                 NEW d \in Slots, Home(n, d), Holds(d, good[n])
          PROVE  \E x \in Slots : Home(n, x)' /\ Present(x)' /\ Content(dirs'[x]) = Content(dirs[d])
        BY <2>1, <2>2, <2>3, <3>1, Places DEF Inv, Home, Doomed, Holds, Present, PlaceInv,
           Types, TypeOK, OpSet
      <3> QED
        BY <3>1, <2>1, <2>2, <2>3 DEF Inv, KeptInv, Holds
    <2>13. UnpackInv'
      BY <2>1, <2>2, <2>3 DEF Inv, UnpackInv, Holds, Present, PlaceInv, Content
    <2>14. CurrentInv'
      BY <2>1, <2>2, <2>3, Marks, Places, Directories DEF Inv, CurrentInv, Present,
         PlaceInv, Types, TypeOK, OpSet, CaptureInv
    <2> QED
      BY <2>4, <2>5, <2>6, <2>7, <2>8, <2>9, <2>10, <2>11, <2>12, <2>13, <2>14 DEF Inv
  <1> QED
    BY <1>1, GiveUpKeeps, RevertKeeps, IdleIs DEF CreateMkdir, At, InDirs, GoTo, Return,
       history, CreateGivesUp

LEMMA CaptureLocalKeeps ==
    ASSUME Inv, CaptureLocal
    PROVE  Inv'
  <1>1. ASSUME op.cmd = "create" /\ op.pc = "local",
               NoFault,
               op' = [op EXCEPT !.pc = "state"],
               dirs' = [dirs EXCEPT ![op.name] = [dirs[op.name] EXCEPT !.local = live.local]],
               UNCHANGED <<live, preRestore, current, packed, commands, good, before, swapped>>
        PROVE  Inv'
    <2>1. /\ op.cmd = "create" /\ op.pc = "local"
          /\ faults' = faults /\ faults' \in 0 .. MaxFaults
          /\ op.name \in Slots /\ dirs[op.name] \in DirSet
          /\ op.aside # Nobody => /\ op.aside \in Slots /\ op.aside # op.name
                                 /\ dirs[op.aside] \in DirSet
          /\ UNCHANGED <<live, preRestore, current, packed, commands, good, before, swapped>>
      BY <1>1, FaultIs, Here, Places DEF Inv, Types
    <2>2. /\ op' \in OpSet
          /\ op'.cmd = op.cmd /\ op'.name = op.name /\ op'.pc = "state" /\ op'.aside = op.aside
          /\ op'.status = op.status /\ op'.prior = op.prior
      BY <1>1, GoesOn DEF Inv, Everywhere, CreatePlaces, RestorePlaces, RemovePlaces,
         UnpackPlaces
    <2>3. op.name \in Slots /\ [dirs[op.name] EXCEPT !.local = live.local] \in DirSet
      BY <1>1, <2>1 DEF Inv, Types, TypeOK, DirSet
    <2>4. /\ dirs' \in [Slots -> DirSet]
          /\ \A x \in Slots : x # op.name => dirs'[x] = dirs[x]
          /\ dirs'[op.name].exists = dirs[op.name].exists /\ dirs'[op.name].local = live.local
             /\ dirs'[op.name].state = dirs[op.name].state /\ dirs'[op.name].art = dirs[op.name].art
          /\ dirs'[op.name].manifest = dirs[op.name].manifest
      BY <1>1, <2>1, <2>3, SetOne DEF Inv, DirSet, Statuses
    <2>5. Types'
      BY <2>1, <2>2, <2>4 DEF Inv, Types, TypeOK, OpSet
    <2>6. PlaceInv'
      BY <2>1, <2>2, <2>4 DEF Inv, PlaceInv, CreatePlaces, RestorePlaces, RemovePlaces,
         UnpackPlaces
    <2>7. GoneInv'
      BY <2>1, <2>2, <2>4, Marks, Places, Directories DEF Inv, GoneInv, Types, TypeOK,
         OpSet, CaptureInv
    <2>8. CaptureInv'
      BY <2>1, <2>2, <2>4 DEF Inv, CaptureInv, PlaceInv, Present
    <2>9. BackupInv'
      BY <2>1, <2>2, <2>4 DEF Inv, BackupInv, PlaceInv, Files
    <2>10. RestoreInv'
      BY <2>1, <2>2, <2>4 DEF Inv, RestoreInv, PlaceInv, Present
    <2>11. WholeInv'
      <3>1. ASSUME NEW n \in Names, good'[n] # Nothing, dirs'[n].manifest.status = "ok"
          PROVE  Content(dirs'[n]) = good'[n]
        BY <2>1, <2>2, <2>4, <3>1, Marks, Places, Directories DEF Inv, WholeInv, PlaceInv,
           Types, TypeOK, OpSet, Content, CaptureInv
      <3> QED
        BY <3>1 DEF WholeInv
    <2>12. AsideInv'
      BY <2>1, <2>2, <2>4, Places DEF Inv, AsideInv, PlaceInv, Content, Types, TypeOK, OpSet
    <2>13. KeptInv'
      <3>1. ASSUME NEW n \in Names, good'[n] # Nothing, good[n] = good'[n],
                 NEW d \in Slots, Home(n, d), Holds(d, good[n])
          PROVE  \E x \in Slots : Home(n, x)' /\ Present(x)' /\ Content(dirs'[x]) = Content(dirs[d])
        BY <2>1, <2>2, <2>4, <3>1, Places DEF Inv, Home, Doomed, Holds, Present, PlaceInv,
           Types, TypeOK, OpSet
      <3> QED
        BY <3>1, <2>1, <2>2, <2>4 DEF Inv, KeptInv, Holds
    <2>14. UnpackInv'
      BY <2>1, <2>2, <2>4 DEF Inv, UnpackInv, Holds, Present, PlaceInv, Content
    <2>15. CurrentInv'
      BY <2>1, <2>2, <2>4, Places DEF Inv, CurrentInv, Present, PlaceInv, Types, TypeOK,
         OpSet
    <2> QED
      BY <2>5, <2>6, <2>7, <2>8, <2>9, <2>10, <2>11, <2>12, <2>13, <2>14, <2>15 DEF Inv
  <1> QED
    BY <1>1, GiveUpKeeps, RevertKeeps, IdleIs DEF CaptureLocal, At, InDirs, GoTo, Return,
       history, CreateGivesUp, Copied, Inv, CaptureInv

LEMMA CaptureStateKeeps ==
    ASSUME Inv, CaptureState
    PROVE  Inv'
  <1>1. ASSUME op.cmd = "create" /\ op.pc = "state",
               NoFault,
               op' = [op EXCEPT !.pc = "workflow"],
               dirs' = [dirs EXCEPT ![op.name] = [dirs[op.name] EXCEPT !.state = live.state]],
               UNCHANGED <<live, preRestore, current, packed, commands, good, before, swapped>>
        PROVE  Inv'
    <2>1. /\ op.cmd = "create" /\ op.pc = "state"
          /\ faults' = faults /\ faults' \in 0 .. MaxFaults
          /\ op.name \in Slots /\ dirs[op.name] \in DirSet
          /\ op.aside # Nobody => /\ op.aside \in Slots /\ op.aside # op.name
                                 /\ dirs[op.aside] \in DirSet
          /\ UNCHANGED <<live, preRestore, current, packed, commands, good, before, swapped>>
      BY <1>1, FaultIs, Here, Places DEF Inv, Types
    <2>2. /\ op' \in OpSet
          /\ op'.cmd = op.cmd /\ op'.name = op.name /\ op'.pc = "workflow" /\ op'.aside = op.aside
          /\ op'.status = op.status /\ op'.prior = op.prior
      BY <1>1, GoesOn DEF Inv, Everywhere, CreatePlaces, RestorePlaces, RemovePlaces,
         UnpackPlaces
    <2>3. op.name \in Slots /\ [dirs[op.name] EXCEPT !.state = live.state] \in DirSet
      BY <1>1, <2>1 DEF Inv, Types, TypeOK, DirSet
    <2>4. /\ dirs' \in [Slots -> DirSet]
          /\ \A x \in Slots : x # op.name => dirs'[x] = dirs[x]
          /\ dirs'[op.name].exists = dirs[op.name].exists
          /\ dirs'[op.name].local = dirs[op.name].local
             /\ dirs'[op.name].state = live.state /\ dirs'[op.name].art = dirs[op.name].art
          /\ dirs'[op.name].manifest = dirs[op.name].manifest
      BY <1>1, <2>1, <2>3, SetOne DEF Inv, DirSet, Statuses
    <2>5. Types'
      BY <2>1, <2>2, <2>4 DEF Inv, Types, TypeOK, OpSet
    <2>6. PlaceInv'
      BY <2>1, <2>2, <2>4 DEF Inv, PlaceInv, CreatePlaces, RestorePlaces, RemovePlaces,
         UnpackPlaces
    <2>7. GoneInv'
      BY <2>1, <2>2, <2>4, Marks, Places, Directories DEF Inv, GoneInv, Types, TypeOK,
         OpSet, CaptureInv
    <2>8. CaptureInv'
      BY <2>1, <2>2, <2>4 DEF Inv, CaptureInv, PlaceInv, Present
    <2>9. BackupInv'
      BY <2>1, <2>2, <2>4 DEF Inv, BackupInv, PlaceInv, Files
    <2>10. RestoreInv'
      BY <2>1, <2>2, <2>4 DEF Inv, RestoreInv, PlaceInv, Present
    <2>11. WholeInv'
      <3>1. ASSUME NEW n \in Names, good'[n] # Nothing, dirs'[n].manifest.status = "ok"
          PROVE  Content(dirs'[n]) = good'[n]
        BY <2>1, <2>2, <2>4, <3>1, Marks, Places, Directories DEF Inv, WholeInv, PlaceInv,
           Types, TypeOK, OpSet, Content, CaptureInv
      <3> QED
        BY <3>1 DEF WholeInv
    <2>12. AsideInv'
      BY <2>1, <2>2, <2>4, Places DEF Inv, AsideInv, PlaceInv, Content, Types, TypeOK, OpSet
    <2>13. KeptInv'
      <3>1. ASSUME NEW n \in Names, good'[n] # Nothing, good[n] = good'[n],
                 NEW d \in Slots, Home(n, d), Holds(d, good[n])
          PROVE  \E x \in Slots : Home(n, x)' /\ Present(x)' /\ Content(dirs'[x]) = Content(dirs[d])
        BY <2>1, <2>2, <2>4, <3>1, Places DEF Inv, Home, Doomed, Holds, Present, PlaceInv,
           Types, TypeOK, OpSet
      <3> QED
        BY <3>1, <2>1, <2>2, <2>4 DEF Inv, KeptInv, Holds
    <2>14. UnpackInv'
      BY <2>1, <2>2, <2>4 DEF Inv, UnpackInv, Holds, Present, PlaceInv, Content
    <2>15. CurrentInv'
      BY <2>1, <2>2, <2>4, Places DEF Inv, CurrentInv, Present, PlaceInv, Types, TypeOK,
         OpSet
    <2> QED
      BY <2>5, <2>6, <2>7, <2>8, <2>9, <2>10, <2>11, <2>12, <2>13, <2>14, <2>15 DEF Inv
  <1> QED
    BY <1>1, GiveUpKeeps, RevertKeeps, IdleIs DEF CaptureState, At, InDirs, GoTo, Return,
       history, CreateGivesUp, Copied, Inv, CaptureInv

LEMMA CreateWorkflowKeeps ==
    ASSUME Inv, CreateWorkflow
    PROVE  Inv'
  <1>1. ASSUME NEW s \in Statuses,
               NEW a \in {live.data, Missing},
               op.cmd = "create" /\ op.pc = "workflow",
               s = "ok" => a = live.data,
               NoFault,
               op' = [op EXCEPT !.pc = "manifest", !.status = s],
               dirs' = [dirs EXCEPT ![op.name] = [dirs[op.name] EXCEPT !.art = a]],
               UNCHANGED <<live, preRestore, current, packed, commands, good, before, swapped>>
        PROVE  Inv'
    <2>1. /\ op.cmd = "create" /\ op.pc = "workflow"
          /\ s = "ok" => a = live.data
          /\ faults' = faults /\ faults' \in 0 .. MaxFaults
          /\ op.name \in Slots /\ dirs[op.name] \in DirSet
          /\ op.aside # Nobody => /\ op.aside \in Slots /\ op.aside # op.name
                                 /\ dirs[op.aside] \in DirSet
          /\ UNCHANGED <<live, preRestore, current, packed, commands, good, before, swapped>>
      BY <1>1, FaultIs, Here, Places DEF Inv, Types
    <2>2. /\ op' \in OpSet
          /\ op'.cmd = op.cmd /\ op'.name = op.name /\ op'.pc = "manifest" /\ op'.aside = op.aside
          /\ op'.status = s /\ op'.prior = op.prior
      BY <1>1, GoesTo DEF Inv, Everywhere, CreatePlaces, RestorePlaces, RemovePlaces,
         UnpackPlaces
    <2>3. op.name \in Slots /\ [dirs[op.name] EXCEPT !.art = a] \in DirSet
      BY <1>1, <2>1 DEF Inv, Types, TypeOK, DirSet
    <2>4. /\ dirs' \in [Slots -> DirSet]
          /\ \A x \in Slots : x # op.name => dirs'[x] = dirs[x]
          /\ dirs'[op.name].exists = dirs[op.name].exists
          /\ dirs'[op.name].local = dirs[op.name].local
             /\ dirs'[op.name].state = dirs[op.name].state /\ dirs'[op.name].art = a
          /\ dirs'[op.name].manifest = dirs[op.name].manifest
      BY <1>1, <2>1, <2>3, SetOne DEF Inv, DirSet, Statuses
    <2>5. Types'
      BY <2>1, <2>2, <2>4 DEF Inv, Types, TypeOK, OpSet
    <2>6. PlaceInv'
      BY <2>1, <2>2, <2>4 DEF Inv, PlaceInv, CreatePlaces, RestorePlaces, RemovePlaces,
         UnpackPlaces
    <2>7. GoneInv'
      BY <2>1, <2>2, <2>4, Marks, Places, Directories DEF Inv, GoneInv, Types, TypeOK,
         OpSet, CaptureInv
    <2>8. CaptureInv'
      BY <2>1, <2>2, <2>4 DEF Inv, CaptureInv, PlaceInv, Present
    <2>9. BackupInv'
      BY <2>1, <2>2, <2>4 DEF Inv, BackupInv, PlaceInv, Files
    <2>10. RestoreInv'
      BY <2>1, <2>2, <2>4 DEF Inv, RestoreInv, PlaceInv, Present
    <2>11. WholeInv'
      <3>1. ASSUME NEW n \in Names, good'[n] # Nothing, dirs'[n].manifest.status = "ok"
          PROVE  Content(dirs'[n]) = good'[n]
        BY <2>1, <2>2, <2>4, <3>1, Marks, Places, Directories DEF Inv, WholeInv, PlaceInv,
           Types, TypeOK, OpSet, Content, CaptureInv
      <3> QED
        BY <3>1 DEF WholeInv
    <2>12. AsideInv'
      BY <2>1, <2>2, <2>4, Places DEF Inv, AsideInv, PlaceInv, Content, Types, TypeOK, OpSet
    <2>13. KeptInv'
      <3>1. ASSUME NEW n \in Names, good'[n] # Nothing, good[n] = good'[n],
                 NEW d \in Slots, Home(n, d), Holds(d, good[n])
          PROVE  \E x \in Slots : Home(n, x)' /\ Present(x)' /\ Content(dirs'[x]) = Content(dirs[d])
        BY <2>1, <2>2, <2>4, <3>1, Places DEF Inv, Home, Doomed, Holds, Present, PlaceInv,
           Types, TypeOK, OpSet
      <3> QED
        BY <3>1, <2>1, <2>2, <2>4 DEF Inv, KeptInv, Holds
    <2>14. UnpackInv'
      BY <2>1, <2>2, <2>4 DEF Inv, UnpackInv, Holds, Present, PlaceInv, Content
    <2>15. CurrentInv'
      BY <2>1, <2>2, <2>4, Places DEF Inv, CurrentInv, Present, PlaceInv, Types, TypeOK,
         OpSet
    <2> QED
      BY <2>5, <2>6, <2>7, <2>8, <2>9, <2>10, <2>11, <2>12, <2>13, <2>14, <2>15 DEF Inv
  <1> QED
    BY <1>1, IdleIs DEF CreateWorkflow, At, InDirs, history

LEMMA CreateManifestKeeps ==
    ASSUME Inv, CreateManifest
    PROVE  Inv'
  <1> DEFINE m(s) == [name |-> op.name, status |-> s, hash |-> live.state,
                      restored |-> "none"]
  <1>1. op.name \in Names
    BY DEF Inv, PlaceInv, CreateManifest, At
  <1>2. \A s \in Statuses : m(s) \in ManifestSet /\ m(s) # NoManifest /\ m(s).status = s
    BY <1>1, Manifests
  <1> HIDE DEF m
  <1>3. ASSUME NEW p \in {"current", "drop"},
               op.cmd = "create" /\ op.pc = "manifest" /\ op.status = "ok",
               p = IF op.aside = Nobody THEN "current" ELSE "drop",
               NoFault,
               good' = [good EXCEPT ![op.name] = Content(dirs[op.name])],
               op' = [op EXCEPT !.pc = p],
               dirs' = [dirs EXCEPT ![op.name] = [dirs[op.name] EXCEPT !.manifest = m("ok")]],
               UNCHANGED <<live, preRestore, current, packed, commands, before, swapped>>
        PROVE  Inv'
    <2>1. /\ op.cmd = "create" /\ op.pc = "manifest" /\ op.status = "ok"
          /\ p = IF op.aside = Nobody THEN "current" ELSE "drop"
          /\ faults' = faults /\ faults' \in 0 .. MaxFaults
          /\ good' = [good EXCEPT ![op.name] = Content(dirs[op.name])]
          /\ op.name \in Slots /\ dirs[op.name] \in DirSet
          /\ op.aside # Nobody => /\ op.aside \in Slots /\ op.aside # op.name
                                 /\ dirs[op.aside] \in DirSet
          /\ UNCHANGED <<live, preRestore, current, packed, commands, before, swapped>>
      BY <1>3, FaultIs, Here, Places DEF Inv, Types
    <2>2. /\ op' \in OpSet
          /\ op'.cmd = op.cmd /\ op'.name = op.name /\ op'.pc = p /\ op'.aside = op.aside
          /\ op'.status = op.status /\ op'.prior = op.prior
      BY <1>3, GoesOn DEF Inv, Everywhere, CreatePlaces, RestorePlaces, RemovePlaces,
         UnpackPlaces
    <2>3. op.name \in Slots /\ [dirs[op.name] EXCEPT !.manifest = m("ok")] \in DirSet
      BY <1>3, <2>1, <1>2 DEF Inv, Types, TypeOK, DirSet, ManifestSet, Statuses
    <2>4. /\ dirs' \in [Slots -> DirSet]
          /\ \A x \in Slots : x # op.name => dirs'[x] = dirs[x]
          /\ dirs'[op.name].exists = dirs[op.name].exists
          /\ dirs'[op.name].local = dirs[op.name].local
             /\ dirs'[op.name].state = dirs[op.name].state /\ dirs'[op.name].art = dirs[op.name].art
          /\ dirs'[op.name].manifest = m("ok")
          /\ dirs'[op.name].manifest.status = "ok" /\ dirs'[op.name].manifest # NoManifest
      BY <1>3, <2>1, <2>3, SetOne, <1>2 DEF Inv, DirSet, Statuses
    <2>5. Types'
      <3>1. good' \in [Names -> ContentSet]
        BY <2>1, <2>2, <2>4, Here, Directories, Places DEF Inv, Types, TypeOK, OpSet,
           PlaceInv
      <3> QED
        BY <2>1, <2>2, <2>4, <3>1 DEF Inv, Types, TypeOK, OpSet
    <2>6. PlaceInv'
      BY <2>1, <2>2, <2>4 DEF Inv, PlaceInv, CreatePlaces, RestorePlaces, RemovePlaces,
         UnpackPlaces
    <2>7. GoneInv'
      BY <2>1, <2>2, <2>4, Marks, Places, Directories DEF Inv, GoneInv, Types, TypeOK,
         OpSet, CaptureInv
    <2>8. CaptureInv'
      BY <2>1, <2>2, <2>4 DEF Inv, CaptureInv, PlaceInv, Present
    <2>9. BackupInv'
      BY <2>1, <2>2, <2>4 DEF Inv, BackupInv, PlaceInv, Files
    <2>10. RestoreInv'
      BY <2>1, <2>2, <2>4 DEF Inv, RestoreInv, PlaceInv, Present
    <2>11. WholeInv'
      <3>1. ASSUME NEW n \in Names, good'[n] # Nothing, dirs'[n].manifest.status = "ok"
          PROVE  Content(dirs'[n]) = good'[n]
        BY <2>1, <2>2, <2>4, <3>1, Marks, Places, Directories DEF Inv, WholeInv, PlaceInv,
           Types, TypeOK, OpSet, Content
      <3> QED
        BY <3>1 DEF WholeInv
    <2>12. AsideInv'
      BY <2>1, <2>2, <2>4, Places DEF Inv, AsideInv, PlaceInv, Content, Types, TypeOK, OpSet
    <2>13. KeptInv'
      <3>1. ASSUME NEW n \in Names, n # op.name, good'[n] # Nothing,
                   NEW d \in Slots, Home(n, d), Holds(d, good[n])
            PROVE  good'[n] = good[n] /\ Home(n, d)' /\ Present(d)' /\ Content(dirs'[d]) = good[n]
        BY <3>1, <2>1, <2>2, <2>4, Places DEF Inv, Home, Doomed, Holds, Present, PlaceInv,
           Types
      <3>2. ASSUME NEW n \in Names, n = op.name, good'[n] # Nothing
            PROVE  \E d \in Slots : Home(n, d)' /\ Present(d)' /\ Content(dirs'[d]) = good'[n]
        BY <3>2, <2>1, <2>2, <2>4, Places, Directories DEF Inv, Home, Doomed, Holds,
           Present, PlaceInv, Types, TypeOK, CaptureInv, Content
      <3>3. op.name \in Names /\ good' \in [Names -> ContentSet]
        BY <2>1, <2>2, <2>4, Directories DEF Inv, PlaceInv, Types, TypeOK, OpSet
      <3>4. ASSUME NEW n \in Names, n # op.name, good'[n] # Nothing
            PROVE  good[n] = good'[n]
        BY <3>4, <2>1, <2>2, <2>4, <3>3 DEF Inv, Types
      <3> QED
        BY <3>1, <3>2, <3>3, <3>4, <2>1, <2>2, <2>4 DEF Inv, KeptInv, Holds
    <2>14. UnpackInv'
      BY <2>1, <2>2, <2>4 DEF Inv, UnpackInv, Holds, Present, PlaceInv, Content
    <2>15. CurrentInv'
      BY <2>1, <2>2, <2>4, Marks, Places, Directories DEF Inv, CurrentInv, Present,
         PlaceInv, Types, TypeOK, OpSet, CaptureInv
    <2> QED
      BY <2>5, <2>6, <2>7, <2>8, <2>9, <2>10, <2>11, <2>12, <2>13, <2>14, <2>15 DEF Inv
  <1>4. ASSUME NEW s \in Statuses,
               op.cmd = "create" /\ op.pc = "manifest" /\ op.aside = Nobody,
               s # "ok",
               \/ faults' = faults /\ faults' \in 0 .. MaxFaults
               \/ faults' # 0 /\ faults' \in 0 .. MaxFaults,
               op' = Idle,
               dirs' = [dirs EXCEPT ![op.name] = [dirs[op.name] EXCEPT !.manifest = m(s)]],
               UNCHANGED <<live, preRestore, current, packed, commands, good, before, swapped>>
        PROVE  Inv'
    <2>1. /\ op.cmd = "create" /\ op.pc = "manifest" /\ op.aside = Nobody
          /\ s # "ok"
          /\ \/ faults' = faults /\ faults' \in 0 .. MaxFaults
             \/ faults' # 0 /\ faults' \in 0 .. MaxFaults
          /\ op.name \in Slots /\ dirs[op.name] \in DirSet
          /\ op.aside # Nobody => /\ op.aside \in Slots /\ op.aside # op.name
                                 /\ dirs[op.aside] \in DirSet
          /\ UNCHANGED <<live, preRestore, current, packed, commands, good, before, swapped>>
      BY <1>4, FaultIs, Here, Places DEF Inv, Types
    <2>2. /\ op' \in OpSet /\ op' = Idle
          /\ op'.cmd = "none" /\ op'.name = Nobody /\ op'.pc = "idle" /\ op'.aside = Nobody
      BY <1>4, Ends
    <2>3. op.name \in Slots /\ [dirs[op.name] EXCEPT !.manifest = m(s)] \in DirSet
      BY <1>4, <2>1, <1>2 DEF Inv, Types, TypeOK, DirSet, ManifestSet, Statuses
    <2>4. /\ dirs' \in [Slots -> DirSet]
          /\ \A x \in Slots : x # op.name => dirs'[x] = dirs[x]
          /\ dirs'[op.name].exists = dirs[op.name].exists
          /\ dirs'[op.name].local = dirs[op.name].local
             /\ dirs'[op.name].state = dirs[op.name].state /\ dirs'[op.name].art = dirs[op.name].art
          /\ dirs'[op.name].manifest = m(s)
          /\ dirs'[op.name].manifest.status = s /\ dirs'[op.name].manifest # NoManifest
      BY <1>4, <2>1, <2>3, SetOne, <1>2 DEF Inv, DirSet, Statuses
    <2>5. Types'
      BY <2>1, <2>2, <2>4 DEF Inv, Types, TypeOK, OpSet
    <2>6. PlaceInv'
      BY <2>1, <2>2, <2>4 DEF Inv, PlaceInv, CreatePlaces, RestorePlaces, RemovePlaces,
         UnpackPlaces
    <2>7. GoneInv'
      BY <2>1, <2>2, <2>4, Marks, Places, Directories DEF Inv, GoneInv, Types, TypeOK,
         OpSet, CaptureInv
    <2>8. CaptureInv'
      BY <2>1, <2>2, <2>4 DEF Inv, CaptureInv, PlaceInv, Present
    <2>9. BackupInv'
      BY <2>1, <2>2, <2>4 DEF Inv, BackupInv, PlaceInv, Files
    <2>10. RestoreInv'
      BY <2>1, <2>2, <2>4 DEF Inv, RestoreInv, PlaceInv, Present
    <2>11. WholeInv'
      <3>1. ASSUME NEW n \in Names, good'[n] # Nothing, dirs'[n].manifest.status = "ok"
          PROVE  Content(dirs'[n]) = good'[n]
        BY <2>1, <2>2, <2>4, <3>1, Places DEF Inv, WholeInv, PlaceInv, Types, TypeOK, OpSet
      <3> QED
        BY <3>1 DEF WholeInv
    <2>12. AsideInv'
      BY <2>1, <2>2, <2>4, Places DEF Inv, AsideInv, PlaceInv, Content, Types, TypeOK, OpSet
    <2>13. KeptInv'
      <3>1. ASSUME NEW n \in Names, good'[n] # Nothing, good[n] = good'[n],
                 NEW d \in Slots, Home(n, d), Holds(d, good[n])
          PROVE  \E x \in Slots : Home(n, x)' /\ Present(x)' /\ Content(dirs'[x]) = Content(dirs[d])
        BY <2>1, <2>2, <2>4, <3>1, Places DEF Inv, Home, Doomed, Holds, Present, PlaceInv,
           Types, TypeOK, OpSet
      <3> QED
        BY <3>1, <2>1, <2>2, <2>4 DEF Inv, KeptInv, Holds
    <2>14. UnpackInv'
      BY <2>1, <2>2, <2>4 DEF Inv, UnpackInv, Holds, Present, PlaceInv, Content
    <2>15. CurrentInv'
      BY <2>1, <2>2, <2>4, Places DEF Inv, CurrentInv, Present, PlaceInv, Types, TypeOK,
         OpSet
    <2> QED
      BY <2>5, <2>6, <2>7, <2>8, <2>9, <2>10, <2>11, <2>12, <2>13, <2>14, <2>15 DEF Inv
  <1>5. ASSUME NEW s \in Statuses,
               op.cmd = "create" /\ op.pc = "manifest" /\ op.aside # Nobody,
               s # "ok",
               \/ faults' = faults /\ faults' \in 0 .. MaxFaults
               \/ faults' # 0 /\ faults' \in 0 .. MaxFaults,
               op' = [op EXCEPT !.pc = "revert"],
               dirs' = [dirs EXCEPT ![op.name] = [dirs[op.name] EXCEPT !.manifest = m(s)]],
               UNCHANGED <<live, preRestore, current, packed, commands, good, before, swapped>>
        PROVE  Inv'
    <2>1. /\ op.cmd = "create" /\ op.pc = "manifest" /\ op.aside # Nobody
          /\ s # "ok"
          /\ \/ faults' = faults /\ faults' \in 0 .. MaxFaults
             \/ faults' # 0 /\ faults' \in 0 .. MaxFaults
          /\ op.name \in Slots /\ dirs[op.name] \in DirSet
          /\ op.aside # Nobody => /\ op.aside \in Slots /\ op.aside # op.name
                                 /\ dirs[op.aside] \in DirSet
          /\ UNCHANGED <<live, preRestore, current, packed, commands, good, before, swapped>>
      BY <1>5, FaultIs, Here, Places DEF Inv, Types
    <2>2. /\ op' \in OpSet
          /\ op'.cmd = op.cmd /\ op'.name = op.name /\ op'.pc = "revert" /\ op'.aside = op.aside
          /\ op'.status = op.status /\ op'.prior = op.prior
      BY <1>5, GoesOn DEF Inv, Everywhere, CreatePlaces, RestorePlaces, RemovePlaces,
         UnpackPlaces
    <2>3. op.name \in Slots /\ [dirs[op.name] EXCEPT !.manifest = m(s)] \in DirSet
      BY <1>5, <2>1, <1>2 DEF Inv, Types, TypeOK, DirSet, ManifestSet, Statuses
    <2>4. /\ dirs' \in [Slots -> DirSet]
          /\ \A x \in Slots : x # op.name => dirs'[x] = dirs[x]
          /\ dirs'[op.name].exists = dirs[op.name].exists
          /\ dirs'[op.name].local = dirs[op.name].local
             /\ dirs'[op.name].state = dirs[op.name].state /\ dirs'[op.name].art = dirs[op.name].art
          /\ dirs'[op.name].manifest = m(s)
          /\ dirs'[op.name].manifest.status = s /\ dirs'[op.name].manifest # NoManifest
      BY <1>5, <2>1, <2>3, SetOne, <1>2 DEF Inv, DirSet, Statuses
    <2>5. Types'
      BY <2>1, <2>2, <2>4 DEF Inv, Types, TypeOK, OpSet
    <2>6. PlaceInv'
      BY <2>1, <2>2, <2>4 DEF Inv, PlaceInv, CreatePlaces, RestorePlaces, RemovePlaces,
         UnpackPlaces
    <2>7. GoneInv'
      BY <2>1, <2>2, <2>4, Marks, Places, Directories DEF Inv, GoneInv, Types, TypeOK,
         OpSet, CaptureInv
    <2>8. CaptureInv'
      BY <2>1, <2>2, <2>4 DEF Inv, CaptureInv, PlaceInv, Present
    <2>9. BackupInv'
      BY <2>1, <2>2, <2>4 DEF Inv, BackupInv, PlaceInv, Files
    <2>10. RestoreInv'
      BY <2>1, <2>2, <2>4 DEF Inv, RestoreInv, PlaceInv, Present
    <2>11. WholeInv'
      <3>1. ASSUME NEW n \in Names, good'[n] # Nothing, dirs'[n].manifest.status = "ok"
          PROVE  Content(dirs'[n]) = good'[n]
        BY <2>1, <2>2, <2>4, <3>1, Places DEF Inv, WholeInv, PlaceInv, Types, TypeOK, OpSet
      <3> QED
        BY <3>1 DEF WholeInv
    <2>12. AsideInv'
      BY <2>1, <2>2, <2>4, Places DEF Inv, AsideInv, PlaceInv, Content, Types, TypeOK, OpSet
    <2>13. KeptInv'
      <3>1. ASSUME NEW n \in Names, good'[n] # Nothing, good[n] = good'[n],
                 NEW d \in Slots, Home(n, d), Holds(d, good[n])
          PROVE  \E x \in Slots : Home(n, x)' /\ Present(x)' /\ Content(dirs'[x]) = Content(dirs[d])
        BY <2>1, <2>2, <2>4, <3>1, Places DEF Inv, Home, Doomed, Holds, Present, PlaceInv,
           Types, TypeOK, OpSet
      <3> QED
        BY <3>1, <2>1, <2>2, <2>4 DEF Inv, KeptInv, Holds
    <2>14. UnpackInv'
      BY <2>1, <2>2, <2>4 DEF Inv, UnpackInv, Holds, Present, PlaceInv, Content
    <2>15. CurrentInv'
      BY <2>1, <2>2, <2>4, Places DEF Inv, CurrentInv, Present, PlaceInv, Types, TypeOK,
         OpSet
    <2> QED
      BY <2>5, <2>6, <2>7, <2>8, <2>9, <2>10, <2>11, <2>12, <2>13, <2>14, <2>15 DEF Inv
  <1> QED
    BY <1>3, <1>4, <1>5, GiveUpKeeps, RevertKeeps, FaultIs, IdleIs DEF CreateManifest, At,
       GoTo, Return, Unfinished, WriteManifest, m, Statuses, Inv, Types, OpSet

LEMMA RevertRemoveKeeps ==
    ASSUME Inv, RevertRemove
    PROVE  Inv'
  <1>1. ASSUME op.cmd = "create" /\ op.pc = "revert",
               NoFault,
               op' = [op EXCEPT !.pc = "rename_back"],
               dirs' = [dirs EXCEPT ![op.name] = NoDir],
               UNCHANGED <<live, preRestore, current, packed, commands, good, before, swapped>>
        PROVE  Inv'
    <2>1. /\ op.cmd = "create" /\ op.pc = "revert"
          /\ faults' = faults /\ faults' \in 0 .. MaxFaults
          /\ op.name \in Slots /\ dirs[op.name] \in DirSet
          /\ op.aside # Nobody => /\ op.aside \in Slots /\ op.aside # op.name
                                 /\ dirs[op.aside] \in DirSet
          /\ UNCHANGED <<live, preRestore, current, packed, commands, good, before, swapped>>
      BY <1>1, FaultIs, Here, Places DEF Inv, Types
    <2>2. /\ op' \in OpSet
          /\ op'.cmd = op.cmd /\ op'.name = op.name
          /\ op'.pc = "rename_back" /\ op'.aside = op.aside
          /\ op'.status = op.status /\ op'.prior = op.prior
      BY <1>1, GoesOn DEF Inv, Everywhere, CreatePlaces, RestorePlaces, RemovePlaces,
         UnpackPlaces
    <2>3. /\ dirs' \in [Slots -> DirSet]
          /\ \A x \in Slots : x # op.name => dirs'[x] = dirs[x]
          /\ dirs'[op.name] = NoDir
      BY <1>1, <2>1, SetOne, Directories, Places DEF Inv, PlaceInv
    <2>4. Types'
      BY <2>1, <2>2, <2>3 DEF Inv, Types, TypeOK, OpSet
    <2>5. PlaceInv'
      BY <2>1, <2>2, <2>3, Places DEF Inv, PlaceInv, CreatePlaces, RestorePlaces,
         RemovePlaces, UnpackPlaces, Types, TypeOK, OpSet
    <2>6. GoneInv'
      BY <2>1, <2>2, <2>3 DEF Inv, GoneInv
    <2>7. CaptureInv'
      BY <2>1, <2>2, <2>3 DEF Inv, CaptureInv, PlaceInv, Present
    <2>8. BackupInv'
      BY <2>1, <2>2, <2>3 DEF Inv, BackupInv, PlaceInv, Files
    <2>9. RestoreInv'
      BY <2>1, <2>2, <2>3 DEF Inv, RestoreInv, PlaceInv, Present
    <2>10. WholeInv'
      <3>1. ASSUME NEW n \in Names, good'[n] # Nothing, dirs'[n].manifest.status = "ok"
          PROVE  Content(dirs'[n]) = good'[n]
        BY <2>1, <2>2, <2>3, <3>1, Marks, Places, Directories DEF Inv, WholeInv, PlaceInv,
           Types, TypeOK, OpSet, Content
      <3> QED
        BY <3>1 DEF WholeInv
    <2>11. AsideInv'
      BY <2>1, <2>2, <2>3, Places DEF Inv, AsideInv, PlaceInv, Content, Types, TypeOK, OpSet
    <2>12. KeptInv'
      <3>1. ASSUME NEW n \in Names, good'[n] # Nothing, good[n] = good'[n],
                 NEW d \in Slots, Home(n, d), Holds(d, good[n])
          PROVE  \E x \in Slots : Home(n, x)' /\ Present(x)' /\ Content(dirs'[x]) = Content(dirs[d])
        BY <2>1, <2>2, <2>3, <3>1, Places DEF Inv, Home, Doomed, Holds, Present, PlaceInv,
           Types, TypeOK, OpSet
      <3> QED
        BY <3>1, <2>1, <2>2, <2>3 DEF Inv, KeptInv, Holds
    <2>13. UnpackInv'
      BY <2>1, <2>2, <2>3 DEF Inv, UnpackInv, Holds, Present, PlaceInv, Content
    <2>14. CurrentInv'
      <3>1. CASE current = op.name
        BY <3>1, <2>1, <2>2, <2>3 DEF Inv, CurrentInv, Present, PlaceInv
      <3>2. CASE current # op.name
        BY <3>2, <2>1, <2>2, <2>3 DEF Inv, CurrentInv, Present, PlaceInv, Types, TypeOK,
           Shown, Slots
      <3> QED
        BY <3>1, <3>2
    <2> QED
      BY <2>4, <2>5, <2>6, <2>7, <2>8, <2>9, <2>10, <2>11, <2>12, <2>13, <2>14 DEF Inv
  <1> QED
    BY <1>1, CutKeeps, Here, IdleIs DEF RevertRemove, At, InDirs, GoTo, Return, history

LEMMA RevertRenameKeeps ==
    ASSUME Inv, RevertRename
    PROVE  Inv'
  <1>1. ASSUME op.cmd = "create" /\ op.pc = "rename_back",
               NoFault,
               op' = Idle,
               dirs' = [dirs EXCEPT ![op.name] = dirs[op.aside], ![op.aside] = NoDir],
               UNCHANGED <<live, preRestore, current, packed, commands, good, before, swapped>>
        PROVE  Inv'
    <2>1. /\ op.cmd = "create" /\ op.pc = "rename_back"
          /\ faults' = faults /\ faults' \in 0 .. MaxFaults
          /\ op.name \in Slots /\ dirs[op.name] \in DirSet
          /\ op.aside # Nobody => /\ op.aside \in Slots /\ op.aside # op.name
                                 /\ dirs[op.aside] \in DirSet
          /\ UNCHANGED <<live, preRestore, current, packed, commands, good, before, swapped>>
      BY <1>1, FaultIs, Here, Places DEF Inv, Types
    <2>2. /\ op' \in OpSet /\ op' = Idle
          /\ op'.cmd = "none" /\ op'.name = Nobody /\ op'.pc = "idle" /\ op'.aside = Nobody
      BY <1>1, Ends
    <2>3. /\ dirs' \in [Slots -> DirSet]
          /\ dirs'[op.name] = dirs[op.aside] /\ dirs'[op.aside] = NoDir
          /\ \A x \in Slots : x # op.aside /\ x # op.name => dirs'[x] = dirs[x]
      BY <1>1, <2>1, Moved, Places DEF Inv, PlaceInv
    <2>4. Types'
      BY <2>1, <2>2, <2>3 DEF Inv, Types, TypeOK, OpSet
    <2>5. PlaceInv'
      BY <2>1, <2>2, <2>3 DEF Inv, PlaceInv, CreatePlaces, RestorePlaces, RemovePlaces,
         UnpackPlaces
    <2>6. GoneInv'
      BY <2>1, <2>2, <2>3, Marks, Places, Directories DEF Inv, GoneInv, Types, TypeOK,
         OpSet, PlaceInv
    <2>7. CaptureInv'
      BY <2>1, <2>2, <2>3 DEF Inv, CaptureInv, PlaceInv, Present
    <2>8. BackupInv'
      BY <2>1, <2>2, <2>3 DEF Inv, BackupInv, PlaceInv, Files
    <2>9. RestoreInv'
      BY <2>1, <2>2, <2>3 DEF Inv, RestoreInv, PlaceInv, Present
    <2>10. WholeInv'
      <3>1. ASSUME NEW n \in Names, good'[n] # Nothing, dirs'[n].manifest.status = "ok"
          PROVE  Content(dirs'[n]) = good'[n]
        BY <2>1, <2>2, <2>3, <3>1, Marks, Places, Directories DEF Inv, WholeInv, PlaceInv,
           Types, TypeOK, OpSet, Content, AsideInv
      <3> QED
        BY <3>1 DEF WholeInv
    <2>11. AsideInv'
      BY <2>1, <2>2, <2>3, Places DEF Inv, AsideInv, PlaceInv, Content, Types, TypeOK, OpSet
    <2>12. KeptInv'
      <3>1. ASSUME NEW n \in Names, good'[n] # Nothing, good[n] = good'[n],
                 NEW d \in Slots, Home(n, d), Holds(d, good[n])
          PROVE  \E x \in Slots : Home(n, x)' /\ Present(x)' /\ Content(dirs'[x]) = Content(dirs[d])
        BY <2>1, <2>2, <2>3, <3>1, Places DEF Inv, Home, Doomed, Holds, Present, PlaceInv,
           Types, TypeOK, OpSet
      <3> QED
        BY <3>1, <2>1, <2>2, <2>3 DEF Inv, KeptInv, Holds
    <2>13. UnpackInv'
      BY <2>1, <2>2, <2>3 DEF Inv, UnpackInv, Holds, Present, PlaceInv, Content
    <2>14. CurrentInv'
      <3>1. CASE current = op.name
        BY <3>1, <2>1, <2>2, <2>3 DEF Inv, CurrentInv, Present, PlaceInv
      <3>2. CASE current # op.name
        BY <3>2, <2>1, <2>2, <2>3 DEF Inv, CurrentInv, Present, PlaceInv, Types, TypeOK,
           Shown, Slots
      <3> QED
        BY <3>1, <3>2
    <2> QED
      BY <2>4, <2>5, <2>6, <2>7, <2>8, <2>9, <2>10, <2>11, <2>12, <2>13, <2>14 DEF Inv
  <1> QED
    BY <1>1, GiveUpKeeps, IdleIs DEF RevertRename, At, InDirs, Return, history

LEMMA DropBackupKeeps ==
    ASSUME Inv, DropBackup
    PROVE  Inv'
  <1>1. ASSUME op.cmd = "create" /\ op.pc = "drop",
               NoFault,
               op' = [op EXCEPT !.pc = "current"],
               dirs' = [dirs EXCEPT ![op.aside] = NoDir],
               UNCHANGED <<live, preRestore, current, packed, commands, good, before, swapped>>
        PROVE  Inv'
    <2>1. /\ op.cmd = "create" /\ op.pc = "drop"
          /\ faults' = faults /\ faults' \in 0 .. MaxFaults
          /\ op.name \in Slots /\ dirs[op.name] \in DirSet
          /\ op.aside # Nobody => /\ op.aside \in Slots /\ op.aside # op.name
                                 /\ dirs[op.aside] \in DirSet
          /\ UNCHANGED <<live, preRestore, current, packed, commands, good, before, swapped>>
      BY <1>1, FaultIs, Here, Places DEF Inv, Types
    <2>2. /\ op' \in OpSet
          /\ op'.cmd = op.cmd /\ op'.name = op.name /\ op'.pc = "current" /\ op'.aside = op.aside
          /\ op'.status = op.status /\ op'.prior = op.prior
      BY <1>1, GoesOn DEF Inv, Everywhere, CreatePlaces, RestorePlaces, RemovePlaces,
         UnpackPlaces
    <2>3. /\ dirs' \in [Slots -> DirSet]
          /\ \A x \in Slots : x # op.aside => dirs'[x] = dirs[x]
          /\ dirs'[op.aside] = NoDir
      BY <1>1, <2>1, SetOne, Directories, Places DEF Inv, PlaceInv
    <2>4. Types'
      BY <2>1, <2>2, <2>3 DEF Inv, Types, TypeOK, OpSet
    <2>5. PlaceInv'
      BY <2>1, <2>2, <2>3 DEF Inv, PlaceInv, CreatePlaces, RestorePlaces, RemovePlaces,
         UnpackPlaces
    <2>6. GoneInv'
      BY <2>1, <2>2, <2>3 DEF Inv, GoneInv, Remains
    <2>7. CaptureInv'
      BY <2>1, <2>2, <2>3 DEF Inv, CaptureInv, PlaceInv, Present
    <2>8. BackupInv'
      BY <2>1, <2>2, <2>3 DEF Inv, BackupInv, PlaceInv, Files
    <2>9. RestoreInv'
      BY <2>1, <2>2, <2>3 DEF Inv, RestoreInv, PlaceInv, Present
    <2>10. WholeInv'
      <3>1. ASSUME NEW n \in Names, good'[n] # Nothing, dirs'[n].manifest.status = "ok"
          PROVE  Content(dirs'[n]) = good'[n]
        BY <2>1, <2>2, <2>3, <3>1, Places DEF Inv, WholeInv, PlaceInv, Types, TypeOK, OpSet
      <3> QED
        BY <3>1 DEF WholeInv
    <2>11. AsideInv'
      BY <2>1, <2>2, <2>3, Places DEF Inv, AsideInv, PlaceInv, Content, Types, TypeOK, OpSet
    <2>12. KeptInv'
      <3>1. ASSUME NEW n \in Names, good'[n] # Nothing, good[n] = good'[n],
                 NEW d \in Slots, Home(n, d), Holds(d, good[n])
          PROVE  \E x \in Slots : Home(n, x)' /\ Present(x)' /\ Content(dirs'[x]) = Content(dirs[d])
        BY <2>1, <2>2, <2>3, <3>1, Places DEF Inv, Home, Doomed, Holds, Present, PlaceInv,
           Types, TypeOK, OpSet
      <3> QED
        BY <3>1, <2>1, <2>2, <2>3 DEF Inv, KeptInv, Holds
    <2>13. UnpackInv'
      BY <2>1, <2>2, <2>3 DEF Inv, UnpackInv, Holds, Present, PlaceInv, Content
    <2>14. CurrentInv'
      BY <2>1, <2>2, <2>3, Places DEF Inv, CurrentInv, Present, PlaceInv, Types, TypeOK,
         OpSet
    <2> QED
      BY <2>4, <2>5, <2>6, <2>7, <2>8, <2>9, <2>10, <2>11, <2>12, <2>13, <2>14 DEF Inv
  <1>2. ASSUME NEW r \in Remains(dirs[op.aside]),
               op.cmd = "create" /\ op.pc = "drop",
               Fault,
               op' = [op EXCEPT !.pc = "current"],
               dirs' = [dirs EXCEPT ![op.aside] = r],
               UNCHANGED <<live, preRestore, current, packed, commands, good, before, swapped>>
        PROVE  Inv'
    <2>1. /\ op.cmd = "create" /\ op.pc = "drop"
          /\ faults' # 0 /\ faults' \in 0 .. MaxFaults
          /\ op.name \in Slots /\ dirs[op.name] \in DirSet
          /\ op.aside # Nobody => /\ op.aside \in Slots /\ op.aside # op.name
                                 /\ dirs[op.aside] \in DirSet
          /\ UNCHANGED <<live, preRestore, current, packed, commands, good, before, swapped>>
      BY <1>2, FaultIs, Here, Places DEF Inv, Types
    <2>2. /\ op' \in OpSet
          /\ op'.cmd = op.cmd /\ op'.name = op.name /\ op'.pc = "current" /\ op'.aside = op.aside
          /\ op'.status = op.status /\ op'.prior = op.prior
      BY <1>2, GoesOn DEF Inv, Everywhere, CreatePlaces, RestorePlaces, RemovePlaces,
         UnpackPlaces
    <2>3. op.aside \in Slots /\ r \in DirSet
      BY <1>2, <2>1, Left DEF Inv, Types, TypeOK, DirSet, PlaceInv
    <2>4. /\ dirs' \in [Slots -> DirSet]
          /\ \A x \in Slots : x # op.aside => dirs'[x] = dirs[x]
          /\ dirs'[op.aside] = r
      BY <1>2, <2>3, SetOne DEF Inv
    <2>5. Types'
      BY <2>1, <2>2, <2>4 DEF Inv, Types, TypeOK, OpSet
    <2>6. PlaceInv'
      BY <2>1, <2>2, <2>4 DEF Inv, PlaceInv, CreatePlaces, RestorePlaces, RemovePlaces,
         UnpackPlaces
    <2>7. GoneInv'
      BY <2>1, <2>2, <2>4 DEF Inv, GoneInv, Remains
    <2>8. CaptureInv'
      BY <2>1, <2>2, <2>4 DEF Inv, CaptureInv, PlaceInv, Present
    <2>9. BackupInv'
      BY <2>1, <2>2, <2>4 DEF Inv, BackupInv, PlaceInv, Files
    <2>10. RestoreInv'
      BY <2>1, <2>2, <2>4 DEF Inv, RestoreInv, PlaceInv, Present
    <2>11. WholeInv'
      <3>1. ASSUME NEW n \in Names, good'[n] # Nothing, dirs'[n].manifest.status = "ok"
          PROVE  Content(dirs'[n]) = good'[n]
        BY <2>1, <2>2, <2>4, <3>1, Places DEF Inv, WholeInv, PlaceInv, Types, TypeOK, OpSet
      <3> QED
        BY <3>1 DEF WholeInv
    <2>12. AsideInv'
      BY <2>1, <2>2, <2>4, Places DEF Inv, AsideInv, PlaceInv, Content, Types, TypeOK, OpSet
    <2>13. KeptInv'
      <3>1. ASSUME NEW n \in Names, good'[n] # Nothing, good[n] = good'[n],
                 NEW d \in Slots, Home(n, d), Holds(d, good[n])
          PROVE  \E x \in Slots : Home(n, x)' /\ Present(x)' /\ Content(dirs'[x]) = Content(dirs[d])
        BY <2>1, <2>2, <2>4, <3>1, Places DEF Inv, Home, Doomed, Holds, Present, PlaceInv,
           Types, TypeOK, OpSet
      <3> QED
        BY <3>1, <2>1, <2>2, <2>4 DEF Inv, KeptInv, Holds
    <2>14. UnpackInv'
      BY <2>1, <2>2, <2>4 DEF Inv, UnpackInv, Holds, Present, PlaceInv, Content
    <2>15. CurrentInv'
      BY <2>1, <2>2, <2>4, Places DEF Inv, CurrentInv, Present, PlaceInv, Types, TypeOK,
         OpSet
    <2> QED
      BY <2>5, <2>6, <2>7, <2>8, <2>9, <2>10, <2>11, <2>12, <2>13, <2>14, <2>15 DEF Inv
  <1> QED
    BY <1>1, <1>2, IdleIs DEF DropBackup, At, InDirs, GoTo, history

LEMMA PointCurrentKeeps ==
    ASSUME Inv, PointCurrent
    PROVE  Inv'
  <1>1. ASSUME op.cmd \in {"create", "restore"} /\ op.pc = "current",
               current' = op.name,
               NoFault,
               op' = Idle,
               UNCHANGED <<live, dirs, preRestore, packed, commands, good, before, swapped>>
        PROVE  Inv'
    <2>1. /\ op.cmd \in {"create", "restore"} /\ op.pc = "current"
          /\ current' = op.name
          /\ faults' = faults /\ faults' \in 0 .. MaxFaults
          /\ op.name \in Slots /\ dirs[op.name] \in DirSet
          /\ op.aside # Nobody => /\ op.aside \in Slots /\ op.aside # op.name
                                 /\ dirs[op.aside] \in DirSet
          /\ UNCHANGED <<live, dirs, preRestore, packed, commands, good, before, swapped>>
      BY <1>1, FaultIs, Here, Places DEF Inv, Types
    <2>2. /\ op' \in OpSet /\ op' = Idle
          /\ op'.cmd = "none" /\ op'.name = Nobody /\ op'.pc = "idle" /\ op'.aside = Nobody
      BY <1>1, Ends
    <2>3. Types'
      <3>1. current' \in Shown \cup {Nobody}
        BY <2>1, <2>2 DEF Inv, Types, TypeOK
      <3> QED
        BY <2>1, <2>2, <3>1 DEF Inv, Types, TypeOK, OpSet
    <2>4. PlaceInv'
      BY <2>1, <2>2 DEF Inv, PlaceInv, CreatePlaces, RestorePlaces, RemovePlaces,
         UnpackPlaces
    <2>5. GoneInv'
      BY <2>1, <2>2 DEF Inv, GoneInv
    <2>6. CaptureInv'
      BY <2>1, <2>2 DEF Inv, CaptureInv, PlaceInv, Present
    <2>7. BackupInv'
      BY <2>1, <2>2 DEF Inv, BackupInv, PlaceInv, Files
    <2>8. RestoreInv'
      BY <2>1, <2>2 DEF Inv, RestoreInv, PlaceInv, Present
    <2>9. WholeInv'
      <3>1. ASSUME NEW n \in Names, good'[n] # Nothing, dirs'[n].manifest.status = "ok"
          PROVE  Content(dirs'[n]) = good'[n]
        BY <2>1, <2>2, <3>1, Places DEF Inv, WholeInv, PlaceInv, Types, TypeOK, OpSet
      <3> QED
        BY <3>1 DEF WholeInv
    <2>10. AsideInv'
      BY <2>1, <2>2, Places DEF Inv, AsideInv, PlaceInv, Content, Types, TypeOK, OpSet
    <2>11. KeptInv'
      <3>1. ASSUME NEW n \in Names, good'[n] # Nothing, good[n] = good'[n],
                 NEW d \in Slots, Home(n, d), Holds(d, good[n])
          PROVE  \E x \in Slots : Home(n, x)' /\ Present(x)' /\ Content(dirs'[x]) = Content(dirs[d])
        BY <2>1, <2>2, <3>1, Places DEF Inv, Home, Doomed, Holds, Present, PlaceInv, Types,
           TypeOK, OpSet
      <3> QED
        BY <3>1, <2>1, <2>2 DEF Inv, KeptInv, Holds
    <2>12. UnpackInv'
      BY <2>1, <2>2 DEF Inv, UnpackInv, Holds, Present, PlaceInv, Content
    <2>13. CurrentInv'
      BY <2>1, <2>2, Marks, Places, Directories DEF Inv, CurrentInv, Present, PlaceInv,
         Types, TypeOK, OpSet, CaptureInv, RestoreInv
    <2> QED
      BY <2>3, <2>4, <2>5, <2>6, <2>7, <2>8, <2>9, <2>10, <2>11, <2>12, <2>13 DEF Inv
  <1> QED
    BY <1>1, GiveUpKeeps, IdleIs DEF PointCurrent, Return, history

LEMMA RestoreBeginKeeps ==
    ASSUME Inv, NEW d \in Shown, RestoreBegin(d)
    PROVE  Inv'
  <1>1. ASSUME op.cmd = "none" /\ op.name = Nobody /\ op.pc = "idle" /\ op.aside = Nobody,
               commands < MaxCommands /\ commands' = commands + 1,
               Present(d),
               NoFault,
               op' = [cmd |-> "restore", name |-> d, pc |-> "clear", aside |-> Nobody,
                      status |-> "ok", prior |-> Nothing],
               UNCHANGED <<live, dirs, preRestore, current, packed, good, before, swapped>>
        PROVE  Inv'
    <2>1. /\ op.cmd = "none" /\ op.name = Nobody /\ op.pc = "idle" /\ op.aside = Nobody
          /\ commands < MaxCommands /\ commands' = commands + 1
          /\ Present(d)
          /\ faults' = faults /\ faults' \in 0 .. MaxFaults
          /\ UNCHANGED <<live, dirs, preRestore, current, packed, good, before, swapped>>
      BY <1>1, FaultIs, Here, Places DEF Inv, Types
    <2>2. /\ op' \in OpSet
          /\ op'.cmd = "restore" /\ op'.name = d /\ op'.pc = "clear" /\ op'.aside = Nobody
          /\ op'.status = "ok" /\ op'.prior = Nothing
      BY <1>1, Directories, Places DEF Inv, Types, OpSet, CreatePlaces, RestorePlaces,
         RemovePlaces, UnpackPlaces, Statuses, Shown
    <2>3. Types'
      <3>1. commands' \in 0 .. MaxCommands
        BY <2>1, <2>2, Counted DEF Inv, Types, TypeOK
      <3> QED
        BY <2>1, <2>2, <3>1 DEF Inv, Types, TypeOK, OpSet
    <2>4. PlaceInv'
      BY <2>1, <2>2 DEF Inv, PlaceInv, CreatePlaces, RestorePlaces, RemovePlaces,
         UnpackPlaces
    <2>5. GoneInv'
      BY <2>1, <2>2 DEF Inv, GoneInv
    <2>6. CaptureInv'
      BY <2>1, <2>2 DEF Inv, CaptureInv, PlaceInv, Present
    <2>7. BackupInv'
      BY <2>1, <2>2 DEF Inv, BackupInv, PlaceInv, Files
    <2>8. RestoreInv'
      BY <2>1, <2>2 DEF Inv, RestoreInv, PlaceInv, Present
    <2>9. WholeInv'
      <3>1. ASSUME NEW n \in Names, good'[n] # Nothing, dirs'[n].manifest.status = "ok"
          PROVE  Content(dirs'[n]) = good'[n]
        BY <2>1, <2>2, <3>1, Places DEF Inv, WholeInv, PlaceInv, Types, TypeOK, OpSet
      <3> QED
        BY <3>1 DEF WholeInv
    <2>10. AsideInv'
      BY <2>1, <2>2, Places DEF Inv, AsideInv, PlaceInv, Content, Types, TypeOK, OpSet
    <2>11. KeptInv'
      <3>1. ASSUME NEW n \in Names, good'[n] # Nothing, good[n] = good'[n],
                 NEW e \in Slots, Home(n, e), Holds(e, good[n])
          PROVE  \E x \in Slots : Home(n, x)' /\ Present(x)' /\ Content(dirs'[x]) = Content(dirs[e])
        BY <2>1, <2>2, <3>1, Places DEF Inv, Home, Doomed, Holds, Present, PlaceInv, Types,
           TypeOK, OpSet
      <3> QED
        BY <3>1, <2>1, <2>2 DEF Inv, KeptInv, Holds
    <2>12. UnpackInv'
      BY <2>1, <2>2 DEF Inv, UnpackInv, Holds, Present, PlaceInv, Content
    <2>13. CurrentInv'
      BY <2>1, <2>2, Places DEF Inv, CurrentInv, Present, PlaceInv, Types, TypeOK, OpSet
    <2> QED
      BY <2>3, <2>4, <2>5, <2>6, <2>7, <2>8, <2>9, <2>10, <2>11, <2>12, <2>13 DEF Inv
  <1> QED
    BY <1>1, IdleIs DEF RestoreBegin, Start, IsIdle, disk, history, Command, Present

LEMMA ClearPreRestoreKeeps ==
    ASSUME Inv, ClearPreRestore
    PROVE  Inv'
  <1>1. ASSUME op.cmd = "restore" /\ op.pc = "clear",
               preRestore' = NoFiles,
               before' = Files(live) /\ swapped' = FALSE,
               NoFault,
               op' = [op EXCEPT !.pc = "backup_local"],
               UNCHANGED <<live, dirs, current, packed, commands, good>>
        PROVE  Inv'
    <2>1. /\ op.cmd = "restore" /\ op.pc = "clear"
          /\ preRestore' = NoFiles
          /\ before' = Files(live) /\ swapped' = FALSE
          /\ faults' = faults /\ faults' \in 0 .. MaxFaults
          /\ op.name \in Slots /\ dirs[op.name] \in DirSet
          /\ op.aside # Nobody => /\ op.aside \in Slots /\ op.aside # op.name
                                 /\ dirs[op.aside] \in DirSet
          /\ UNCHANGED <<live, dirs, current, packed, commands, good>>
      BY <1>1, FaultIs, Here, Places DEF Inv, Types
    <2>2. /\ op' \in OpSet
          /\ op'.cmd = op.cmd /\ op'.name = op.name
          /\ op'.pc = "backup_local" /\ op'.aside = op.aside
          /\ op'.status = op.status /\ op'.prior = op.prior
      BY <1>1, GoesOn DEF Inv, Everywhere, CreatePlaces, RestorePlaces, RemovePlaces,
         UnpackPlaces
    <2>3. Types'
      <3>1. preRestore' \in FileSet
        BY <2>1, <2>2, Marks DEF Inv, Types, TypeOK, FileSet, NoFiles, Files, LocalGens,
           KeyGens
      <3>2. before' \in FileSet
        BY <2>1, <2>2 DEF Inv, Types, TypeOK, FileSet, Files
      <3> QED
        BY <2>1, <2>2, <3>1, <3>2 DEF Inv, Types, TypeOK, OpSet
    <2>4. PlaceInv'
      BY <2>1, <2>2, Places DEF Inv, PlaceInv, CreatePlaces, RestorePlaces, RemovePlaces,
         UnpackPlaces, Types, TypeOK, OpSet
    <2>5. GoneInv'
      BY <2>1, <2>2 DEF Inv, GoneInv
    <2>6. CaptureInv'
      BY <2>1, <2>2 DEF Inv, CaptureInv, PlaceInv, Present
    <2>7. BackupInv'
      BY <2>1, <2>2 DEF Inv, BackupInv, PlaceInv, Files
    <2>8. RestoreInv'
      BY <2>1, <2>2 DEF Inv, RestoreInv, PlaceInv, Present
    <2>9. WholeInv'
      <3>1. ASSUME NEW n \in Names, good'[n] # Nothing, dirs'[n].manifest.status = "ok"
          PROVE  Content(dirs'[n]) = good'[n]
        BY <2>1, <2>2, <3>1, Places DEF Inv, WholeInv, PlaceInv, Types, TypeOK, OpSet
      <3> QED
        BY <3>1 DEF WholeInv
    <2>10. AsideInv'
      BY <2>1, <2>2, Places DEF Inv, AsideInv, PlaceInv, Content, Types, TypeOK, OpSet
    <2>11. KeptInv'
      <3>1. ASSUME NEW n \in Names, good'[n] # Nothing, good[n] = good'[n],
                 NEW d \in Slots, Home(n, d), Holds(d, good[n])
          PROVE  \E x \in Slots : Home(n, x)' /\ Present(x)' /\ Content(dirs'[x]) = Content(dirs[d])
        BY <2>1, <2>2, <3>1, Places DEF Inv, Home, Doomed, Holds, Present, PlaceInv, Types,
           TypeOK, OpSet
      <3> QED
        BY <3>1, <2>1, <2>2 DEF Inv, KeptInv, Holds
    <2>12. UnpackInv'
      BY <2>1, <2>2 DEF Inv, UnpackInv, Holds, Present, PlaceInv, Content
    <2>13. CurrentInv'
      BY <2>1, <2>2, Places DEF Inv, CurrentInv, Present, PlaceInv, Types, TypeOK, OpSet
    <2> QED
      BY <2>3, <2>4, <2>5, <2>6, <2>7, <2>8, <2>9, <2>10, <2>11, <2>12, <2>13 DEF Inv
  <1>2. ASSUME NEW l \in {preRestore.local, Missing},
               NEW k \in {preRestore.keys, Missing},
               NEW s \in {preRestore.state, Missing},
               op.cmd = "restore" /\ op.pc = "clear",
               preRestore' = [local |-> l, keys |-> k, state |-> s],
               before' = Files(live) /\ swapped' = FALSE,
               Fault,
               op' = Idle,
               UNCHANGED <<live, dirs, current, packed, commands, good>>
        PROVE  Inv'
    <2>1. /\ op.cmd = "restore" /\ op.pc = "clear"
          /\ preRestore' = [local |-> l, keys |-> k, state |-> s]
          /\ before' = Files(live) /\ swapped' = FALSE
          /\ faults' # 0 /\ faults' \in 0 .. MaxFaults
          /\ op.name \in Slots /\ dirs[op.name] \in DirSet
          /\ op.aside # Nobody => /\ op.aside \in Slots /\ op.aside # op.name
                                 /\ dirs[op.aside] \in DirSet
          /\ UNCHANGED <<live, dirs, current, packed, commands, good>>
      BY <1>2, FaultIs, Here, Places DEF Inv, Types
    <2>2. /\ op' \in OpSet /\ op' = Idle
          /\ op'.cmd = "none" /\ op'.name = Nobody /\ op'.pc = "idle" /\ op'.aside = Nobody
      BY <1>2, Ends
    <2>3. Types'
      <3>1. preRestore' \in FileSet
        BY <2>1, <2>2, Marks DEF Inv, Types, TypeOK, FileSet, NoFiles, Files, LocalGens,
           KeyGens
      <3>2. before' \in FileSet
        BY <2>1, <2>2 DEF Inv, Types, TypeOK, FileSet, Files
      <3> QED
        BY <2>1, <2>2, <3>1, <3>2 DEF Inv, Types, TypeOK, OpSet
    <2>4. PlaceInv'
      BY <2>1, <2>2 DEF Inv, PlaceInv, CreatePlaces, RestorePlaces, RemovePlaces,
         UnpackPlaces
    <2>5. GoneInv'
      BY <2>1, <2>2 DEF Inv, GoneInv
    <2>6. CaptureInv'
      BY <2>1, <2>2 DEF Inv, CaptureInv, PlaceInv, Present
    <2>7. BackupInv'
      BY <2>1, <2>2 DEF Inv, BackupInv, PlaceInv, Files
    <2>8. RestoreInv'
      BY <2>1, <2>2 DEF Inv, RestoreInv, PlaceInv, Present
    <2>9. WholeInv'
      <3>1. ASSUME NEW n \in Names, good'[n] # Nothing, dirs'[n].manifest.status = "ok"
          PROVE  Content(dirs'[n]) = good'[n]
        BY <2>1, <2>2, <3>1, Places DEF Inv, WholeInv, PlaceInv, Types, TypeOK, OpSet
      <3> QED
        BY <3>1 DEF WholeInv
    <2>10. AsideInv'
      BY <2>1, <2>2, Places DEF Inv, AsideInv, PlaceInv, Content, Types, TypeOK, OpSet
    <2>11. KeptInv'
      <3>1. ASSUME NEW n \in Names, good'[n] # Nothing, good[n] = good'[n],
                 NEW d \in Slots, Home(n, d), Holds(d, good[n])
          PROVE  \E x \in Slots : Home(n, x)' /\ Present(x)' /\ Content(dirs'[x]) = Content(dirs[d])
        BY <2>1, <2>2, <3>1, Places DEF Inv, Home, Doomed, Holds, Present, PlaceInv, Types,
           TypeOK, OpSet
      <3> QED
        BY <3>1, <2>1, <2>2 DEF Inv, KeptInv, Holds
    <2>12. UnpackInv'
      BY <2>1, <2>2 DEF Inv, UnpackInv, Holds, Present, PlaceInv, Content
    <2>13. CurrentInv'
      BY <2>1, <2>2, Places DEF Inv, CurrentInv, Present, PlaceInv, Types, TypeOK, OpSet
    <2> QED
      BY <2>3, <2>4, <2>5, <2>6, <2>7, <2>8, <2>9, <2>10, <2>11, <2>12, <2>13 DEF Inv
  <1> QED
    BY <1>1, <1>2, IdleIs DEF ClearPreRestore, At, GoTo, Return

LEMMA BackupLocalKeeps ==
    ASSUME Inv, BackupLocal
    PROVE  Inv'
  <1>1. ASSUME op.cmd = "restore" /\ op.pc = "backup_local",
               NoFault,
               preRestore' = IF live.local = Missing THEN preRestore
                             ELSE [preRestore EXCEPT !.local = live.local, !.keys = live.keys],
               op' = [op EXCEPT !.pc = "backup_state"],
               UNCHANGED <<live, dirs, current, packed, commands, good, before, swapped>>
        PROVE  Inv'
    <2>1. /\ op.cmd = "restore" /\ op.pc = "backup_local"
          /\ faults' = faults /\ faults' \in 0 .. MaxFaults
          /\ preRestore' = IF live.local = Missing THEN preRestore
                           ELSE [preRestore EXCEPT !.local = live.local, !.keys = live.keys]
          /\ op.name \in Slots /\ dirs[op.name] \in DirSet
          /\ op.aside # Nobody => /\ op.aside \in Slots /\ op.aside # op.name
                                 /\ dirs[op.aside] \in DirSet
          /\ UNCHANGED <<live, dirs, current, packed, commands, good, before, swapped>>
      BY <1>1, FaultIs, Here, Places DEF Inv, Types
    <2>2. /\ op' \in OpSet
          /\ op'.cmd = op.cmd /\ op'.name = op.name
          /\ op'.pc = "backup_state" /\ op'.aside = op.aside
          /\ op'.status = op.status /\ op'.prior = op.prior
      BY <1>1, GoesOn DEF Inv, Everywhere, CreatePlaces, RestorePlaces, RemovePlaces,
         UnpackPlaces
    <2>3. Types'
      <3>1. preRestore' \in FileSet
        BY <2>1, <2>2, Marks DEF Inv, Types, TypeOK, FileSet, Files, LocalGens, KeyGens
      <3> QED
        BY <2>1, <2>2, <3>1 DEF Inv, Types, TypeOK, OpSet
    <2>4. PlaceInv'
      BY <2>1, <2>2 DEF Inv, PlaceInv, CreatePlaces, RestorePlaces, RemovePlaces,
         UnpackPlaces
    <2>5. GoneInv'
      BY <2>1, <2>2 DEF Inv, GoneInv
    <2>6. CaptureInv'
      BY <2>1, <2>2 DEF Inv, CaptureInv, PlaceInv, Present
    <2>7. BackupInv'
      BY <2>1, <2>2, Marks, Places, Directories DEF Inv, BackupInv, PlaceInv, Files, Types,
         TypeOK, OpSet
    <2>8. RestoreInv'
      BY <2>1, <2>2 DEF Inv, RestoreInv, PlaceInv, Present
    <2>9. WholeInv'
      <3>1. ASSUME NEW n \in Names, good'[n] # Nothing, dirs'[n].manifest.status = "ok"
          PROVE  Content(dirs'[n]) = good'[n]
        BY <2>1, <2>2, <3>1, Places DEF Inv, WholeInv, PlaceInv, Types, TypeOK, OpSet
      <3> QED
        BY <3>1 DEF WholeInv
    <2>10. AsideInv'
      BY <2>1, <2>2, Places DEF Inv, AsideInv, PlaceInv, Content, Types, TypeOK, OpSet
    <2>11. KeptInv'
      <3>1. ASSUME NEW n \in Names, good'[n] # Nothing, good[n] = good'[n],
                 NEW d \in Slots, Home(n, d), Holds(d, good[n])
          PROVE  \E x \in Slots : Home(n, x)' /\ Present(x)' /\ Content(dirs'[x]) = Content(dirs[d])
        BY <2>1, <2>2, <3>1, Places DEF Inv, Home, Doomed, Holds, Present, PlaceInv, Types,
           TypeOK, OpSet
      <3> QED
        BY <3>1, <2>1, <2>2 DEF Inv, KeptInv, Holds
    <2>12. UnpackInv'
      BY <2>1, <2>2 DEF Inv, UnpackInv, Holds, Present, PlaceInv, Content
    <2>13. CurrentInv'
      BY <2>1, <2>2, Places DEF Inv, CurrentInv, Present, PlaceInv, Types, TypeOK, OpSet
    <2> QED
      BY <2>3, <2>4, <2>5, <2>6, <2>7, <2>8, <2>9, <2>10, <2>11, <2>12, <2>13 DEF Inv
  <1> QED
    BY <1>1, GiveUpKeeps, IdleIs DEF BackupLocal, At, GoTo, Return, history

LEMMA BackupStateKeeps ==
    ASSUME Inv, BackupState
    PROVE  Inv'
  <1>1. ASSUME op.cmd = "restore" /\ op.pc = "backup_state",
               NoFault,
               preRestore' = [preRestore EXCEPT !.state = Copied(live.state, preRestore.state)],
               op' = [op EXCEPT !.pc = "swap_local"],
               UNCHANGED <<live, dirs, current, packed, commands, good, before, swapped>>
        PROVE  Inv'
    <2>1. /\ op.cmd = "restore" /\ op.pc = "backup_state"
          /\ faults' = faults /\ faults' \in 0 .. MaxFaults
          /\ preRestore' = [preRestore EXCEPT !.state = Copied(live.state, preRestore.state)]
          /\ op.name \in Slots /\ dirs[op.name] \in DirSet
          /\ op.aside # Nobody => /\ op.aside \in Slots /\ op.aside # op.name
                                 /\ dirs[op.aside] \in DirSet
          /\ UNCHANGED <<live, dirs, current, packed, commands, good, before, swapped>>
      BY <1>1, FaultIs, Here, Places DEF Inv, Types
    <2>2. /\ op' \in OpSet
          /\ op'.cmd = op.cmd /\ op'.name = op.name
          /\ op'.pc = "swap_local" /\ op'.aside = op.aside
          /\ op'.status = op.status /\ op'.prior = op.prior
      BY <1>1, GoesOn DEF Inv, Everywhere, CreatePlaces, RestorePlaces, RemovePlaces,
         UnpackPlaces
    <2>3. Types'
      <3>1. preRestore' \in FileSet
        BY <2>1, <2>2, Marks DEF Inv, Types, TypeOK, FileSet, Copied, Files, LocalGens,
           KeyGens
      <3> QED
        BY <2>1, <2>2, <3>1 DEF Inv, Types, TypeOK, OpSet
    <2>4. PlaceInv'
      BY <2>1, <2>2 DEF Inv, PlaceInv, CreatePlaces, RestorePlaces, RemovePlaces,
         UnpackPlaces
    <2>5. GoneInv'
      BY <2>1, <2>2 DEF Inv, GoneInv
    <2>6. CaptureInv'
      BY <2>1, <2>2 DEF Inv, CaptureInv, PlaceInv, Present
    <2>7. BackupInv'
      BY <2>1, <2>2, Marks, Places, Directories DEF Inv, BackupInv, PlaceInv, Files, Types,
         TypeOK, OpSet, Copied, FileSet
    <2>8. RestoreInv'
      BY <2>1, <2>2 DEF Inv, RestoreInv, PlaceInv, Present
    <2>9. WholeInv'
      <3>1. ASSUME NEW n \in Names, good'[n] # Nothing, dirs'[n].manifest.status = "ok"
          PROVE  Content(dirs'[n]) = good'[n]
        BY <2>1, <2>2, <3>1, Places DEF Inv, WholeInv, PlaceInv, Types, TypeOK, OpSet
      <3> QED
        BY <3>1 DEF WholeInv
    <2>10. AsideInv'
      BY <2>1, <2>2, Places DEF Inv, AsideInv, PlaceInv, Content, Types, TypeOK, OpSet
    <2>11. KeptInv'
      <3>1. ASSUME NEW n \in Names, good'[n] # Nothing, good[n] = good'[n],
                 NEW d \in Slots, Home(n, d), Holds(d, good[n])
          PROVE  \E x \in Slots : Home(n, x)' /\ Present(x)' /\ Content(dirs'[x]) = Content(dirs[d])
        BY <2>1, <2>2, <3>1, Places DEF Inv, Home, Doomed, Holds, Present, PlaceInv, Types,
           TypeOK, OpSet
      <3> QED
        BY <3>1, <2>1, <2>2 DEF Inv, KeptInv, Holds
    <2>12. UnpackInv'
      BY <2>1, <2>2 DEF Inv, UnpackInv, Holds, Present, PlaceInv, Content
    <2>13. CurrentInv'
      BY <2>1, <2>2, Places DEF Inv, CurrentInv, Present, PlaceInv, Types, TypeOK, OpSet
    <2> QED
      BY <2>3, <2>4, <2>5, <2>6, <2>7, <2>8, <2>9, <2>10, <2>11, <2>12, <2>13 DEF Inv
  <1> QED
    BY <1>1, GiveUpKeeps, IdleIs DEF BackupState, At, GoTo, Return, history

LEMMA SwapLocalKeeps ==
    ASSUME Inv, SwapLocal
    PROVE  Inv'
  <1>1. ASSUME op.cmd = "restore" /\ op.pc = "swap_local",
               swapped' = TRUE,
               NoFault,
               live' = [live EXCEPT !.local =
                          IF dirs[op.name].local # Missing THEN dirs[op.name].local
                          ELSE IF live.keys # Missing THEN Bare ELSE Missing],
               op' = [op EXCEPT !.pc = "swap_state"],
               UNCHANGED <<dirs, preRestore, current, packed, commands, good, before>>
        PROVE  Inv'
    <2>1. /\ op.cmd = "restore" /\ op.pc = "swap_local"
          /\ swapped' = TRUE
          /\ faults' = faults /\ faults' \in 0 .. MaxFaults
          /\ live' = [live EXCEPT !.local =
                        IF dirs[op.name].local # Missing THEN dirs[op.name].local
                        ELSE IF live.keys # Missing THEN Bare ELSE Missing]
          /\ op.name \in Slots /\ dirs[op.name] \in DirSet
          /\ op.aside # Nobody => /\ op.aside \in Slots /\ op.aside # op.name
                                 /\ dirs[op.aside] \in DirSet
          /\ UNCHANGED <<dirs, preRestore, current, packed, commands, good, before>>
      BY <1>1, FaultIs, Here, Places DEF Inv, Types
    <2>2. /\ op' \in OpSet
          /\ op'.cmd = op.cmd /\ op'.name = op.name
          /\ op'.pc = "swap_state" /\ op'.aside = op.aside
          /\ op'.status = op.status /\ op'.prior = op.prior
      BY <1>1, GoesOn DEF Inv, Everywhere, CreatePlaces, RestorePlaces, RemovePlaces,
         UnpackPlaces
    <2>3. Types'
      <3>1. live' \in [local : LocalGens, keys : KeyGens, state : Gens \cup {Missing},
                 data : Gens \cup {Torn}] /\ Files(live') \in FileSet
        BY <2>1, <2>2, Marks DEF Inv, Types, TypeOK, Files, FileSet, DirSet
      <3> QED
        BY <2>1, <2>2, <3>1 DEF Inv, Types, TypeOK, OpSet
    <2>4. PlaceInv'
      BY <2>1, <2>2 DEF Inv, PlaceInv, CreatePlaces, RestorePlaces, RemovePlaces,
         UnpackPlaces
    <2>5. GoneInv'
      BY <2>1, <2>2 DEF Inv, GoneInv
    <2>6. CaptureInv'
      BY <2>1, <2>2 DEF Inv, CaptureInv, PlaceInv, Present
    <2>7. BackupInv'
      BY <2>1, <2>2, Marks, Places, Directories DEF Inv, BackupInv, PlaceInv, Files, Types,
         TypeOK, OpSet
    <2>8. RestoreInv'
      BY <2>1, <2>2, Marks, Places, Directories DEF Inv, RestoreInv, PlaceInv, Present,
         Types, TypeOK, OpSet, BackupInv, Files
    <2>9. WholeInv'
      <3>1. ASSUME NEW n \in Names, good'[n] # Nothing, dirs'[n].manifest.status = "ok"
          PROVE  Content(dirs'[n]) = good'[n]
        BY <2>1, <2>2, <3>1, Places DEF Inv, WholeInv, PlaceInv, Types, TypeOK, OpSet
      <3> QED
        BY <3>1 DEF WholeInv
    <2>10. AsideInv'
      BY <2>1, <2>2, Places DEF Inv, AsideInv, PlaceInv, Content, Types, TypeOK, OpSet
    <2>11. KeptInv'
      <3>1. ASSUME NEW n \in Names, good'[n] # Nothing, good[n] = good'[n],
                 NEW d \in Slots, Home(n, d), Holds(d, good[n])
          PROVE  \E x \in Slots : Home(n, x)' /\ Present(x)' /\ Content(dirs'[x]) = Content(dirs[d])
        BY <2>1, <2>2, <3>1, Places DEF Inv, Home, Doomed, Holds, Present, PlaceInv, Types,
           TypeOK, OpSet
      <3> QED
        BY <3>1, <2>1, <2>2 DEF Inv, KeptInv, Holds
    <2>12. UnpackInv'
      BY <2>1, <2>2 DEF Inv, UnpackInv, Holds, Present, PlaceInv, Content
    <2>13. CurrentInv'
      BY <2>1, <2>2, Places DEF Inv, CurrentInv, Present, PlaceInv, Types, TypeOK, OpSet
    <2> QED
      BY <2>3, <2>4, <2>5, <2>6, <2>7, <2>8, <2>9, <2>10, <2>11, <2>12, <2>13 DEF Inv
  <1> QED
    BY <1>1, GiveUpKeeps, IdleIs DEF SwapLocal, At, GoTo, Return

LEMMA SwapStateKeeps ==
    ASSUME Inv, SwapState
    PROVE  Inv'
  <1>1. ASSUME op.cmd = "restore" /\ op.pc = "swap_state",
               NoFault,
               live' = [live EXCEPT !.state = dirs[op.name].state],
               op' = [op EXCEPT !.pc = "workflow"],
               UNCHANGED <<dirs, preRestore, current, packed, commands, good, before, swapped>>
        PROVE  Inv'
    <2>1. /\ op.cmd = "restore" /\ op.pc = "swap_state"
          /\ faults' = faults /\ faults' \in 0 .. MaxFaults
          /\ live' = [live EXCEPT !.state = dirs[op.name].state]
          /\ op.name \in Slots /\ dirs[op.name] \in DirSet
          /\ op.aside # Nobody => /\ op.aside \in Slots /\ op.aside # op.name
                                 /\ dirs[op.aside] \in DirSet
          /\ UNCHANGED <<dirs, preRestore, current, packed, commands, good, before, swapped>>
      BY <1>1, FaultIs, Here, Places DEF Inv, Types
    <2>2. /\ op' \in OpSet
          /\ op'.cmd = op.cmd /\ op'.name = op.name /\ op'.pc = "workflow" /\ op'.aside = op.aside
          /\ op'.status = op.status /\ op'.prior = op.prior
      BY <1>1, GoesOn DEF Inv, Everywhere, CreatePlaces, RestorePlaces, RemovePlaces,
         UnpackPlaces
    <2>3. Types'
      <3>1. live' \in [local : LocalGens, keys : KeyGens, state : Gens \cup {Missing},
                 data : Gens \cup {Torn}] /\ Files(live') \in FileSet
        BY <2>1, <2>2, Marks DEF Inv, Types, TypeOK, Files, FileSet, DirSet
      <3> QED
        BY <2>1, <2>2, <3>1 DEF Inv, Types, TypeOK, OpSet
    <2>4. PlaceInv'
      BY <2>1, <2>2 DEF Inv, PlaceInv, CreatePlaces, RestorePlaces, RemovePlaces,
         UnpackPlaces
    <2>5. GoneInv'
      BY <2>1, <2>2 DEF Inv, GoneInv
    <2>6. CaptureInv'
      BY <2>1, <2>2 DEF Inv, CaptureInv, PlaceInv, Present
    <2>7. BackupInv'
      BY <2>1, <2>2, Marks, Places, Directories DEF Inv, BackupInv, PlaceInv, Files, Types,
         TypeOK, OpSet
    <2>8. RestoreInv'
      BY <2>1, <2>2, Marks, Places, Directories DEF Inv, RestoreInv, PlaceInv, Present,
         Types, TypeOK, OpSet
    <2>9. WholeInv'
      <3>1. ASSUME NEW n \in Names, good'[n] # Nothing, dirs'[n].manifest.status = "ok"
          PROVE  Content(dirs'[n]) = good'[n]
        BY <2>1, <2>2, <3>1, Places DEF Inv, WholeInv, PlaceInv, Types, TypeOK, OpSet
      <3> QED
        BY <3>1 DEF WholeInv
    <2>10. AsideInv'
      BY <2>1, <2>2, Places DEF Inv, AsideInv, PlaceInv, Content, Types, TypeOK, OpSet
    <2>11. KeptInv'
      <3>1. ASSUME NEW n \in Names, good'[n] # Nothing, good[n] = good'[n],
                 NEW d \in Slots, Home(n, d), Holds(d, good[n])
          PROVE  \E x \in Slots : Home(n, x)' /\ Present(x)' /\ Content(dirs'[x]) = Content(dirs[d])
        BY <2>1, <2>2, <3>1, Places DEF Inv, Home, Doomed, Holds, Present, PlaceInv, Types,
           TypeOK, OpSet
      <3> QED
        BY <3>1, <2>1, <2>2 DEF Inv, KeptInv, Holds
    <2>12. UnpackInv'
      BY <2>1, <2>2 DEF Inv, UnpackInv, Holds, Present, PlaceInv, Content
    <2>13. CurrentInv'
      BY <2>1, <2>2, Places DEF Inv, CurrentInv, Present, PlaceInv, Types, TypeOK, OpSet
    <2> QED
      BY <2>3, <2>4, <2>5, <2>6, <2>7, <2>8, <2>9, <2>10, <2>11, <2>12, <2>13 DEF Inv
  <1> QED
    BY <1>1, GiveUpKeeps, IdleIs DEF SwapState, At, GoTo, Return, history

LEMMA RestoreWorkflowKeeps ==
    ASSUME Inv, RestoreWorkflow
    PROVE  Inv'
  <1>1. ASSUME NEW s \in Statuses,
               NEW v \in {live.data, dirs[op.name].art, Torn} \ {Missing},
               op.cmd = "restore" /\ op.pc = "workflow",
               s = "ok" => v = dirs[op.name].art,
               NoFault,
               live' = [live EXCEPT !.data = v],
               op' = [op EXCEPT !.pc = "manifest", !.status = s],
               UNCHANGED <<dirs, preRestore, current, packed, commands, good, before, swapped>>
        PROVE  Inv'
    <2>1. /\ op.cmd = "restore" /\ op.pc = "workflow"
          /\ s = "ok" => v = dirs[op.name].art
          /\ faults' = faults /\ faults' \in 0 .. MaxFaults
          /\ live' = [live EXCEPT !.data = v]
          /\ op.name \in Slots /\ dirs[op.name] \in DirSet
          /\ op.aside # Nobody => /\ op.aside \in Slots /\ op.aside # op.name
                                 /\ dirs[op.aside] \in DirSet
          /\ UNCHANGED <<dirs, preRestore, current, packed, commands, good, before, swapped>>
      BY <1>1, FaultIs, Here, Places DEF Inv, Types
    <2>2. /\ op' \in OpSet
          /\ op'.cmd = op.cmd /\ op'.name = op.name /\ op'.pc = "manifest" /\ op'.aside = op.aside
          /\ op'.status = s /\ op'.prior = op.prior
      BY <1>1, GoesTo DEF Inv, Everywhere, CreatePlaces, RestorePlaces, RemovePlaces,
         UnpackPlaces
    <2>3. Types'
      <3>1. live' \in [local : LocalGens, keys : KeyGens, state : Gens \cup {Missing},
                 data : Gens \cup {Torn}] /\ Files(live') \in FileSet
        BY <2>1, <2>2, Marks DEF Inv, Types, TypeOK, Files, FileSet, DirSet
      <3> QED
        BY <2>1, <2>2, <3>1 DEF Inv, Types, TypeOK, OpSet
    <2>4. PlaceInv'
      BY <2>1, <2>2 DEF Inv, PlaceInv, CreatePlaces, RestorePlaces, RemovePlaces,
         UnpackPlaces
    <2>5. GoneInv'
      BY <2>1, <2>2 DEF Inv, GoneInv
    <2>6. CaptureInv'
      BY <2>1, <2>2 DEF Inv, CaptureInv, PlaceInv, Present
    <2>7. BackupInv'
      BY <2>1, <2>2 DEF Inv, BackupInv, PlaceInv, Files
    <2>8. RestoreInv'
      BY <2>1, <2>2 DEF Inv, RestoreInv, PlaceInv, Present
    <2>9. WholeInv'
      <3>1. ASSUME NEW n \in Names, good'[n] # Nothing, dirs'[n].manifest.status = "ok"
          PROVE  Content(dirs'[n]) = good'[n]
        BY <2>1, <2>2, <3>1, Places DEF Inv, WholeInv, PlaceInv, Types, TypeOK, OpSet
      <3> QED
        BY <3>1 DEF WholeInv
    <2>10. AsideInv'
      BY <2>1, <2>2, Places DEF Inv, AsideInv, PlaceInv, Content, Types, TypeOK, OpSet
    <2>11. KeptInv'
      <3>1. ASSUME NEW n \in Names, good'[n] # Nothing, good[n] = good'[n],
                 NEW d \in Slots, Home(n, d), Holds(d, good[n])
          PROVE  \E x \in Slots : Home(n, x)' /\ Present(x)' /\ Content(dirs'[x]) = Content(dirs[d])
        BY <2>1, <2>2, <3>1, Places DEF Inv, Home, Doomed, Holds, Present, PlaceInv, Types,
           TypeOK, OpSet
      <3> QED
        BY <3>1, <2>1, <2>2 DEF Inv, KeptInv, Holds
    <2>12. UnpackInv'
      BY <2>1, <2>2 DEF Inv, UnpackInv, Holds, Present, PlaceInv, Content
    <2>13. CurrentInv'
      BY <2>1, <2>2, Places DEF Inv, CurrentInv, Present, PlaceInv, Types, TypeOK, OpSet
    <2> QED
      BY <2>3, <2>4, <2>5, <2>6, <2>7, <2>8, <2>9, <2>10, <2>11, <2>12, <2>13 DEF Inv
  <1> QED
    BY <1>1, IdleIs DEF RestoreWorkflow, At, history

LEMMA RestoreManifestKeeps ==
    ASSUME Inv, RestoreManifest
    PROVE  Inv'
  <1> DEFINE m == [dirs[op.name].manifest EXCEPT !.restored = op.status]
  <1>1. /\ m \in ManifestSet /\ m # NoManifest
        /\ m.status = dirs[op.name].manifest.status
    BY Here, Restamped DEF RestoreManifest, At
  <1> HIDE DEF m
  <1>2. ASSUME op.cmd = "restore" /\ op.pc = "manifest" /\ op.status = "ok",
               NoFault,
               op' = [op EXCEPT !.pc = "current"],
               dirs' = [dirs EXCEPT ![op.name] = [dirs[op.name] EXCEPT !.manifest = m]],
               UNCHANGED <<live, preRestore, current, packed, commands, good, before, swapped>>
        PROVE  Inv'
    <2>1. /\ op.cmd = "restore" /\ op.pc = "manifest" /\ op.status = "ok"
          /\ faults' = faults /\ faults' \in 0 .. MaxFaults
          /\ op.name \in Slots /\ dirs[op.name] \in DirSet
          /\ op.aside # Nobody => /\ op.aside \in Slots /\ op.aside # op.name
                                 /\ dirs[op.aside] \in DirSet
          /\ UNCHANGED <<live, preRestore, current, packed, commands, good, before, swapped>>
      BY <1>2, FaultIs, Here, Places DEF Inv, Types
    <2>2. /\ op' \in OpSet
          /\ op'.cmd = op.cmd /\ op'.name = op.name /\ op'.pc = "current" /\ op'.aside = op.aside
          /\ op'.status = op.status /\ op'.prior = op.prior
      BY <1>2, GoesOn DEF Inv, Everywhere, CreatePlaces, RestorePlaces, RemovePlaces,
         UnpackPlaces
    <2>3. op.name \in Slots /\ [dirs[op.name] EXCEPT !.manifest = m] \in DirSet
      BY <2>1, <1>1 DEF DirSet, ManifestSet
    <2>4. /\ dirs' \in [Slots -> DirSet]
          /\ \A x \in Slots : x # op.name => dirs'[x] = dirs[x]
          /\ dirs'[op.name].exists = dirs[op.name].exists
          /\ dirs'[op.name].local = dirs[op.name].local
             /\ dirs'[op.name].state = dirs[op.name].state /\ dirs'[op.name].art = dirs[op.name].art
          /\ dirs'[op.name].manifest = m
          /\ dirs'[op.name].manifest.status = dirs[op.name].manifest.status
             /\ dirs'[op.name].manifest # NoManifest
      BY <1>2, <2>1, <2>3, SetOne, <1>1 DEF Inv, DirSet, Statuses
    <2>5. Types'
      BY <2>1, <2>2, <2>4 DEF Inv, Types, TypeOK, OpSet
    <2>6. PlaceInv'
      BY <2>1, <2>2, <2>4 DEF Inv, PlaceInv, CreatePlaces, RestorePlaces, RemovePlaces,
         UnpackPlaces
    <2>7. GoneInv'
      BY <2>1, <2>2, <2>4, Marks, Places, Directories DEF Inv, GoneInv, Types, TypeOK,
         OpSet, RestoreInv, Present
    <2>8. CaptureInv'
      BY <2>1, <2>2, <2>4 DEF Inv, CaptureInv, PlaceInv, Present
    <2>9. BackupInv'
      BY <2>1, <2>2, <2>4 DEF Inv, BackupInv, PlaceInv, Files
    <2>10. RestoreInv'
      BY <2>1, <2>2, <2>4 DEF Inv, RestoreInv, PlaceInv, Present
    <2>11. WholeInv'
      <3>1. ASSUME NEW n \in Names, good'[n] # Nothing, dirs'[n].manifest.status = "ok"
          PROVE  Content(dirs'[n]) = good'[n]
        BY <2>1, <2>2, <2>4, <3>1, Marks, Places, Directories DEF Inv, WholeInv, PlaceInv,
           Types, TypeOK, OpSet, Content
      <3> QED
        BY <3>1 DEF WholeInv
    <2>12. AsideInv'
      BY <2>1, <2>2, <2>4, Places DEF Inv, AsideInv, PlaceInv, Content, Types, TypeOK, OpSet
    <2>13. KeptInv'
      <3>1. ASSUME NEW n \in Names, good'[n] # Nothing, good[n] = good'[n],
                 NEW d \in Slots, Home(n, d), Holds(d, good[n])
          PROVE  \E x \in Slots : Home(n, x)' /\ Present(x)' /\ Content(dirs'[x]) = Content(dirs[d])
        BY <2>1, <2>2, <2>4, <3>1, Marks, Places, Directories DEF Inv, Home, Doomed, Holds,
           Present, PlaceInv, Types, TypeOK, OpSet, Content
      <3> QED
        BY <3>1, <2>1, <2>2, <2>4 DEF Inv, KeptInv, Holds
    <2>14. UnpackInv'
      BY <2>1, <2>2, <2>4 DEF Inv, UnpackInv, Holds, Present, PlaceInv, Content
    <2>15. CurrentInv'
      BY <2>1, <2>2, <2>4, Places DEF Inv, CurrentInv, Present, PlaceInv, Types, TypeOK,
         OpSet
    <2> QED
      BY <2>5, <2>6, <2>7, <2>8, <2>9, <2>10, <2>11, <2>12, <2>13, <2>14, <2>15 DEF Inv
  <1>3. ASSUME op.cmd = "restore" /\ op.pc = "manifest",
               NoFault,
               op' = Idle,
               dirs' = [dirs EXCEPT ![op.name] = [dirs[op.name] EXCEPT !.manifest = m]],
               UNCHANGED <<live, preRestore, current, packed, commands, good, before, swapped>>
        PROVE  Inv'
    <2>1. /\ op.cmd = "restore" /\ op.pc = "manifest"
          /\ faults' = faults /\ faults' \in 0 .. MaxFaults
          /\ op.name \in Slots /\ dirs[op.name] \in DirSet
          /\ op.aside # Nobody => /\ op.aside \in Slots /\ op.aside # op.name
                                 /\ dirs[op.aside] \in DirSet
          /\ UNCHANGED <<live, preRestore, current, packed, commands, good, before, swapped>>
      BY <1>3, FaultIs, Here, Places DEF Inv, Types
    <2>2. /\ op' \in OpSet /\ op' = Idle
          /\ op'.cmd = "none" /\ op'.name = Nobody /\ op'.pc = "idle" /\ op'.aside = Nobody
      BY <1>3, Ends
    <2>3. op.name \in Slots /\ [dirs[op.name] EXCEPT !.manifest = m] \in DirSet
      BY <2>1, <1>1 DEF DirSet, ManifestSet
    <2>4. /\ dirs' \in [Slots -> DirSet]
          /\ \A x \in Slots : x # op.name => dirs'[x] = dirs[x]
          /\ dirs'[op.name].exists = dirs[op.name].exists
          /\ dirs'[op.name].local = dirs[op.name].local
             /\ dirs'[op.name].state = dirs[op.name].state /\ dirs'[op.name].art = dirs[op.name].art
          /\ dirs'[op.name].manifest = m
          /\ dirs'[op.name].manifest.status = dirs[op.name].manifest.status
             /\ dirs'[op.name].manifest # NoManifest
      BY <1>3, <2>1, <2>3, SetOne, <1>1 DEF Inv, DirSet, Statuses
    <2>5. Types'
      BY <2>1, <2>2, <2>4 DEF Inv, Types, TypeOK, OpSet
    <2>6. PlaceInv'
      BY <2>1, <2>2, <2>4 DEF Inv, PlaceInv, CreatePlaces, RestorePlaces, RemovePlaces,
         UnpackPlaces
    <2>7. GoneInv'
      BY <2>1, <2>2, <2>4, Marks, Places, Directories DEF Inv, GoneInv, Types, TypeOK,
         OpSet, RestoreInv, Present
    <2>8. CaptureInv'
      BY <2>1, <2>2, <2>4 DEF Inv, CaptureInv, PlaceInv, Present
    <2>9. BackupInv'
      BY <2>1, <2>2, <2>4 DEF Inv, BackupInv, PlaceInv, Files
    <2>10. RestoreInv'
      BY <2>1, <2>2, <2>4 DEF Inv, RestoreInv, PlaceInv, Present
    <2>11. WholeInv'
      <3>1. ASSUME NEW n \in Names, good'[n] # Nothing, dirs'[n].manifest.status = "ok"
          PROVE  Content(dirs'[n]) = good'[n]
        BY <2>1, <2>2, <2>4, <3>1, Marks, Places, Directories DEF Inv, WholeInv, PlaceInv,
           Types, TypeOK, OpSet, Content
      <3> QED
        BY <3>1 DEF WholeInv
    <2>12. AsideInv'
      BY <2>1, <2>2, <2>4, Places DEF Inv, AsideInv, PlaceInv, Content, Types, TypeOK, OpSet
    <2>13. KeptInv'
      <3>1. ASSUME NEW n \in Names, good'[n] # Nothing, good[n] = good'[n],
                 NEW d \in Slots, Home(n, d), Holds(d, good[n])
          PROVE  \E x \in Slots : Home(n, x)' /\ Present(x)' /\ Content(dirs'[x]) = Content(dirs[d])
        BY <2>1, <2>2, <2>4, <3>1, Marks, Places, Directories DEF Inv, Home, Doomed, Holds,
           Present, PlaceInv, Types, TypeOK, OpSet, Content
      <3> QED
        BY <3>1, <2>1, <2>2, <2>4 DEF Inv, KeptInv, Holds
    <2>14. UnpackInv'
      BY <2>1, <2>2, <2>4 DEF Inv, UnpackInv, Holds, Present, PlaceInv, Content
    <2>15. CurrentInv'
      BY <2>1, <2>2, <2>4, Places DEF Inv, CurrentInv, Present, PlaceInv, Types, TypeOK,
         OpSet
    <2> QED
      BY <2>5, <2>6, <2>7, <2>8, <2>9, <2>10, <2>11, <2>12, <2>13, <2>14, <2>15 DEF Inv
  <1> QED
    BY <1>2, <1>3, GiveUpKeeps, IdleIs DEF RestoreManifest, At, InDirs, GoTo, Return,
       history, m

LEMMA RemoveBeginKeeps ==
    ASSUME Inv, NEW d \in Shown, RemoveBegin(d)
    PROVE  Inv'
  <1>1. ASSUME op.cmd = "none" /\ op.name = Nobody /\ op.pc = "idle" /\ op.aside = Nobody,
               commands < MaxCommands /\ commands' = commands + 1,
               dirs[d].exists,
               NoFault,
               good' = [n \in Names |-> IF good[n] = Content(dirs[d]) THEN Nothing ELSE good[n]],
               op' = [cmd |-> "remove", name |-> d, pc |-> "workflow", aside |-> Nobody,
                      status |-> "ok", prior |-> Nothing],
               UNCHANGED <<live, dirs, preRestore, current, packed, before, swapped>>
        PROVE  Inv'
    <2>1. /\ op.cmd = "none" /\ op.name = Nobody /\ op.pc = "idle" /\ op.aside = Nobody
          /\ commands < MaxCommands /\ commands' = commands + 1
          /\ dirs[d].exists
          /\ faults' = faults /\ faults' \in 0 .. MaxFaults
          /\ good' = [n \in Names |-> IF good[n] = Content(dirs[d]) THEN Nothing ELSE good[n]]
          /\ UNCHANGED <<live, dirs, preRestore, current, packed, before, swapped>>
      BY <1>1, FaultIs, Here, Places DEF Inv, Types
    <2>2. /\ op' \in OpSet
          /\ op'.cmd = "remove" /\ op'.name = d /\ op'.pc = "workflow" /\ op'.aside = Nobody
          /\ op'.status = "ok" /\ op'.prior = Nothing
      BY <1>1, Directories, Places DEF Inv, Types, OpSet, CreatePlaces, RestorePlaces,
         RemovePlaces, UnpackPlaces, Statuses, Shown
    <2>3. Types'
      <3>1. commands' \in 0 .. MaxCommands
        BY <2>1, <2>2, Counted DEF Inv, Types, TypeOK
      <3>2. good' \in [Names -> ContentSet]
        BY <2>1, <2>2, Here, Directories, Places DEF Inv, Types, TypeOK, OpSet, PlaceInv
      <3> QED
        BY <2>1, <2>2, <3>1, <3>2 DEF Inv, Types, TypeOK, OpSet
    <2>4. PlaceInv'
      BY <2>1, <2>2 DEF Inv, PlaceInv, CreatePlaces, RestorePlaces, RemovePlaces,
         UnpackPlaces
    <2>5. GoneInv'
      BY <2>1, <2>2 DEF Inv, GoneInv
    <2>6. CaptureInv'
      BY <2>1, <2>2 DEF Inv, CaptureInv, PlaceInv, Present
    <2>7. BackupInv'
      BY <2>1, <2>2 DEF Inv, BackupInv, PlaceInv, Files
    <2>8. RestoreInv'
      BY <2>1, <2>2 DEF Inv, RestoreInv, PlaceInv, Present
    <2>9. WholeInv'
      <3>1. ASSUME NEW n \in Names, good'[n] # Nothing, dirs'[n].manifest.status = "ok"
          PROVE  Content(dirs'[n]) = good'[n]
        BY <2>1, <2>2, <3>1, Places DEF Inv, WholeInv, PlaceInv, Types, TypeOK, OpSet
      <3> QED
        BY <3>1 DEF WholeInv
    <2>10. AsideInv'
      BY <2>1, <2>2, Marks, Places, Directories DEF Inv, AsideInv, PlaceInv, Content, Types,
         TypeOK, OpSet, WholeInv
    <2>11. KeptInv'
      <3>1. ASSUME NEW n \in Names, good'[n] # Nothing, good[n] = good'[n],
                 NEW e \in Slots, Home(n, e), Holds(e, good[n])
          PROVE  \E x \in Slots : Home(n, x)' /\ Present(x)' /\ Content(dirs'[x]) = Content(dirs[e])
        BY <2>1, <2>2, <3>1, Places DEF Inv, Home, Doomed, Holds, Present, PlaceInv, Types,
           TypeOK, OpSet
      <3> QED
        BY <3>1, <2>1, <2>2 DEF Inv, KeptInv, Holds
    <2>12. UnpackInv'
      BY <2>1, <2>2 DEF Inv, UnpackInv, Holds, Present, PlaceInv, Content
    <2>13. CurrentInv'
      BY <2>1, <2>2, Places DEF Inv, CurrentInv, Present, PlaceInv, Types, TypeOK, OpSet
    <2> QED
      BY <2>3, <2>4, <2>5, <2>6, <2>7, <2>8, <2>9, <2>10, <2>11, <2>12, <2>13 DEF Inv
  <1> QED
    BY <1>1, IdleIs DEF RemoveBegin, Start, IsIdle, disk, Command

LEMMA RemoveWorkflowKeeps ==
    ASSUME Inv, RemoveWorkflow
    PROVE  Inv'
  <1>1. ASSUME NEW a \in {dirs[op.name].art, Missing},
               op.cmd = "remove" /\ op.pc = "workflow",
               NoFault,
               op' = Idle,
               dirs' = [dirs EXCEPT ![op.name] = [dirs[op.name] EXCEPT !.art = a]],
               UNCHANGED <<live, preRestore, current, packed, commands, good, before, swapped>>
        PROVE  Inv'
    <2>1. /\ op.cmd = "remove" /\ op.pc = "workflow"
          /\ faults' = faults /\ faults' \in 0 .. MaxFaults
          /\ op.name \in Slots /\ dirs[op.name] \in DirSet
          /\ op.aside # Nobody => /\ op.aside \in Slots /\ op.aside # op.name
                                 /\ dirs[op.aside] \in DirSet
          /\ UNCHANGED <<live, preRestore, current, packed, commands, good, before, swapped>>
      BY <1>1, FaultIs, Here, Places DEF Inv, Types
    <2>2. /\ op' \in OpSet /\ op' = Idle
          /\ op'.cmd = "none" /\ op'.name = Nobody /\ op'.pc = "idle" /\ op'.aside = Nobody
      BY <1>1, Ends
    <2>3. op.name \in Slots /\ [dirs[op.name] EXCEPT !.art = a] \in DirSet
      BY <1>1, <2>1 DEF Inv, Types, TypeOK, DirSet
    <2>4. /\ dirs' \in [Slots -> DirSet]
          /\ \A x \in Slots : x # op.name => dirs'[x] = dirs[x]
          /\ dirs'[op.name].exists = dirs[op.name].exists
          /\ dirs'[op.name].local = dirs[op.name].local
             /\ dirs'[op.name].state = dirs[op.name].state /\ dirs'[op.name].art = a
          /\ dirs'[op.name].manifest = dirs[op.name].manifest
      BY <1>1, <2>1, <2>3, SetOne DEF Inv, DirSet, Statuses
    <2>5. Types'
      BY <2>1, <2>2, <2>4 DEF Inv, Types, TypeOK, OpSet
    <2>6. PlaceInv'
      BY <2>1, <2>2, <2>4 DEF Inv, PlaceInv, CreatePlaces, RestorePlaces, RemovePlaces,
         UnpackPlaces
    <2>7. GoneInv'
      BY <2>1, <2>2, <2>4, Marks, Places, Directories DEF Inv, GoneInv, Types, TypeOK,
         OpSet, DirSet, NoDir, EmptyDir, NoManifest
    <2>8. CaptureInv'
      BY <2>1, <2>2, <2>4 DEF Inv, CaptureInv, PlaceInv, Present
    <2>9. BackupInv'
      BY <2>1, <2>2, <2>4 DEF Inv, BackupInv, PlaceInv, Files
    <2>10. RestoreInv'
      BY <2>1, <2>2, <2>4 DEF Inv, RestoreInv, PlaceInv, Present
    <2>11. WholeInv'
      <3>1. ASSUME NEW n \in Names, good'[n] # Nothing, dirs'[n].manifest.status = "ok"
          PROVE  Content(dirs'[n]) = good'[n]
        BY <2>1, <2>2, <2>4, <3>1, Marks, Places, Directories DEF Inv, WholeInv, PlaceInv,
           Types, TypeOK, OpSet, Content, AsideInv
      <3> QED
        BY <3>1 DEF WholeInv
    <2>12. AsideInv'
      BY <2>1, <2>2, <2>4, Places DEF Inv, AsideInv, PlaceInv, Content, Types, TypeOK, OpSet
    <2>13. KeptInv'
      <3>1. ASSUME NEW n \in Names, good'[n] # Nothing, good[n] = good'[n],
                 NEW d \in Slots, Home(n, d), Holds(d, good[n])
          PROVE  \E x \in Slots : Home(n, x)' /\ Present(x)' /\ Content(dirs'[x]) = Content(dirs[d])
        BY <2>1, <2>2, <2>4, <3>1, Places DEF Inv, Home, Doomed, Holds, Present, PlaceInv,
           Types, TypeOK, OpSet
      <3> QED
        BY <3>1, <2>1, <2>2, <2>4 DEF Inv, KeptInv, Holds
    <2>14. UnpackInv'
      BY <2>1, <2>2, <2>4 DEF Inv, UnpackInv, Holds, Present, PlaceInv, Content
    <2>15. CurrentInv'
      BY <2>1, <2>2, <2>4, Places DEF Inv, CurrentInv, Present, PlaceInv, Types, TypeOK,
         OpSet
    <2> QED
      BY <2>5, <2>6, <2>7, <2>8, <2>9, <2>10, <2>11, <2>12, <2>13, <2>14, <2>15 DEF Inv
  <1>2. ASSUME NEW a \in {dirs[op.name].art, Missing},
               op.cmd = "remove" /\ op.pc = "workflow",
               NoFault,
               op' = [op EXCEPT !.pc = "erase"],
               dirs' = [dirs EXCEPT ![op.name] = [dirs[op.name] EXCEPT !.art = a]],
               UNCHANGED <<live, preRestore, current, packed, commands, good, before, swapped>>
        PROVE  Inv'
    <2>1. /\ op.cmd = "remove" /\ op.pc = "workflow"
          /\ faults' = faults /\ faults' \in 0 .. MaxFaults
          /\ op.name \in Slots /\ dirs[op.name] \in DirSet
          /\ op.aside # Nobody => /\ op.aside \in Slots /\ op.aside # op.name
                                 /\ dirs[op.aside] \in DirSet
          /\ UNCHANGED <<live, preRestore, current, packed, commands, good, before, swapped>>
      BY <1>2, FaultIs, Here, Places DEF Inv, Types
    <2>2. /\ op' \in OpSet
          /\ op'.cmd = op.cmd /\ op'.name = op.name /\ op'.pc = "erase" /\ op'.aside = op.aside
          /\ op'.status = op.status /\ op'.prior = op.prior
      BY <1>2, GoesOn DEF Inv, Everywhere, CreatePlaces, RestorePlaces, RemovePlaces,
         UnpackPlaces
    <2>3. op.name \in Slots /\ [dirs[op.name] EXCEPT !.art = a] \in DirSet
      BY <1>2, <2>1 DEF Inv, Types, TypeOK, DirSet
    <2>4. /\ dirs' \in [Slots -> DirSet]
          /\ \A x \in Slots : x # op.name => dirs'[x] = dirs[x]
          /\ dirs'[op.name].exists = dirs[op.name].exists
          /\ dirs'[op.name].local = dirs[op.name].local
             /\ dirs'[op.name].state = dirs[op.name].state /\ dirs'[op.name].art = a
          /\ dirs'[op.name].manifest = dirs[op.name].manifest
      BY <1>2, <2>1, <2>3, SetOne DEF Inv, DirSet, Statuses
    <2>5. Types'
      BY <2>1, <2>2, <2>4 DEF Inv, Types, TypeOK, OpSet
    <2>6. PlaceInv'
      BY <2>1, <2>2, <2>4 DEF Inv, PlaceInv, CreatePlaces, RestorePlaces, RemovePlaces,
         UnpackPlaces
    <2>7. GoneInv'
      BY <2>1, <2>2, <2>4, Marks, Places, Directories DEF Inv, GoneInv, Types, TypeOK,
         OpSet, DirSet, NoDir, EmptyDir, NoManifest
    <2>8. CaptureInv'
      BY <2>1, <2>2, <2>4 DEF Inv, CaptureInv, PlaceInv, Present
    <2>9. BackupInv'
      BY <2>1, <2>2, <2>4 DEF Inv, BackupInv, PlaceInv, Files
    <2>10. RestoreInv'
      BY <2>1, <2>2, <2>4 DEF Inv, RestoreInv, PlaceInv, Present
    <2>11. WholeInv'
      <3>1. ASSUME NEW n \in Names, good'[n] # Nothing, dirs'[n].manifest.status = "ok"
          PROVE  Content(dirs'[n]) = good'[n]
        BY <2>1, <2>2, <2>4, <3>1, Marks, Places, Directories DEF Inv, WholeInv, PlaceInv,
           Types, TypeOK, OpSet, Content, AsideInv
      <3> QED
        BY <3>1 DEF WholeInv
    <2>12. AsideInv'
      BY <2>1, <2>2, <2>4, Places DEF Inv, AsideInv, PlaceInv, Content, Types, TypeOK, OpSet
    <2>13. KeptInv'
      <3>1. ASSUME NEW n \in Names, good'[n] # Nothing, good[n] = good'[n],
                 NEW d \in Slots, Home(n, d), Holds(d, good[n])
          PROVE  \E x \in Slots : Home(n, x)' /\ Present(x)' /\ Content(dirs'[x]) = Content(dirs[d])
        BY <2>1, <2>2, <2>4, <3>1, Places DEF Inv, Home, Doomed, Holds, Present, PlaceInv,
           Types, TypeOK, OpSet
      <3> QED
        BY <3>1, <2>1, <2>2, <2>4 DEF Inv, KeptInv, Holds
    <2>14. UnpackInv'
      BY <2>1, <2>2, <2>4 DEF Inv, UnpackInv, Holds, Present, PlaceInv, Content
    <2>15. CurrentInv'
      BY <2>1, <2>2, <2>4, Places DEF Inv, CurrentInv, Present, PlaceInv, Types, TypeOK,
         OpSet
    <2> QED
      BY <2>5, <2>6, <2>7, <2>8, <2>9, <2>10, <2>11, <2>12, <2>13, <2>14, <2>15 DEF Inv
  <1> QED
    BY <1>1, <1>2, IdleIs DEF RemoveWorkflow, At, InDirs, GoTo, Return, history

LEMMA RemoveEraseKeeps ==
    ASSUME Inv, RemoveErase
    PROVE  Inv'
  <1>1. ASSUME op.cmd = "remove" /\ op.pc = "erase",
               NoFault,
               op' = [op EXCEPT !.pc = "clear"],
               dirs' = [dirs EXCEPT ![op.name] = NoDir],
               UNCHANGED <<live, preRestore, current, packed, commands, good, before, swapped>>
        PROVE  Inv'
    <2>1. /\ op.cmd = "remove" /\ op.pc = "erase"
          /\ faults' = faults /\ faults' \in 0 .. MaxFaults
          /\ op.name \in Slots /\ dirs[op.name] \in DirSet
          /\ op.aside # Nobody => /\ op.aside \in Slots /\ op.aside # op.name
                                 /\ dirs[op.aside] \in DirSet
          /\ UNCHANGED <<live, preRestore, current, packed, commands, good, before, swapped>>
      BY <1>1, FaultIs, Here, Places DEF Inv, Types
    <2>2. /\ op' \in OpSet
          /\ op'.cmd = op.cmd /\ op'.name = op.name /\ op'.pc = "clear" /\ op'.aside = op.aside
          /\ op'.status = op.status /\ op'.prior = op.prior
      BY <1>1, GoesOn DEF Inv, Everywhere, CreatePlaces, RestorePlaces, RemovePlaces,
         UnpackPlaces
    <2>3. /\ dirs' \in [Slots -> DirSet]
          /\ \A x \in Slots : x # op.name => dirs'[x] = dirs[x]
          /\ dirs'[op.name] = NoDir
      BY <1>1, <2>1, SetOne, Directories, Places DEF Inv, PlaceInv
    <2>4. Types'
      BY <2>1, <2>2, <2>3 DEF Inv, Types, TypeOK, OpSet
    <2>5. PlaceInv'
      BY <2>1, <2>2, <2>3 DEF Inv, PlaceInv, CreatePlaces, RestorePlaces, RemovePlaces,
         UnpackPlaces
    <2>6. GoneInv'
      BY <2>1, <2>2, <2>3 DEF Inv, GoneInv
    <2>7. CaptureInv'
      BY <2>1, <2>2, <2>3 DEF Inv, CaptureInv, PlaceInv, Present
    <2>8. BackupInv'
      BY <2>1, <2>2, <2>3 DEF Inv, BackupInv, PlaceInv, Files
    <2>9. RestoreInv'
      BY <2>1, <2>2, <2>3 DEF Inv, RestoreInv, PlaceInv, Present
    <2>10. WholeInv'
      <3>1. ASSUME NEW n \in Names, good'[n] # Nothing, dirs'[n].manifest.status = "ok"
          PROVE  Content(dirs'[n]) = good'[n]
        BY <2>1, <2>2, <2>3, <3>1, Marks, Places, Directories DEF Inv, WholeInv, PlaceInv,
           Types, TypeOK, OpSet, Content
      <3> QED
        BY <3>1 DEF WholeInv
    <2>11. AsideInv'
      BY <2>1, <2>2, <2>3, Marks, Places, Directories DEF Inv, AsideInv, PlaceInv, Content,
         Types, TypeOK, OpSet
    <2>12. KeptInv'
      <3>1. ASSUME NEW n \in Names, good'[n] # Nothing, good[n] = good'[n],
                 NEW d \in Slots, Home(n, d), Holds(d, good[n])
          PROVE  \E x \in Slots : Home(n, x)' /\ Present(x)' /\ Content(dirs'[x]) = Content(dirs[d])
        BY <2>1, <2>2, <2>3, <3>1, Places DEF Inv, Home, Doomed, Holds, Present, PlaceInv,
           Types, TypeOK, OpSet
      <3> QED
        BY <3>1, <2>1, <2>2, <2>3 DEF Inv, KeptInv, Holds
    <2>13. UnpackInv'
      BY <2>1, <2>2, <2>3 DEF Inv, UnpackInv, Holds, Present, PlaceInv, Content
    <2>14. CurrentInv'
      BY <2>1, <2>2, <2>3, Places DEF Inv, CurrentInv, Present, PlaceInv, Types, TypeOK,
         OpSet
    <2> QED
      BY <2>4, <2>5, <2>6, <2>7, <2>8, <2>9, <2>10, <2>11, <2>12, <2>13, <2>14 DEF Inv
  <1> QED
    BY <1>1, CutKeeps, Here, IdleIs DEF RemoveErase, At, InDirs, GoTo, Return, history

LEMMA RemoveClearKeeps ==
    ASSUME Inv, RemoveClear
    PROVE  Inv'
  <1>1. ASSUME op.cmd = "remove" /\ op.pc = "clear",
               current' = IF current = op.name THEN Nobody ELSE current,
               NoFault,
               op' = Idle,
               UNCHANGED <<live, dirs, preRestore, packed, commands, good, before, swapped>>
        PROVE  Inv'
    <2>1. /\ op.cmd = "remove" /\ op.pc = "clear"
          /\ current' = IF current = op.name THEN Nobody ELSE current
          /\ faults' = faults /\ faults' \in 0 .. MaxFaults
          /\ op.name \in Slots /\ dirs[op.name] \in DirSet
          /\ op.aside # Nobody => /\ op.aside \in Slots /\ op.aside # op.name
                                 /\ dirs[op.aside] \in DirSet
          /\ UNCHANGED <<live, dirs, preRestore, packed, commands, good, before, swapped>>
      BY <1>1, FaultIs, Here, Places DEF Inv, Types
    <2>2. /\ op' \in OpSet /\ op' = Idle
          /\ op'.cmd = "none" /\ op'.name = Nobody /\ op'.pc = "idle" /\ op'.aside = Nobody
      BY <1>1, Ends
    <2>3. Types'
      <3>1. current' \in Shown \cup {Nobody}
        BY <2>1, <2>2 DEF Inv, Types, TypeOK
      <3> QED
        BY <2>1, <2>2, <3>1 DEF Inv, Types, TypeOK, OpSet
    <2>4. PlaceInv'
      BY <2>1, <2>2 DEF Inv, PlaceInv, CreatePlaces, RestorePlaces, RemovePlaces,
         UnpackPlaces
    <2>5. GoneInv'
      BY <2>1, <2>2 DEF Inv, GoneInv
    <2>6. CaptureInv'
      BY <2>1, <2>2 DEF Inv, CaptureInv, PlaceInv, Present
    <2>7. BackupInv'
      BY <2>1, <2>2 DEF Inv, BackupInv, PlaceInv, Files
    <2>8. RestoreInv'
      BY <2>1, <2>2 DEF Inv, RestoreInv, PlaceInv, Present
    <2>9. WholeInv'
      <3>1. ASSUME NEW n \in Names, good'[n] # Nothing, dirs'[n].manifest.status = "ok"
          PROVE  Content(dirs'[n]) = good'[n]
        BY <2>1, <2>2, <3>1, Places DEF Inv, WholeInv, PlaceInv, Types, TypeOK, OpSet
      <3> QED
        BY <3>1 DEF WholeInv
    <2>10. AsideInv'
      BY <2>1, <2>2, Places DEF Inv, AsideInv, PlaceInv, Content, Types, TypeOK, OpSet
    <2>11. KeptInv'
      <3>1. ASSUME NEW n \in Names, good'[n] # Nothing, good[n] = good'[n],
                 NEW d \in Slots, Home(n, d), Holds(d, good[n])
          PROVE  \E x \in Slots : Home(n, x)' /\ Present(x)' /\ Content(dirs'[x]) = Content(dirs[d])
        BY <2>1, <2>2, <3>1, Places DEF Inv, Home, Doomed, Holds, Present, PlaceInv, Types,
           TypeOK, OpSet
      <3> QED
        BY <3>1, <2>1, <2>2 DEF Inv, KeptInv, Holds
    <2>12. UnpackInv'
      BY <2>1, <2>2 DEF Inv, UnpackInv, Holds, Present, PlaceInv, Content
    <2>13. CurrentInv'
      BY <2>1, <2>2, Places DEF Inv, CurrentInv, Present, PlaceInv, Types, TypeOK, OpSet
    <2> QED
      BY <2>3, <2>4, <2>5, <2>6, <2>7, <2>8, <2>9, <2>10, <2>11, <2>12, <2>13 DEF Inv
  <1> QED
    BY <1>1, GiveUpKeeps, IdleIs DEF RemoveClear, At, Return, history

LEMMA PackKeeps ==
    ASSUME Inv, NEW d \in Shown, Pack(d)
    PROVE  Inv'
  <1>1. ASSUME NEW a \in {dirs[d].art, Missing},
               op.cmd = "none" /\ op.name = Nobody /\ op.pc = "idle" /\ op.aside = Nobody,
               commands < MaxCommands /\ commands' = commands + 1,
               Present(d),
               NoFault,
               packed' = [dirs[d] EXCEPT !.art = a],
               UNCHANGED <<live, dirs, preRestore, current, op, good, before, swapped>>
        PROVE  Inv'
    <2>1. /\ op.cmd = "none" /\ op.name = Nobody /\ op.pc = "idle" /\ op.aside = Nobody
          /\ commands < MaxCommands /\ commands' = commands + 1
          /\ Present(d)
          /\ faults' = faults /\ faults' \in 0 .. MaxFaults
          /\ packed' = [dirs[d] EXCEPT !.art = a]
          /\ UNCHANGED <<live, dirs, preRestore, current, op, good, before, swapped>>
      BY <1>1, FaultIs, Here, Places DEF Inv, Types
    <2>2. Types'
      <3>1. commands' \in 0 .. MaxCommands
        BY <2>1, Counted DEF Inv, Types, TypeOK
      <3>2. packed' \in DirSet
        BY <2>1, Places, Marks DEF Inv, Types, TypeOK, DirSet, Present
      <3> QED
        BY <2>1, <3>1, <3>2 DEF Inv, Types, TypeOK, OpSet
    <2>3. PlaceInv'
      BY <2>1 DEF Inv, PlaceInv, CreatePlaces, RestorePlaces, RemovePlaces, UnpackPlaces
    <2>4. GoneInv'
      BY <2>1 DEF Inv, GoneInv
    <2>5. CaptureInv'
      BY <2>1 DEF Inv, CaptureInv, PlaceInv, Present
    <2>6. BackupInv'
      BY <2>1 DEF Inv, BackupInv, PlaceInv, Files
    <2>7. RestoreInv'
      BY <2>1 DEF Inv, RestoreInv, PlaceInv, Present
    <2>8. WholeInv'
      <3>1. ASSUME NEW n \in Names, good'[n] # Nothing, dirs'[n].manifest.status = "ok"
          PROVE  Content(dirs'[n]) = good'[n]
        BY <2>1, <3>1, Places DEF Inv, WholeInv, PlaceInv, Types, TypeOK, OpSet
      <3> QED
        BY <3>1 DEF WholeInv
    <2>9. AsideInv'
      BY <2>1, Places DEF Inv, AsideInv, PlaceInv, Content, Types, TypeOK, OpSet
    <2>10. KeptInv'
      <3>1. ASSUME NEW n \in Names, good'[n] # Nothing, good[n] = good'[n],
                 NEW e \in Slots, Home(n, e), Holds(e, good[n])
          PROVE  \E x \in Slots : Home(n, x)' /\ Present(x)' /\ Content(dirs'[x]) = Content(dirs[e])
        BY <2>1, <3>1, Places DEF Inv, Home, Doomed, Holds, Present, PlaceInv, Types,
           TypeOK, OpSet
      <3> QED
        BY <3>1, <2>1 DEF Inv, KeptInv, Holds
    <2>11. UnpackInv'
      BY <2>1 DEF Inv, UnpackInv, Holds, Present, PlaceInv, Content
    <2>12. CurrentInv'
      BY <2>1, Places DEF Inv, CurrentInv, Present, PlaceInv, Types, TypeOK, OpSet
    <2> QED
      BY <2>2, <2>3, <2>4, <2>5, <2>6, <2>7, <2>8, <2>9, <2>10, <2>11, <2>12 DEF Inv
  <1> QED
    BY <1>1, IdleIs DEF Pack, Start, IsIdle, history, Present

LEMMA UnpackBeginKeeps ==
    ASSUME Inv, NEW n \in Names, UnpackBegin(n)
    PROVE  Inv'
  <1>1. ASSUME op.cmd = "none" /\ op.name = Nobody /\ op.pc = "idle" /\ op.aside = Nobody,
               commands < MaxCommands /\ commands' = commands + 1,
               packed.exists,
               ~dirs[n].exists,
               NoFault,
               op' = [cmd |-> "unpack", name |-> n, pc |-> "install", aside |-> Nobody,
                      status |-> "ok", prior |-> good[n]],
               UNCHANGED <<live, dirs, preRestore, current, packed, good, before, swapped>>
        PROVE  Inv'
    <2>1. /\ op.cmd = "none" /\ op.name = Nobody /\ op.pc = "idle" /\ op.aside = Nobody
          /\ commands < MaxCommands /\ commands' = commands + 1
          /\ packed.exists
          /\ ~dirs[n].exists
          /\ faults' = faults /\ faults' \in 0 .. MaxFaults
          /\ UNCHANGED <<live, dirs, preRestore, current, packed, good, before, swapped>>
      BY <1>1, FaultIs, Here, Places DEF Inv, Types
    <2>2. /\ op' \in OpSet
          /\ op'.cmd = "unpack" /\ op'.name = n /\ op'.pc = "install" /\ op'.aside = Nobody
          /\ op'.status = "ok" /\ op'.prior = good[n]
      BY <1>1, Directories, Places DEF Inv, Types, OpSet, CreatePlaces, RestorePlaces,
         RemovePlaces, UnpackPlaces, Statuses, Shown
    <2>3. Types'
      <3>1. commands' \in 0 .. MaxCommands
        BY <2>1, <2>2, Counted DEF Inv, Types, TypeOK
      <3> QED
        BY <2>1, <2>2, <3>1 DEF Inv, Types, TypeOK, OpSet
    <2>4. PlaceInv'
      BY <2>1, <2>2 DEF Inv, PlaceInv, CreatePlaces, RestorePlaces, RemovePlaces,
         UnpackPlaces
    <2>5. GoneInv'
      BY <2>1, <2>2 DEF Inv, GoneInv
    <2>6. CaptureInv'
      BY <2>1, <2>2 DEF Inv, CaptureInv, PlaceInv, Present
    <2>7. BackupInv'
      BY <2>1, <2>2 DEF Inv, BackupInv, PlaceInv, Files
    <2>8. RestoreInv'
      BY <2>1, <2>2 DEF Inv, RestoreInv, PlaceInv, Present
    <2>9. WholeInv'
      <3>1. ASSUME NEW k \in Names, good'[k] # Nothing, dirs'[k].manifest.status = "ok"
          PROVE  Content(dirs'[k]) = good'[k]
        BY <2>1, <2>2, <3>1, Places DEF Inv, WholeInv, PlaceInv, Types, TypeOK, OpSet
      <3> QED
        BY <3>1 DEF WholeInv
    <2>10. AsideInv'
      BY <2>1, <2>2, Places DEF Inv, AsideInv, PlaceInv, Content, Types, TypeOK, OpSet
    <2>11. KeptInv'
      <3>1. ASSUME NEW k \in Names, good'[k] # Nothing, good[k] = good'[k],
                 NEW d \in Slots, Home(k, d), Holds(d, good[k])
          PROVE  \E x \in Slots : Home(k, x)' /\ Present(x)' /\ Content(dirs'[x]) = Content(dirs[d])
        BY <2>1, <2>2, <3>1, Places DEF Inv, Home, Doomed, Holds, Present, PlaceInv, Types,
           TypeOK, OpSet
      <3> QED
        BY <3>1, <2>1, <2>2 DEF Inv, KeptInv, Holds
    <2>12. UnpackInv'
      BY <2>1, <2>2, Marks, Places, Directories DEF Inv, UnpackInv, Holds, Present,
         PlaceInv, Content, Types, TypeOK, OpSet, KeptInv, Home
    <2>13. CurrentInv'
      BY <2>1, <2>2, Places DEF Inv, CurrentInv, Present, PlaceInv, Types, TypeOK, OpSet
    <2> QED
      BY <2>3, <2>4, <2>5, <2>6, <2>7, <2>8, <2>9, <2>10, <2>11, <2>12, <2>13 DEF Inv
  <1>2. ASSUME NEW o \in Olds,
               op.cmd = "none" /\ op.name = Nobody /\ op.pc = "idle" /\ op.aside = Nobody,
               commands < MaxCommands /\ commands' = commands + 1,
               packed.exists,
               dirs[n].exists /\ ~dirs[o].exists,
               NoFault,
               op' = [cmd |-> "unpack", name |-> n, pc |-> "install", aside |-> o,
                      status |-> "ok", prior |-> good[n]],
               dirs' = [dirs EXCEPT ![o] = dirs[n], ![n] = NoDir],
               UNCHANGED <<live, preRestore, current, packed, good, before, swapped>>
        PROVE  Inv'
    <2>1. /\ op.cmd = "none" /\ op.name = Nobody /\ op.pc = "idle" /\ op.aside = Nobody
          /\ commands < MaxCommands /\ commands' = commands + 1
          /\ packed.exists
          /\ dirs[n].exists /\ ~dirs[o].exists
          /\ faults' = faults /\ faults' \in 0 .. MaxFaults
          /\ UNCHANGED <<live, preRestore, current, packed, good, before, swapped>>
      BY <1>2, FaultIs, Here, Places DEF Inv, Types
    <2>2. /\ op' \in OpSet
          /\ op'.cmd = "unpack" /\ op'.name = n /\ op'.pc = "install" /\ op'.aside = o
          /\ op'.status = "ok" /\ op'.prior = good[n]
      BY <1>2, Directories, Places DEF Inv, Types, OpSet, CreatePlaces, RestorePlaces,
         RemovePlaces, UnpackPlaces, Statuses, Shown
    <2>3. /\ dirs' \in [Slots -> DirSet]
          /\ dirs'[o] = dirs[n] /\ dirs'[n] = NoDir
          /\ \A x \in Slots : x # n /\ x # o => dirs'[x] = dirs[x]
      BY <1>2, <2>1, Moved, Places DEF Inv, PlaceInv
    <2>4. Types'
      <3>1. commands' \in 0 .. MaxCommands
        BY <2>1, <2>2, <2>3, Counted DEF Inv, Types, TypeOK
      <3> QED
        BY <2>1, <2>2, <2>3, <3>1 DEF Inv, Types, TypeOK, OpSet
    <2>5. PlaceInv'
      BY <2>1, <2>2, <2>3 DEF Inv, PlaceInv, CreatePlaces, RestorePlaces, RemovePlaces,
         UnpackPlaces
    <2>6. GoneInv'
      BY <2>1, <2>2, <2>3 DEF Inv, GoneInv
    <2>7. CaptureInv'
      BY <2>1, <2>2, <2>3 DEF Inv, CaptureInv, PlaceInv, Present
    <2>8. BackupInv'
      BY <2>1, <2>2, <2>3 DEF Inv, BackupInv, PlaceInv, Files
    <2>9. RestoreInv'
      BY <2>1, <2>2, <2>3 DEF Inv, RestoreInv, PlaceInv, Present
    <2>10. WholeInv'
      <3>1. ASSUME NEW k \in Names, good'[k] # Nothing, dirs'[k].manifest.status = "ok"
          PROVE  Content(dirs'[k]) = good'[k]
        BY <2>1, <2>2, <2>3, <3>1, Marks, Places, Directories DEF Inv, WholeInv, PlaceInv,
           Types, TypeOK, OpSet, Content
      <3> QED
        BY <3>1 DEF WholeInv
    <2>11. AsideInv'
      BY <2>1, <2>2, <2>3, Marks, Places, Directories DEF Inv, AsideInv, PlaceInv, Content,
         Types, TypeOK, OpSet, WholeInv
    <2>12. KeptInv'
      <3>1. ASSUME NEW k \in Names, good'[k] # Nothing, good[k] = good'[k],
                 NEW d \in Slots, Home(k, d), Holds(d, good[k])
          PROVE  \E x \in Slots : Home(k, x)' /\ Present(x)' /\ Content(dirs'[x]) = Content(dirs[d])
        BY <2>1, <2>2, <2>3, <3>1, Places DEF Inv, Home, Doomed, Holds, Present, PlaceInv,
           Types, TypeOK, OpSet
      <3> QED
        BY <3>1, <2>1, <2>2, <2>3 DEF Inv, KeptInv, Holds
    <2>13. UnpackInv'
      BY <2>1, <2>2, <2>3, Marks, Places, Directories DEF Inv, UnpackInv, Holds, Present,
         PlaceInv, Content, Types, TypeOK, OpSet, KeptInv, Home
    <2>14. CurrentInv'
      BY <2>1, <2>2, <2>3, Places DEF Inv, CurrentInv, Present, PlaceInv, Types, TypeOK,
         OpSet
    <2> QED
      BY <2>4, <2>5, <2>6, <2>7, <2>8, <2>9, <2>10, <2>11, <2>12, <2>13, <2>14 DEF Inv
  <1> QED
    BY <1>1, <1>2, IdleIs DEF UnpackBegin, Start, IsIdle, history, Command

LEMMA UnpackInstallKeeps ==
    ASSUME Inv, UnpackInstall
    PROVE  Inv'
  <1>1. ASSUME op.cmd = "unpack" /\ op.pc = "install",
               NoFault,
               good' = [good EXCEPT ![op.name] = Content(packed)],
               op' = [op EXCEPT !.pc = "name"],
               dirs' = [dirs EXCEPT ![op.name] = packed],
               UNCHANGED <<live, preRestore, current, packed, commands, before, swapped>>
        PROVE  Inv'
    <2>1. /\ op.cmd = "unpack" /\ op.pc = "install"
          /\ faults' = faults /\ faults' \in 0 .. MaxFaults
          /\ good' = [good EXCEPT ![op.name] = Content(packed)]
          /\ op.name \in Slots /\ dirs[op.name] \in DirSet
          /\ op.aside # Nobody => /\ op.aside \in Slots /\ op.aside # op.name
                                 /\ dirs[op.aside] \in DirSet
          /\ UNCHANGED <<live, preRestore, current, packed, commands, before, swapped>>
      BY <1>1, FaultIs, Here, Places DEF Inv, Types
    <2>2. /\ op' \in OpSet
          /\ op'.cmd = op.cmd /\ op'.name = op.name /\ op'.pc = "name" /\ op'.aside = op.aside
          /\ op'.status = op.status /\ op'.prior = op.prior
      BY <1>1, GoesOn DEF Inv, Everywhere, CreatePlaces, RestorePlaces, RemovePlaces,
         UnpackPlaces
    <2>3. op.name \in Slots /\ packed \in DirSet
      BY <1>1, <2>1 DEF Inv, Types, TypeOK, DirSet, UnpackInv
    <2>4. /\ dirs' \in [Slots -> DirSet]
          /\ \A x \in Slots : x # op.name => dirs'[x] = dirs[x]
          /\ dirs'[op.name] = packed
      BY <1>1, <2>3, SetOne DEF Inv
    <2>5. Types'
      <3>1. good' \in [Names -> ContentSet]
        BY <2>1, <2>2, <2>4, Here, Directories, Places DEF Inv, Types, TypeOK, OpSet,
           PlaceInv
      <3> QED
        BY <2>1, <2>2, <2>4, <3>1 DEF Inv, Types, TypeOK, OpSet
    <2>6. PlaceInv'
      BY <2>1, <2>2, <2>4 DEF Inv, PlaceInv, CreatePlaces, RestorePlaces, RemovePlaces,
         UnpackPlaces
    <2>7. GoneInv'
      BY <2>1, <2>2, <2>4, Marks, Places, Directories DEF Inv, GoneInv, Types, TypeOK,
         OpSet, UnpackInv, Holds, Present
    <2>8. CaptureInv'
      BY <2>1, <2>2, <2>4 DEF Inv, CaptureInv, PlaceInv, Present
    <2>9. BackupInv'
      BY <2>1, <2>2, <2>4 DEF Inv, BackupInv, PlaceInv, Files
    <2>10. RestoreInv'
      BY <2>1, <2>2, <2>4 DEF Inv, RestoreInv, PlaceInv, Present
    <2>11. WholeInv'
      <3>1. ASSUME NEW n \in Names, good'[n] # Nothing, dirs'[n].manifest.status = "ok"
          PROVE  Content(dirs'[n]) = good'[n]
        BY <2>1, <2>2, <2>4, <3>1, Places DEF Inv, WholeInv, PlaceInv, Types, TypeOK, OpSet
      <3> QED
        BY <3>1 DEF WholeInv
    <2>12. AsideInv'
      BY <2>1, <2>2, <2>4, Places DEF Inv, AsideInv, PlaceInv, Content, Types, TypeOK, OpSet
    <2>13. KeptInv'
      <3>1. ASSUME NEW n \in Names, n # op.name, good'[n] # Nothing,
                   NEW d \in Slots, Home(n, d), Holds(d, good[n])
            PROVE  good'[n] = good[n] /\ Home(n, d)' /\ Present(d)' /\ Content(dirs'[d]) = good[n]
        BY <3>1, <2>1, <2>2, <2>4, Places DEF Inv, Home, Doomed, Holds, Present, PlaceInv,
           Types
      <3>2. ASSUME NEW n \in Names, n = op.name, good'[n] # Nothing
            PROVE  \E d \in Slots : Home(n, d)' /\ Present(d)' /\ Content(dirs'[d]) = good'[n]
        BY <3>2, <2>1, <2>2, <2>4, Places, Directories DEF Inv, Home, Doomed, Holds,
           Present, PlaceInv, Types, TypeOK, UnpackInv, Content
      <3>3. op.name \in Names /\ good' \in [Names -> ContentSet]
        BY <2>1, <2>2, <2>4, Directories DEF Inv, PlaceInv, Types, TypeOK, OpSet
      <3>4. ASSUME NEW n \in Names, n # op.name, good'[n] # Nothing
            PROVE  good[n] = good'[n]
        BY <3>4, <2>1, <2>2, <2>4, <3>3 DEF Inv, Types
      <3> QED
        BY <3>1, <3>2, <3>3, <3>4, <2>1, <2>2, <2>4 DEF Inv, KeptInv, Holds
    <2>14. UnpackInv'
      BY <2>1, <2>2, <2>4, Places DEF Inv, UnpackInv, Holds, Present, PlaceInv, Content,
         Types, TypeOK, OpSet
    <2>15. CurrentInv'
      BY <2>1, <2>2, <2>4, Marks, Places, Directories DEF Inv, CurrentInv, Present,
         PlaceInv, Types, TypeOK, OpSet, UnpackInv
    <2> QED
      BY <2>5, <2>6, <2>7, <2>8, <2>9, <2>10, <2>11, <2>12, <2>13, <2>14, <2>15 DEF Inv
  <1>2. ASSUME op.cmd = "unpack" /\ op.pc = "install" /\ op.aside # Nobody,
               Fault,
               op' = [op EXCEPT !.pc = "rename_back"],
               UNCHANGED <<live, dirs, preRestore, current, packed, commands, good, before,
                           swapped>>
        PROVE  Inv'
    <2>1. /\ op.cmd = "unpack" /\ op.pc = "install" /\ op.aside # Nobody
          /\ faults' # 0 /\ faults' \in 0 .. MaxFaults
          /\ op.name \in Slots /\ dirs[op.name] \in DirSet
          /\ op.aside # Nobody => /\ op.aside \in Slots /\ op.aside # op.name
                                 /\ dirs[op.aside] \in DirSet
          /\ UNCHANGED <<live, dirs, preRestore, current, packed, commands, good, before,
                         swapped>>
      BY <1>2, FaultIs, Here, Places DEF Inv, Types
    <2>2. /\ op' \in OpSet
          /\ op'.cmd = op.cmd /\ op'.name = op.name
          /\ op'.pc = "rename_back" /\ op'.aside = op.aside
          /\ op'.status = op.status /\ op'.prior = op.prior
      BY <1>2, GoesOn DEF Inv, Everywhere, CreatePlaces, RestorePlaces, RemovePlaces,
         UnpackPlaces
    <2>3. Types'
      BY <2>1, <2>2 DEF Inv, Types, TypeOK, OpSet
    <2>4. PlaceInv'
      BY <2>1, <2>2, Places DEF Inv, PlaceInv, CreatePlaces, RestorePlaces, RemovePlaces,
         UnpackPlaces, Types, TypeOK, OpSet
    <2>5. GoneInv'
      BY <2>1, <2>2 DEF Inv, GoneInv
    <2>6. CaptureInv'
      BY <2>1, <2>2 DEF Inv, CaptureInv, PlaceInv, Present
    <2>7. BackupInv'
      BY <2>1, <2>2 DEF Inv, BackupInv, PlaceInv, Files
    <2>8. RestoreInv'
      BY <2>1, <2>2 DEF Inv, RestoreInv, PlaceInv, Present
    <2>9. WholeInv'
      <3>1. ASSUME NEW n \in Names, good'[n] # Nothing, dirs'[n].manifest.status = "ok"
          PROVE  Content(dirs'[n]) = good'[n]
        BY <2>1, <2>2, <3>1, Places DEF Inv, WholeInv, PlaceInv, Types, TypeOK, OpSet
      <3> QED
        BY <3>1 DEF WholeInv
    <2>10. AsideInv'
      BY <2>1, <2>2, Marks, Places, Directories DEF Inv, AsideInv, PlaceInv, Content, Types,
         TypeOK, OpSet, UnpackInv
    <2>11. KeptInv'
      <3>1. ASSUME NEW n \in Names, good'[n] # Nothing, good[n] = good'[n],
                 NEW d \in Slots, Home(n, d), Holds(d, good[n])
          PROVE  \E x \in Slots : Home(n, x)' /\ Present(x)' /\ Content(dirs'[x]) = Content(dirs[d])
        BY <2>1, <2>2, <3>1, Places DEF Inv, Home, Doomed, Holds, Present, PlaceInv, Types,
           TypeOK, OpSet
      <3> QED
        BY <3>1, <2>1, <2>2 DEF Inv, KeptInv, Holds
    <2>12. UnpackInv'
      BY <2>1, <2>2 DEF Inv, UnpackInv, Holds, Present, PlaceInv, Content
    <2>13. CurrentInv'
      BY <2>1, <2>2, Places DEF Inv, CurrentInv, Present, PlaceInv, Types, TypeOK, OpSet
    <2> QED
      BY <2>3, <2>4, <2>5, <2>6, <2>7, <2>8, <2>9, <2>10, <2>11, <2>12, <2>13 DEF Inv
  <1> QED
    BY <1>1, <1>2, GiveUpKeeps, IdleIs DEF UnpackInstall, At, GoTo, Return

LEMMA UnpackNameKeeps ==
    ASSUME Inv, UnpackName
    PROVE  Inv'
  <1> DEFINE m == [dirs[op.name].manifest EXCEPT !.name = op.name]
  <1>1. /\ m \in ManifestSet /\ m # NoManifest
        /\ m.status = dirs[op.name].manifest.status
    BY Manifests DEF Inv, PlaceInv, UnpackName, At
  <1> HIDE DEF m
  <1>2. ASSUME op.cmd = "unpack" /\ op.pc = "name" /\ op.aside = Nobody,
               NoFault,
               op' = Idle,
               dirs' = [dirs EXCEPT ![op.name] = [dirs[op.name] EXCEPT !.manifest = m]],
               UNCHANGED <<live, preRestore, current, packed, commands, good, before, swapped>>
        PROVE  Inv'
    <2>1. /\ op.cmd = "unpack" /\ op.pc = "name" /\ op.aside = Nobody
          /\ faults' = faults /\ faults' \in 0 .. MaxFaults
          /\ op.name \in Slots /\ dirs[op.name] \in DirSet
          /\ op.aside # Nobody => /\ op.aside \in Slots /\ op.aside # op.name
                                 /\ dirs[op.aside] \in DirSet
          /\ UNCHANGED <<live, preRestore, current, packed, commands, good, before, swapped>>
      BY <1>2, FaultIs, Here, Places DEF Inv, Types
    <2>2. /\ op' \in OpSet /\ op' = Idle
          /\ op'.cmd = "none" /\ op'.name = Nobody /\ op'.pc = "idle" /\ op'.aside = Nobody
      BY <1>2, Ends
    <2>3. op.name \in Slots /\ [dirs[op.name] EXCEPT !.manifest = m] \in DirSet
      BY <2>1, <1>1 DEF DirSet, ManifestSet
    <2>4. /\ dirs' \in [Slots -> DirSet]
          /\ \A x \in Slots : x # op.name => dirs'[x] = dirs[x]
          /\ dirs'[op.name].exists = dirs[op.name].exists
          /\ dirs'[op.name].local = dirs[op.name].local
             /\ dirs'[op.name].state = dirs[op.name].state /\ dirs'[op.name].art = dirs[op.name].art
          /\ dirs'[op.name].manifest = m
          /\ dirs'[op.name].manifest.status = dirs[op.name].manifest.status
             /\ dirs'[op.name].manifest # NoManifest
      BY <1>2, <2>1, <2>3, SetOne, <1>1 DEF Inv, DirSet, Statuses
    <2>5. Types'
      BY <2>1, <2>2, <2>4 DEF Inv, Types, TypeOK, OpSet
    <2>6. PlaceInv'
      BY <2>1, <2>2, <2>4 DEF Inv, PlaceInv, CreatePlaces, RestorePlaces, RemovePlaces,
         UnpackPlaces
    <2>7. GoneInv'
      BY <2>1, <2>2, <2>4, Marks, Places, Directories DEF Inv, GoneInv, Types, TypeOK,
         OpSet, UnpackInv, Holds, Present
    <2>8. CaptureInv'
      BY <2>1, <2>2, <2>4 DEF Inv, CaptureInv, PlaceInv, Present
    <2>9. BackupInv'
      BY <2>1, <2>2, <2>4 DEF Inv, BackupInv, PlaceInv, Files
    <2>10. RestoreInv'
      BY <2>1, <2>2, <2>4 DEF Inv, RestoreInv, PlaceInv, Present
    <2>11. WholeInv'
      <3>1. ASSUME NEW n \in Names, good'[n] # Nothing, dirs'[n].manifest.status = "ok"
          PROVE  Content(dirs'[n]) = good'[n]
        BY <2>1, <2>2, <2>4, <3>1, Marks, Places, Directories DEF Inv, WholeInv, PlaceInv,
           Types, TypeOK, OpSet, Content
      <3> QED
        BY <3>1 DEF WholeInv
    <2>12. AsideInv'
      BY <2>1, <2>2, <2>4, Places DEF Inv, AsideInv, PlaceInv, Content, Types, TypeOK, OpSet
    <2>13. KeptInv'
      <3>1. ASSUME NEW n \in Names, good'[n] # Nothing, good[n] = good'[n],
                 NEW d \in Slots, Home(n, d), Holds(d, good[n])
          PROVE  \E x \in Slots : Home(n, x)' /\ Present(x)' /\ Content(dirs'[x]) = Content(dirs[d])
        BY <2>1, <2>2, <2>4, <3>1, Marks, Places, Directories DEF Inv, Home, Doomed, Holds,
           Present, PlaceInv, Types, TypeOK, OpSet, Content
      <3> QED
        BY <3>1, <2>1, <2>2, <2>4 DEF Inv, KeptInv, Holds
    <2>14. UnpackInv'
      BY <2>1, <2>2, <2>4 DEF Inv, UnpackInv, Holds, Present, PlaceInv, Content
    <2>15. CurrentInv'
      BY <2>1, <2>2, <2>4, Places DEF Inv, CurrentInv, Present, PlaceInv, Types, TypeOK,
         OpSet
    <2> QED
      BY <2>5, <2>6, <2>7, <2>8, <2>9, <2>10, <2>11, <2>12, <2>13, <2>14, <2>15 DEF Inv
  <1>3. ASSUME op.cmd = "unpack" /\ op.pc = "name" /\ op.aside # Nobody,
               NoFault,
               op' = [op EXCEPT !.pc = "drop"],
               dirs' = [dirs EXCEPT ![op.name] = [dirs[op.name] EXCEPT !.manifest = m]],
               UNCHANGED <<live, preRestore, current, packed, commands, good, before, swapped>>
        PROVE  Inv'
    <2>1. /\ op.cmd = "unpack" /\ op.pc = "name" /\ op.aside # Nobody
          /\ faults' = faults /\ faults' \in 0 .. MaxFaults
          /\ op.name \in Slots /\ dirs[op.name] \in DirSet
          /\ op.aside # Nobody => /\ op.aside \in Slots /\ op.aside # op.name
                                 /\ dirs[op.aside] \in DirSet
          /\ UNCHANGED <<live, preRestore, current, packed, commands, good, before, swapped>>
      BY <1>3, FaultIs, Here, Places DEF Inv, Types
    <2>2. /\ op' \in OpSet
          /\ op'.cmd = op.cmd /\ op'.name = op.name /\ op'.pc = "drop" /\ op'.aside = op.aside
          /\ op'.status = op.status /\ op'.prior = op.prior
      BY <1>3, GoesOn DEF Inv, Everywhere, CreatePlaces, RestorePlaces, RemovePlaces,
         UnpackPlaces
    <2>3. op.name \in Slots /\ [dirs[op.name] EXCEPT !.manifest = m] \in DirSet
      BY <2>1, <1>1 DEF DirSet, ManifestSet
    <2>4. /\ dirs' \in [Slots -> DirSet]
          /\ \A x \in Slots : x # op.name => dirs'[x] = dirs[x]
          /\ dirs'[op.name].exists = dirs[op.name].exists
          /\ dirs'[op.name].local = dirs[op.name].local
             /\ dirs'[op.name].state = dirs[op.name].state /\ dirs'[op.name].art = dirs[op.name].art
          /\ dirs'[op.name].manifest = m
          /\ dirs'[op.name].manifest.status = dirs[op.name].manifest.status
             /\ dirs'[op.name].manifest # NoManifest
      BY <1>3, <2>1, <2>3, SetOne, <1>1 DEF Inv, DirSet, Statuses
    <2>5. Types'
      BY <2>1, <2>2, <2>4 DEF Inv, Types, TypeOK, OpSet
    <2>6. PlaceInv'
      BY <2>1, <2>2, <2>4 DEF Inv, PlaceInv, CreatePlaces, RestorePlaces, RemovePlaces,
         UnpackPlaces
    <2>7. GoneInv'
      BY <2>1, <2>2, <2>4, Marks, Places, Directories DEF Inv, GoneInv, Types, TypeOK,
         OpSet, UnpackInv, Holds, Present
    <2>8. CaptureInv'
      BY <2>1, <2>2, <2>4 DEF Inv, CaptureInv, PlaceInv, Present
    <2>9. BackupInv'
      BY <2>1, <2>2, <2>4 DEF Inv, BackupInv, PlaceInv, Files
    <2>10. RestoreInv'
      BY <2>1, <2>2, <2>4 DEF Inv, RestoreInv, PlaceInv, Present
    <2>11. WholeInv'
      <3>1. ASSUME NEW n \in Names, good'[n] # Nothing, dirs'[n].manifest.status = "ok"
          PROVE  Content(dirs'[n]) = good'[n]
        BY <2>1, <2>2, <2>4, <3>1, Marks, Places, Directories DEF Inv, WholeInv, PlaceInv,
           Types, TypeOK, OpSet, Content
      <3> QED
        BY <3>1 DEF WholeInv
    <2>12. AsideInv'
      BY <2>1, <2>2, <2>4, Places DEF Inv, AsideInv, PlaceInv, Content, Types, TypeOK, OpSet
    <2>13. KeptInv'
      <3>1. ASSUME NEW n \in Names, n # op.name, good'[n] # Nothing,
                   NEW d \in Slots, Home(n, d), Holds(d, good[n])
            PROVE  good'[n] = good[n] /\ Home(n, d)' /\ Present(d)' /\ Content(dirs'[d]) = good[n]
        BY <3>1, <2>1, <2>2, <2>4, Places DEF Inv, Home, Doomed, Holds, Present, PlaceInv,
           Types
      <3>2. ASSUME NEW n \in Names, n = op.name, good'[n] # Nothing
            PROVE  \E d \in Slots : Home(n, d)' /\ Present(d)' /\ Content(dirs'[d]) = good'[n]
        BY <3>2, <2>1, <2>2, <2>4, Places, Directories DEF Inv, Home, Doomed, Holds,
           Present, PlaceInv, Types, TypeOK, UnpackInv, Content
      <3>3. op.name \in Names /\ good' \in [Names -> ContentSet]
        BY <2>1, <2>2, <2>4, Directories DEF Inv, PlaceInv, Types, TypeOK, OpSet
      <3>4. ASSUME NEW n \in Names, n # op.name, good'[n] # Nothing
            PROVE  good[n] = good'[n]
        BY <3>4, <2>1, <2>2, <2>4, <3>3 DEF Inv, Types
      <3> QED
        BY <3>1, <3>2, <3>3, <3>4, <2>1, <2>2, <2>4 DEF Inv, KeptInv, Holds
    <2>14. UnpackInv'
      BY <2>1, <2>2, <2>4 DEF Inv, UnpackInv, Holds, Present, PlaceInv, Content
    <2>15. CurrentInv'
      BY <2>1, <2>2, <2>4, Places DEF Inv, CurrentInv, Present, PlaceInv, Types, TypeOK,
         OpSet
    <2> QED
      BY <2>5, <2>6, <2>7, <2>8, <2>9, <2>10, <2>11, <2>12, <2>13, <2>14, <2>15 DEF Inv
  <1>4. ASSUME op.cmd = "unpack" /\ op.pc = "name" /\ op.aside = Nobody,
               Fault,
               good' = [good EXCEPT ![op.name] = op.prior],
               op' = Idle,
               dirs' = [dirs EXCEPT ![op.name] = NoDir],
               UNCHANGED <<live, preRestore, current, packed, commands, before, swapped>>
        PROVE  Inv'
    <2>1. /\ op.cmd = "unpack" /\ op.pc = "name" /\ op.aside = Nobody
          /\ faults' # 0 /\ faults' \in 0 .. MaxFaults
          /\ good' = [good EXCEPT ![op.name] = op.prior]
          /\ op.name \in Slots /\ dirs[op.name] \in DirSet
          /\ op.aside # Nobody => /\ op.aside \in Slots /\ op.aside # op.name
                                 /\ dirs[op.aside] \in DirSet
          /\ UNCHANGED <<live, preRestore, current, packed, commands, before, swapped>>
      BY <1>4, FaultIs, Here, Places DEF Inv, Types
    <2>2. /\ op' \in OpSet /\ op' = Idle
          /\ op'.cmd = "none" /\ op'.name = Nobody /\ op'.pc = "idle" /\ op'.aside = Nobody
      BY <1>4, Ends
    <2>3. /\ dirs' \in [Slots -> DirSet]
          /\ \A x \in Slots : x # op.name => dirs'[x] = dirs[x]
          /\ dirs'[op.name] = NoDir
      BY <1>4, <2>1, SetOne, Directories, Places DEF Inv, PlaceInv
    <2>4. Types'
      <3>1. good' \in [Names -> ContentSet]
        BY <2>1, <2>2, <2>3, Here, Directories, Places DEF Inv, Types, TypeOK, OpSet,
           PlaceInv
      <3> QED
        BY <2>1, <2>2, <2>3, <3>1 DEF Inv, Types, TypeOK, OpSet
    <2>5. PlaceInv'
      BY <2>1, <2>2, <2>3 DEF Inv, PlaceInv, CreatePlaces, RestorePlaces, RemovePlaces,
         UnpackPlaces
    <2>6. GoneInv'
      BY <2>1, <2>2, <2>3 DEF Inv, GoneInv
    <2>7. CaptureInv'
      BY <2>1, <2>2, <2>3 DEF Inv, CaptureInv, PlaceInv, Present
    <2>8. BackupInv'
      BY <2>1, <2>2, <2>3 DEF Inv, BackupInv, PlaceInv, Files
    <2>9. RestoreInv'
      BY <2>1, <2>2, <2>3 DEF Inv, RestoreInv, PlaceInv, Present
    <2>10. WholeInv'
      <3>1. ASSUME NEW n \in Names, good'[n] # Nothing, dirs'[n].manifest.status = "ok"
          PROVE  Content(dirs'[n]) = good'[n]
        BY <2>1, <2>2, <2>3, <3>1, Marks, Places, Directories DEF Inv, WholeInv, PlaceInv,
           Types, TypeOK, OpSet, Content
      <3> QED
        BY <3>1 DEF WholeInv
    <2>11. AsideInv'
      BY <2>1, <2>2, <2>3, Places DEF Inv, AsideInv, PlaceInv, Content, Types, TypeOK, OpSet
    <2>12. KeptInv'
      <3>1. ASSUME NEW n \in Names, n # op.name, good'[n] # Nothing,
                   NEW d \in Slots, Home(n, d), Holds(d, good[n])
            PROVE  good'[n] = good[n] /\ Home(n, d)' /\ Present(d)' /\ Content(dirs'[d]) = good[n]
        BY <3>1, <2>1, <2>2, <2>3, Places DEF Inv, Home, Doomed, Holds, Present, PlaceInv,
           Types
      <3>2. ASSUME NEW n \in Names, n = op.name, good'[n] # Nothing
            PROVE  \E d \in Slots : Home(n, d)' /\ Present(d)' /\ Content(dirs'[d]) = good'[n]
        BY <3>2, <2>1, <2>2, <2>3, Places, Directories DEF Inv, Home, Doomed, Holds,
           Present, PlaceInv, Types, TypeOK, UnpackInv
      <3>3. op.name \in Names /\ good' \in [Names -> ContentSet]
        BY <2>1, <2>2, <2>3, Directories DEF Inv, PlaceInv, Types, TypeOK, OpSet
      <3>4. ASSUME NEW n \in Names, n # op.name, good'[n] # Nothing
            PROVE  good[n] = good'[n]
        BY <3>4, <2>1, <2>2, <2>3, <3>3 DEF Inv, Types
      <3>5. ASSUME NEW n \in Names, n # op.name, good'[n] # Nothing
            PROVE  \E d \in Slots : Home(n, d)' /\ Present(d)' /\ Content(dirs'[d]) = good'[n]
        BY <3>5, <3>1, <3>4 DEF Inv, KeptInv
      <3> QED
        BY <3>2, <3>5 DEF KeptInv, Holds, Home, Doomed, Present, Content
    <2>13. UnpackInv'
      BY <2>1, <2>2, <2>3 DEF Inv, UnpackInv, Holds, Present, PlaceInv, Content
    <2>14. CurrentInv'
      BY <2>1, <2>2, <2>3, Places DEF Inv, CurrentInv, Present, PlaceInv, Types, TypeOK,
         OpSet
    <2> QED
      BY <2>4, <2>5, <2>6, <2>7, <2>8, <2>9, <2>10, <2>11, <2>12, <2>13, <2>14 DEF Inv
  <1>5. ASSUME op.cmd = "unpack" /\ op.pc = "name" /\ op.aside # Nobody,
               Fault,
               good' = [good EXCEPT ![op.name] = op.prior],
               op' = [op EXCEPT !.pc = "rename_back"],
               dirs' = [dirs EXCEPT ![op.name] = NoDir],
               UNCHANGED <<live, preRestore, current, packed, commands, before, swapped>>
        PROVE  Inv'
    <2>1. /\ op.cmd = "unpack" /\ op.pc = "name" /\ op.aside # Nobody
          /\ faults' # 0 /\ faults' \in 0 .. MaxFaults
          /\ good' = [good EXCEPT ![op.name] = op.prior]
          /\ op.name \in Slots /\ dirs[op.name] \in DirSet
          /\ op.aside # Nobody => /\ op.aside \in Slots /\ op.aside # op.name
                                 /\ dirs[op.aside] \in DirSet
          /\ UNCHANGED <<live, preRestore, current, packed, commands, before, swapped>>
      BY <1>5, FaultIs, Here, Places DEF Inv, Types
    <2>2. /\ op' \in OpSet
          /\ op'.cmd = op.cmd /\ op'.name = op.name
          /\ op'.pc = "rename_back" /\ op'.aside = op.aside
          /\ op'.status = op.status /\ op'.prior = op.prior
      BY <1>5, GoesOn DEF Inv, Everywhere, CreatePlaces, RestorePlaces, RemovePlaces,
         UnpackPlaces
    <2>3. /\ dirs' \in [Slots -> DirSet]
          /\ \A x \in Slots : x # op.name => dirs'[x] = dirs[x]
          /\ dirs'[op.name] = NoDir
      BY <1>5, <2>1, SetOne, Directories, Places DEF Inv, PlaceInv
    <2>4. Types'
      <3>1. good' \in [Names -> ContentSet]
        BY <2>1, <2>2, <2>3, Here, Directories, Places DEF Inv, Types, TypeOK, OpSet,
           PlaceInv
      <3> QED
        BY <2>1, <2>2, <2>3, <3>1 DEF Inv, Types, TypeOK, OpSet
    <2>5. PlaceInv'
      BY <2>1, <2>2, <2>3, Places DEF Inv, PlaceInv, CreatePlaces, RestorePlaces,
         RemovePlaces, UnpackPlaces, Types, TypeOK, OpSet
    <2>6. GoneInv'
      BY <2>1, <2>2, <2>3 DEF Inv, GoneInv
    <2>7. CaptureInv'
      BY <2>1, <2>2, <2>3 DEF Inv, CaptureInv, PlaceInv, Present
    <2>8. BackupInv'
      BY <2>1, <2>2, <2>3 DEF Inv, BackupInv, PlaceInv, Files
    <2>9. RestoreInv'
      BY <2>1, <2>2, <2>3 DEF Inv, RestoreInv, PlaceInv, Present
    <2>10. WholeInv'
      <3>1. ASSUME NEW n \in Names, good'[n] # Nothing, dirs'[n].manifest.status = "ok"
          PROVE  Content(dirs'[n]) = good'[n]
        BY <2>1, <2>2, <2>3, <3>1, Marks, Places, Directories DEF Inv, WholeInv, PlaceInv,
           Types, TypeOK, OpSet, Content
      <3> QED
        BY <3>1 DEF WholeInv
    <2>11. AsideInv'
      BY <2>1, <2>2, <2>3, Places DEF Inv, AsideInv, PlaceInv, Content, Types, TypeOK, OpSet
    <2>12. KeptInv'
      <3>1. ASSUME NEW n \in Names, n # op.name, good'[n] # Nothing,
                   NEW d \in Slots, Home(n, d), Holds(d, good[n])
            PROVE  good'[n] = good[n] /\ Home(n, d)' /\ Present(d)' /\ Content(dirs'[d]) = good[n]
        BY <3>1, <2>1, <2>2, <2>3, Places DEF Inv, Home, Doomed, Holds, Present, PlaceInv,
           Types
      <3>2. ASSUME NEW n \in Names, n = op.name, good'[n] # Nothing
            PROVE  \E d \in Slots : Home(n, d)' /\ Present(d)' /\ Content(dirs'[d]) = good'[n]
        BY <3>2, <2>1, <2>2, <2>3, Places, Directories DEF Inv, Home, Doomed, Holds,
           Present, PlaceInv, Types, TypeOK, UnpackInv
      <3>3. op.name \in Names /\ good' \in [Names -> ContentSet]
        BY <2>1, <2>2, <2>3, Directories DEF Inv, PlaceInv, Types, TypeOK, OpSet
      <3>4. ASSUME NEW n \in Names, n # op.name, good'[n] # Nothing
            PROVE  good[n] = good'[n]
        BY <3>4, <2>1, <2>2, <2>3, <3>3 DEF Inv, Types
      <3> QED
        BY <3>1, <3>2, <3>3, <3>4, <2>1, <2>2, <2>3 DEF Inv, KeptInv, Holds
    <2>13. UnpackInv'
      BY <2>1, <2>2, <2>3 DEF Inv, UnpackInv, Holds, Present, PlaceInv, Content
    <2>14. CurrentInv'
      BY <2>1, <2>2, <2>3, Places DEF Inv, CurrentInv, Present, PlaceInv, Types, TypeOK,
         OpSet
    <2> QED
      BY <2>4, <2>5, <2>6, <2>7, <2>8, <2>9, <2>10, <2>11, <2>12, <2>13, <2>14 DEF Inv
  <1> QED
    BY <1>2, <1>3, <1>4, <1>5, IdleIs DEF UnpackName, At, GoTo, Return, m

LEMMA UnpackBackKeeps ==
    ASSUME Inv, UnpackBack
    PROVE  Inv'
  <1>1. ASSUME op.cmd = "unpack" /\ op.pc = "rename_back",
               NoFault,
               op' = Idle,
               dirs' = [dirs EXCEPT ![op.name] = dirs[op.aside], ![op.aside] = NoDir],
               UNCHANGED <<live, preRestore, current, packed, commands, good, before, swapped>>
        PROVE  Inv'
    <2>1. /\ op.cmd = "unpack" /\ op.pc = "rename_back"
          /\ faults' = faults /\ faults' \in 0 .. MaxFaults
          /\ op.name \in Slots /\ dirs[op.name] \in DirSet
          /\ op.aside # Nobody => /\ op.aside \in Slots /\ op.aside # op.name
                                 /\ dirs[op.aside] \in DirSet
          /\ UNCHANGED <<live, preRestore, current, packed, commands, good, before, swapped>>
      BY <1>1, FaultIs, Here, Places DEF Inv, Types
    <2>2. /\ op' \in OpSet /\ op' = Idle
          /\ op'.cmd = "none" /\ op'.name = Nobody /\ op'.pc = "idle" /\ op'.aside = Nobody
      BY <1>1, Ends
    <2>3. /\ dirs' \in [Slots -> DirSet]
          /\ dirs'[op.name] = dirs[op.aside] /\ dirs'[op.aside] = NoDir
          /\ \A x \in Slots : x # op.aside /\ x # op.name => dirs'[x] = dirs[x]
      BY <1>1, <2>1, Moved, Places DEF Inv, PlaceInv
    <2>4. Types'
      BY <2>1, <2>2, <2>3 DEF Inv, Types, TypeOK, OpSet
    <2>5. PlaceInv'
      BY <2>1, <2>2, <2>3 DEF Inv, PlaceInv, CreatePlaces, RestorePlaces, RemovePlaces,
         UnpackPlaces
    <2>6. GoneInv'
      BY <2>1, <2>2, <2>3, Marks, Places, Directories DEF Inv, GoneInv, Types, TypeOK,
         OpSet, PlaceInv
    <2>7. CaptureInv'
      BY <2>1, <2>2, <2>3 DEF Inv, CaptureInv, PlaceInv, Present
    <2>8. BackupInv'
      BY <2>1, <2>2, <2>3 DEF Inv, BackupInv, PlaceInv, Files
    <2>9. RestoreInv'
      BY <2>1, <2>2, <2>3 DEF Inv, RestoreInv, PlaceInv, Present
    <2>10. WholeInv'
      <3>1. ASSUME NEW n \in Names, good'[n] # Nothing, dirs'[n].manifest.status = "ok"
          PROVE  Content(dirs'[n]) = good'[n]
        BY <2>1, <2>2, <2>3, <3>1, Marks, Places, Directories DEF Inv, WholeInv, PlaceInv,
           Types, TypeOK, OpSet, Content, AsideInv
      <3> QED
        BY <3>1 DEF WholeInv
    <2>11. AsideInv'
      BY <2>1, <2>2, <2>3, Places DEF Inv, AsideInv, PlaceInv, Content, Types, TypeOK, OpSet
    <2>12. KeptInv'
      <3>1. ASSUME NEW n \in Names, good'[n] # Nothing, good[n] = good'[n],
                 NEW d \in Slots, Home(n, d), Holds(d, good[n])
          PROVE  \E x \in Slots : Home(n, x)' /\ Present(x)' /\ Content(dirs'[x]) = Content(dirs[d])
        BY <2>1, <2>2, <2>3, <3>1, Marks, Places, Directories DEF Inv, Home, Doomed, Holds,
           Present, PlaceInv, Types, TypeOK, OpSet, Content
      <3> QED
        BY <3>1, <2>1, <2>2, <2>3 DEF Inv, KeptInv, Holds
    <2>13. UnpackInv'
      BY <2>1, <2>2, <2>3 DEF Inv, UnpackInv, Holds, Present, PlaceInv, Content
    <2>14. CurrentInv'
      BY <2>1, <2>2, <2>3, Marks, Places, Directories DEF Inv, CurrentInv, Present,
         PlaceInv, Types, TypeOK, OpSet, UnpackInv
    <2> QED
      BY <2>4, <2>5, <2>6, <2>7, <2>8, <2>9, <2>10, <2>11, <2>12, <2>13, <2>14 DEF Inv
  <1> QED
    BY <1>1, GiveUpKeeps, IdleIs DEF UnpackBack, At, InDirs, Return, history

LEMMA UnpackDropKeeps ==
    ASSUME Inv, UnpackDrop
    PROVE  Inv'
  <1>1. ASSUME op.cmd = "unpack" /\ op.pc = "drop",
               NoFault,
               op' = Idle,
               dirs' = [dirs EXCEPT ![op.aside] = NoDir],
               UNCHANGED <<live, preRestore, current, packed, commands, good, before, swapped>>
        PROVE  Inv'
    <2>1. /\ op.cmd = "unpack" /\ op.pc = "drop"
          /\ faults' = faults /\ faults' \in 0 .. MaxFaults
          /\ op.name \in Slots /\ dirs[op.name] \in DirSet
          /\ op.aside # Nobody => /\ op.aside \in Slots /\ op.aside # op.name
                                 /\ dirs[op.aside] \in DirSet
          /\ UNCHANGED <<live, preRestore, current, packed, commands, good, before, swapped>>
      BY <1>1, FaultIs, Here, Places DEF Inv, Types
    <2>2. /\ op' \in OpSet /\ op' = Idle
          /\ op'.cmd = "none" /\ op'.name = Nobody /\ op'.pc = "idle" /\ op'.aside = Nobody
      BY <1>1, Ends
    <2>3. /\ dirs' \in [Slots -> DirSet]
          /\ \A x \in Slots : x # op.aside => dirs'[x] = dirs[x]
          /\ dirs'[op.aside] = NoDir
      BY <1>1, <2>1, SetOne, Directories, Places DEF Inv, PlaceInv
    <2>4. Types'
      BY <2>1, <2>2, <2>3 DEF Inv, Types, TypeOK, OpSet
    <2>5. PlaceInv'
      BY <2>1, <2>2, <2>3 DEF Inv, PlaceInv, CreatePlaces, RestorePlaces, RemovePlaces,
         UnpackPlaces
    <2>6. GoneInv'
      BY <2>1, <2>2, <2>3 DEF Inv, GoneInv
    <2>7. CaptureInv'
      BY <2>1, <2>2, <2>3 DEF Inv, CaptureInv, PlaceInv, Present
    <2>8. BackupInv'
      BY <2>1, <2>2, <2>3 DEF Inv, BackupInv, PlaceInv, Files
    <2>9. RestoreInv'
      BY <2>1, <2>2, <2>3 DEF Inv, RestoreInv, PlaceInv, Present
    <2>10. WholeInv'
      <3>1. ASSUME NEW n \in Names, good'[n] # Nothing, dirs'[n].manifest.status = "ok"
          PROVE  Content(dirs'[n]) = good'[n]
        BY <2>1, <2>2, <2>3, <3>1, Places DEF Inv, WholeInv, PlaceInv, Types, TypeOK, OpSet
      <3> QED
        BY <3>1 DEF WholeInv
    <2>11. AsideInv'
      BY <2>1, <2>2, <2>3, Places DEF Inv, AsideInv, PlaceInv, Content, Types, TypeOK, OpSet
    <2>12. KeptInv'
      <3>1. ASSUME NEW n \in Names, good'[n] # Nothing, good[n] = good'[n],
                 NEW d \in Slots, Home(n, d), Holds(d, good[n])
          PROVE  \E x \in Slots : Home(n, x)' /\ Present(x)' /\ Content(dirs'[x]) = Content(dirs[d])
        BY <2>1, <2>2, <2>3, <3>1, Places DEF Inv, Home, Doomed, Holds, Present, PlaceInv,
           Types, TypeOK, OpSet
      <3> QED
        BY <3>1, <2>1, <2>2, <2>3 DEF Inv, KeptInv, Holds
    <2>13. UnpackInv'
      BY <2>1, <2>2, <2>3 DEF Inv, UnpackInv, Holds, Present, PlaceInv, Content
    <2>14. CurrentInv'
      BY <2>1, <2>2, <2>3, Places DEF Inv, CurrentInv, Present, PlaceInv, Types, TypeOK,
         OpSet
    <2> QED
      BY <2>4, <2>5, <2>6, <2>7, <2>8, <2>9, <2>10, <2>11, <2>12, <2>13, <2>14 DEF Inv
  <1> QED
    BY <1>1, CutKeeps, Here, IdleIs DEF UnpackDrop, At, InDirs, Return, history, Inv,
       PlaceInv

LEMMA KillKeeps ==
    ASSUME Inv, Kill
    PROVE  Inv'
  <1> QED
    BY GiveUpKeeps, CutKeeps, Here, IdleIs DEF Kill, At, Return, IsIdle, history, Erasing,
       Inv, PlaceInv

-----------------------------------------------------------------------------
LEMMA InitInv == Init => Inv
PROOF
  <1> SUFFICES ASSUME Init PROVE Inv
    OBVIOUS
  <1>1. /\ op = Idle /\ faults = 0 /\ commands = 0 /\ current = Nobody /\ swapped = FALSE
        /\ preRestore = NoFiles /\ before = NoFiles /\ packed = NoDir
        /\ \A d \in Slots : dirs[d] = NoDir
        /\ \A n \in Names : good[n] = Nothing
        /\ dirs \in [Slots -> DirSet] /\ good \in [Names -> ContentSet]
        /\ packed \in DirSet
    BY Directories DEF Init
  <1>2. 1 \in Gens
    BY SnapshotAssumption DEF Gens
  <1>3. /\ live \in [local : LocalGens, keys : KeyGens, state : Gens \cup {Missing},
                     data : Gens \cup {Torn}]
        /\ Files(live) \in FileSet
        /\ live.data \in Gens
        /\ live.local = Missing => live.keys = Missing
    BY <1>2, Marks DEF Init, Files, FileSet, LocalGens, KeyGens
  <1>4. Types
    <2>1. op \in OpSet
      BY <1>1, Directories DEF Idle, OpSet, Statuses
    <2>2. 0 \in 0 .. MaxCommands /\ 0 \in 0 .. MaxFaults
      BY SnapshotAssumption
    <2>3. /\ op.name \in Shown \cup {Nobody} /\ op.aside \in Backups \cup Olds \cup {Nobody}
          /\ op.status \in Statuses
      BY <1>1, IdleIs DEF Statuses
    <2> QED
      BY <1>1, <1>3, <2>1, <2>2, <2>3, Directories DEF Types, TypeOK
  <1>5. PlaceInv /\ CaptureInv /\ RestoreInv /\ AsideInv
    BY <1>1, IdleIs DEF PlaceInv, CaptureInv, RestoreInv, AsideInv
  <1>6. GoneInv /\ WholeInv /\ KeptInv
    BY <1>1 DEF GoneInv, WholeInv, KeptInv
  <1>7. BackupInv /\ UnpackInv /\ CurrentInv
    BY <1>1, <1>3, IdleIs, Directories DEF BackupInv, UnpackInv, CurrentInv
  <1> QED
    BY <1>4, <1>5, <1>6, <1>7 DEF Inv

LEMMA StepInv ==
    ASSUME Inv, Next
    PROVE  Inv'
PROOF
  <1>1. CASE Work
    BY <1>1, WorkKeeps
  <1>2. CASE Create
    BY <1>2, CreateBeginKeeps, CreateMkdirKeeps, CaptureLocalKeeps, CaptureStateKeeps,
       CreateWorkflowKeeps, CreateManifestKeeps, RevertRemoveKeeps, RevertRenameKeeps,
       DropBackupKeeps DEF Create
  <1>3. CASE Restore
    BY <1>3, RestoreBeginKeeps, ClearPreRestoreKeeps, BackupLocalKeeps, BackupStateKeeps,
       SwapLocalKeeps, SwapStateKeeps, RestoreWorkflowKeeps, RestoreManifestKeeps DEF
       Restore
  <1>4. CASE PointCurrent
    BY <1>4, PointCurrentKeeps
  <1>5. CASE Remove
    BY <1>5, RemoveBeginKeeps, RemoveWorkflowKeeps, RemoveEraseKeeps, RemoveClearKeeps DEF
       Remove
  <1>6. CASE \E d \in Shown : Pack(d)
    BY <1>6, PackKeeps
  <1>7. CASE Unpack
    BY <1>7, UnpackBeginKeeps, UnpackInstallKeeps, UnpackNameKeeps, UnpackBackKeeps,
       UnpackDropKeeps DEF Unpack
  <1>8. CASE Kill
    BY <1>8, KillKeeps
  <1> QED
    BY <1>1, <1>2, <1>3, <1>4, <1>5, <1>6, <1>7, <1>8 DEF Next

LEMMA StutterInv == Inv /\ UNCHANGED vars => Inv'
  BY DEF vars, Inv, Types, TypeOK, OpSet, PlaceInv, GoneInv, CaptureInv, BackupInv,
     RestoreInv, WholeInv, AsideInv, KeptInv, UnpackInv, CurrentInv, Present, Holds, Home,
     Doomed, Content, Files

\* The invariant behind the theorems below: where the command under way is, what
\* it has done so far, and where the last snapshot of every name is meanwhile.
THEOREM Invariance == Spec => []Inv
PROOF
  <1>1. Init => Inv
    BY InitInv
  <1>2. Inv /\ [Next]_vars => Inv'
    BY StepInv, StutterInv
  <1> QED
    BY <1>1, <1>2, PTL DEF Spec

\* What the last create or unpack of a name stored stays on the disk, whatever
\* fails or is killed, until the user removes or replaces it (create.go:130,
\* unpack.go:101).
THEOREM Kept == Spec => []GoodSnapshotKept
PROOF
  <1>1. Inv => GoodSnapshotKept
    BY DEF Inv, KeptInv, Holds, Present, GoodSnapshotKept
  <1> QED
    BY <1>1, Invariance, PTL

\* A create that worked has stored the files and the data of one moment, and
\* nothing of an earlier attempt (create.go:118).
THEOREM Captured == Spec => []CapturesProject
PROOF
  <1>1. Inv => CapturesProject
    BY DEF Inv, CaptureInv, CapturesProject, Content
  <1> QED
    BY <1>1, Invariance, PTL

\* From the first file a restore replaces until the next restore,
\* .pre-restore-backup holds the files as they were (restore.go:327).
THEOREM Backup == Spec => []BackupHoldsOriginal
PROOF
  <1>1. Inv => BackupHoldsOriginal
    BY DEF Inv, BackupInv, BackupHoldsOriginal
  <1> QED
    BY <1>1, Invariance, PTL

\* A restore that worked brings back what the last create or unpack of the name
\* stored, after any faults: a manifest that says ok over a directory that is
\* not whole is found only under a name whose content is not wanted any more.
THEOREM RestoredAsStored == Spec => []RoundTrip
PROOF
  <1>1. ASSUME Inv, op.cmd = "restore", op.pc = "current", op.name \in Names,
               good[op.name] # Nothing, dirs[op.name].manifest.status = "ok"
        PROVE  LET g == good[op.name] IN
               /\ live.state = g.state /\ live.data = g.art /\ live.keys = before.keys
               /\ live.local = IF g.local # Missing THEN g.local
                               ELSE IF before.keys # Missing THEN Bare ELSE Missing
    <2>1. Content(dirs[op.name]) = good[op.name]
      BY <1>1 DEF Inv, WholeInv
    <2>2. /\ good[op.name].local = dirs[op.name].local
          /\ good[op.name].state = dirs[op.name].state
          /\ good[op.name].art = dirs[op.name].art
      BY <2>1 DEF Content
    <2> QED
      BY <1>1, <2>2 DEF Inv, RestoreInv
  <1>2. Inv => RoundTrip
    BY <1>1 DEF RoundTrip
  <1> QED
    BY <1>2, Invariance, PTL

\* Without a fault current names a directory with a manifest whenever no command
\* is at work (current.go).
THEOREM CurrentThere == Spec => []CurrentIsThere
PROOF
  <1>1. Inv => CurrentIsThere
    BY IdleIs DEF Inv, CurrentInv, Present, CurrentIsThere, IsIdle
  <1> QED
    BY <1>1, Invariance, PTL
=============================================================================
