------------------------------ MODULE Secrets -------------------------------
(***************************************************************************)
(* The project's encrypted values and the age identities that open them.   *)
(*                                                                         *)
(* workspace.yml commits one recipient; the values are markers in the      *)
(* layer files and whole *.age files, each sealed to some recipient; the   *)
(* private identities are keyfiles of this machine, or an environment      *)
(* variable.  `secrets set`, `encrypt`, `init` (with --replace-recipient   *)
(* too), `rekey`, `key import`, `key remove`, the gate before run and      *)
(* deploy, `get` and `decrypt` work on them, two shells at a time.  Every  *)
(* writer holds the project locks while it writes, but several decide      *)
(* before they take them.  A process may be killed between any two writes, *)
(* and every write may fail.                                               *)
(*                                                                         *)
(* A layer file stands for the one marker it holds: all the markers of a   *)
(* file are rewritten by one rename.  Ciphertext is a record of the key it *)
(* is sealed to and the plaintext.                                         *)
(***************************************************************************)
EXTENDS Naturals, FiniteSets

CONSTANTS
    Commands,     \* shells, each running one command at a time
    Keys,         \* the project's key pairs; a recipient and its identity
    Foreign,      \* a key pair of another project
    Layers,       \* configuration files that may hold a marker
    Workspace,    \* the layer that also commits the recipient
    Files,        \* *.age sources under workspace/templates/config
    Texts,        \* plaintexts
    None,         \* nothing there: no recipient, no value, no file, no lock
    Junk,         \* bytes that hold no identity or no value
    MaxCommands,  \* bound on the commands started
    MaxFaults     \* bound on the kills and the failed writes

ASSUME SecretsAssumption ==
    /\ Workspace \in Layers
    /\ Layers \cap Files = {}
    /\ Foreign \notin Keys
    /\ {None, Junk} \cap (Keys \cup {Foreign}) = {}
    /\ None # Junk /\ {None, Junk} \cap [to : Keys, text : Texts] = {}
    /\ None \notin Commands
    /\ MaxCommands \in Nat /\ MaxFaults \in Nat

Places == Layers \cup Files
Identities == Keys \cup {Foreign}
Sealed == [to : Keys, text : Texts]

VARIABLES
    recipient,  \* secrets.recipient of workspace.yml
    stored,     \* the ciphertext at each place
    keyfile,    \* what ~/.config/dwe/keys/<name>.key holds
    env,        \* the identity in DWE_AGE_KEY or DWE_AGE_KEY_FILE
    lock,       \* the command that holds the project locks
    cmd,        \* each shell's command and how far it is
    born,       \* key pairs that exist
    mine,       \* key pairs that were on this machine, or made by it
    givenUp,    \* keyfiles, and what they held, removed with the user's word
    latest,     \* the plaintext last put at each place
    orphans,    \* places a replaced recipient has left behind
    unfinished, \* a rekey stopped half-way and none was completed since
    started, faults

project == <<recipient, stored>>
machine == <<keyfile, env>>
history == <<born, mine, givenUp, latest, orphans, unfinished>>
vars == <<project, machine, lock, cmd, history, started, faults>>

Idle == [op |-> "none", pc |-> "idle", place |-> None, text |-> None,
         key |-> None, seen |-> None, got |-> None, todo |-> {}, force |-> FALSE]

-----------------------------------------------------------------------------
(* What this machine can open.                                             *)

HeldOnDisk == {keyfile[n] : n \in Identities} \ {None, Junk}

\* secrets.LoadIdentity: the first source present decides, without falling
\* through to the next one.
LoadIdentity(r) ==
    IF env # None THEN env = r ELSE keyfile[r] = r

\* keygate.LoadIdentitySet: the configured identity, and every other one in
\* the keys directory; the configured recipient's own is looked for there too
\* when the lookup has failed.
\* Mutant: the configured identity alone.
LoadIdentityAlone(r) == IF LoadIdentity(r) THEN {r} ELSE {}
\* Mutant: the configured recipient is left out of the directory scan even when
\* its lookup has failed, so a variable of another project hides its keyfile.
LoadIdentitySet(r) ==
    (IF LoadIdentity(r) THEN {r} ELSE {})
        \cup (HeldOnDisk \ (IF LoadIdentity(r) THEN {r} ELSE {}))

Opens(v, r) == v \in Sealed /\ v.to \in LoadIdentitySet(r)
Surface == {p \in Places : stored[p] # None}
Readable(r) == {p \in Places : Opens(stored[p], r)}

-----------------------------------------------------------------------------
(* The initial states: a project without secrets, or a clone of one whose  *)
(* values are under its recipient.  The identity may be in its keyfile, in *)
(* another file, in the environment or nowhere; its keyfile may be damaged *)
(* or hold another project's key.                                          *)

InitFor(r, t) ==
    /\ recipient = r
    /\ stored \in [Places -> {None} \cup
                     (IF r = None THEN {} ELSE {[to |-> r, text |-> t]})]
    /\ keyfile \in {f \in [Identities -> {None, Junk, r, Foreign}] :
                       /\ \A k \in Keys \ {r} : f[k] = None
                       /\ f[Foreign] \in {None, r}}
    /\ env \in {None, r, Foreign}
    /\ born = {r} \ {None}
    /\ mine = {keyfile[n] : n \in Identities} \cap Keys
    /\ latest = [p \in Places |-> IF stored[p] = None THEN None ELSE t]

Init ==
    /\ \E r \in Keys \cup {None}, t \in Texts : InitFor(r, t)
    /\ lock = None
    /\ cmd = [c \in Commands |-> Idle]
    /\ givenUp = {}
    /\ orphans = {}
    /\ unfinished = FALSE
    /\ started = 0 /\ faults = 0

-----------------------------------------------------------------------------
(* Beginning a command: what is read and decided without the locks.        *)

Begin(c, command) ==
    /\ cmd[c] = Idle
    /\ started < MaxCommands
    /\ started' = started + 1
    /\ cmd' = [cmd EXCEPT ![c] = command]
    /\ UNCHANGED <<project, machine, lock, mine, givenUp, latest, orphans,
                   unfinished, faults>>

\* A command that will generate a key pair draws it here; nobody can tell.
BeginFresh(c, op, seen) == \E k \in Keys \ born :
    /\ Begin(c, [Idle EXCEPT !.op = op, !.pc = "lock", !.key = k, !.seen = seen])
    /\ born' = born \cup {k}

\* secrets set: the recipient is looked for, the value is asked for.
BeginSet(c) == \E p \in Layers, t \in Texts :
    /\ recipient # None
    /\ Begin(c, [Idle EXCEPT !.op = "set", !.pc = "lock", !.place = p, !.text = t,
                          !.seen = recipient])
    /\ UNCHANGED born

\* secrets encrypt: only the plaintext is read before the locks.
BeginEncrypt(c) == \E p \in Files, t \in Texts, force \in BOOLEAN :
    /\ Begin(c, [Idle EXCEPT !.op = "encrypt", !.pc = "lock", !.place = p, !.text = t,
                          !.seen = recipient, !.force = force])
    /\ UNCHANGED born

\* secrets init: the project's first key pair.
BeginInit(c) == recipient = None /\ BeginFresh(c, "init", None)

\* secrets init --replace-recipient: refused while anything is readable, then
\* confirmed.
BeginReplace(c) ==
    /\ recipient # None
    /\ Readable(recipient) = {}
    /\ BeginFresh(c, "init", recipient)

\* secrets rekey takes the locks before it reads anything.
BeginRekey(c) == BeginFresh(c, "rekey", recipient)

\* secrets key import from a file or stdin: the identity has to be the one of
\* the recipient that workspace.yml has now.
BeginImport(c) ==
    /\ recipient # None
    /\ Begin(c, [Idle EXCEPT !.op = "import", !.pc = "lock", !.key = recipient])
    /\ UNCHANGED born

\* The gate before run, restart and deploy offers the import only where it is
\* needed and where it can succeed.
GateOffers ==
    /\ recipient # None
    /\ ~LoadIdentity(recipient)
    /\ Surface # {}
    /\ env = None
    /\ keyfile[recipient] = None
BeginGate(c) == GateOffers /\ BeginImport(c)

\* secrets key remove: the guard is on the identity the file holds, and it is
\* passed before the confirmation and the locks.
BeginRemove(c) == \E n \in Identities, force \in BOOLEAN :
    /\ keyfile[n] # None
    /\ force \/ keyfile[n] # recipient
    /\ Begin(c, [Idle EXCEPT !.op = "remove", !.pc = "lock", !.key = n, !.force = force])
    /\ UNCHANGED born

\* The same outside any project: no recipient to compare with, and no locks.
BeginRemoveOutside(c) == \E n \in Identities :
    /\ keyfile[n] # None
    /\ Begin(c, [Idle EXCEPT !.op = "remove", !.pc = "work", !.key = n])
    /\ UNCHANGED born

\* secrets get and decrypt: workspace.yml is read first, without the locks.
BeginGet(c) == \E p \in Places :
    /\ recipient # None
    /\ Begin(c, [Idle EXCEPT !.op = "get",
                          !.pc = IF p = Workspace THEN "open" ELSE "read",
                          !.place = p, !.seen = recipient,
                          !.got = IF p = Workspace THEN stored[p] ELSE None])
    /\ UNCHANGED born

-----------------------------------------------------------------------------
(* The steps of a command.                                                 *)

At(c, op, pc) == cmd[c].op = op /\ cmd[c].pc = pc
Goto(c, pc) == cmd' = [cmd EXCEPT ![c].pc = pc] /\ UNCHANGED lock
End(c) ==
    /\ cmd' = [cmd EXCEPT ![c] = Idle]
    /\ lock' = IF lock = c THEN None ELSE lock

\* AcquireProjectLocksOrReport: a command that finds them held is refused.
\* Mutant: rekey goes to work without the locks.
LocksFreeForRekey(c) == lock = None \/ cmd[c].op = "rekey"
LocksFree(c) == lock = None

Acquire(c) ==
    /\ cmd[c].pc = "lock"
    /\ IF LocksFree(c)
         THEN lock' = c /\ cmd' = [cmd EXCEPT ![c].pc = "work"]
         ELSE End(c)
    /\ UNCHANGED <<project, machine, history, started, faults>>

\* The recipient a value is sealed to is the one read under the locks.
\* Mutant: the one read before the value was asked for.
SealToSeen(c) == cmd[c].seen
SealTo(c) == recipient

Put(p, v) ==
    /\ stored' = [stored EXCEPT ![p] = v]
    /\ latest' = [latest EXCEPT ![p] = IF v = Junk THEN None ELSE v.text]
    /\ orphans' = orphans \ {p}

\* set, under the locks: the marker is written by one rename.
WriteMarker(c) ==
    /\ At(c, "set", "work")
    /\ recipient # None
    /\ Put(cmd[c].place, [to |-> SealTo(c), text |-> cmd[c].text])
    /\ End(c)
    /\ UNCHANGED <<recipient, machine, born, mine, givenUp, unfinished, started, faults>>

\* encrypt: the file is opened, which truncates it, and filled.
EncryptAllowed(c) ==
    /\ recipient # None
    /\ stored[cmd[c].place] = None \/ cmd[c].force
OpenOutput(c) ==
    /\ At(c, "encrypt", "work")
    /\ EncryptAllowed(c)
    /\ Put(cmd[c].place, Junk)
    /\ Goto(c, "fill")
    /\ UNCHANGED <<recipient, machine, born, mine, givenUp, unfinished, started, faults>>
FillOutput(c) ==
    /\ At(c, "encrypt", "fill")
    /\ Put(cmd[c].place, [to |-> SealTo(c), text |-> cmd[c].text])
    /\ End(c)
    /\ UNCHANGED <<recipient, machine, born, mine, givenUp, unfinished, started, faults>>

\* init, under the locks: the recipient must be the one it began with.
RecipientUnchanged(c) == recipient = cmd[c].seen
CheckInit(c) ==
    /\ At(c, "init", "work")
    /\ RecipientUnchanged(c)
    /\ Goto(c, "create")
    /\ mine' = mine \cup {cmd[c].key}
    /\ UNCHANGED <<project, machine, born, givenUp, latest, orphans, unfinished,
                   started, faults>>

\* rekey, phase 1: everything is opened, or nothing is done.
\* Mutant: only values under the committed recipient are accepted.
PlanOfOneRecipient ==
    /\ recipient # None
    /\ \A p \in Surface : Opens(stored[p], recipient) /\ stored[p].to = recipient
PlanPossible == recipient # None /\ Surface \subseteq Readable(recipient)

PlanRekey(c) ==
    /\ At(c, "rekey", "work")
    /\ PlanPossible
    /\ cmd' = [cmd EXCEPT ![c].pc = "create", ![c].got = stored,
                          ![c].todo = Readable(recipient)]
    /\ mine' = mine \cup {cmd[c].key}
    /\ UNCHANGED <<project, machine, lock, born, givenUp, latest, orphans,
                   unfinished, started, faults>>

\* import: under the locks, straight to the keyfile.
CheckImport(c) ==
    /\ At(c, "import", "work")
    /\ Goto(c, "create")
    /\ UNCHANGED <<project, machine, history, started, faults>>

\* What the checks under the locks refuse, with nothing written.
Refused(c) ==
    /\ \/ At(c, "set", "work") /\ recipient = None
       \/ At(c, "encrypt", "work") /\ ~EncryptAllowed(c)
       \/ At(c, "init", "work") /\ ~RecipientUnchanged(c)
       \/ At(c, "rekey", "work") /\ ~PlanPossible
    /\ End(c)
    /\ UNCHANGED <<project, machine, history, started, faults>>

\* WriteKeyfile: the file is created exclusively, then written.
CreatePossible(c) == keyfile[cmd[c].key] = None

CreateKeyfile(c) ==
    /\ cmd[c].pc = "create"
    /\ IF CreatePossible(c)
         THEN /\ keyfile' = [keyfile EXCEPT ![cmd[c].key] = Junk]
              /\ Goto(c, "key")
         ELSE End(c) /\ UNCHANGED keyfile
    /\ UNCHANGED <<project, env, history, started, faults>>

\* What comes after the keyfile: a recipient is committed only when its
\* identity is on disk.
AfterKeyfile(c) == CASE cmd[c].op = "init" -> "commit"
                     [] cmd[c].op = "rekey" -> "rewrite"
                     [] OTHER -> "end"

\* A file unlinked since it was created is written all the same.
FillKeyfile(c) ==
    /\ cmd[c].pc = "key"
    /\ keyfile' = IF keyfile[cmd[c].key] = Junk
                  THEN [keyfile EXCEPT ![cmd[c].key] = cmd[c].key]
                  ELSE keyfile
    /\ mine' = mine \cup {cmd[c].key}
    /\ IF AfterKeyfile(c) = "end" THEN End(c) ELSE Goto(c, AfterKeyfile(c))
    /\ UNCHANGED <<project, env, born, givenUp, latest, orphans, unfinished,
                   started, faults>>

Rewritten(c) == {p \in Places : stored[p] \in Sealed /\ stored[p].to = cmd[c].key}

\* rekey, phases 3 and 4: each file, then each layer, is replaced by a rename.
\* A layer whose marker is not the one of the plan is refused.
Rewrite(c) == \E p \in cmd[c].todo :
    /\ At(c, "rekey", "rewrite")
    /\ p \in Layers => cmd[c].todo \cap Files = {}
    /\ p \in Layers => stored[p] = cmd[c].got[p]
    /\ stored' = [stored EXCEPT ![p] = [to |-> cmd[c].key, text |-> cmd[c].got[p].text]]
    /\ cmd' = [cmd EXCEPT ![c].todo = @ \ {p}]
    /\ UNCHANGED <<recipient, machine, lock, history, started, faults>>

\* Phase 5, and the last step of init: the recipient.
\* Mutant: init commits the recipient before its identity is on disk.
RecipientReadyFirst(c) ==
    \/ At(c, "init", "create")
    \/ At(c, "rekey", "rewrite") /\ cmd[c].todo = {}
RecipientReady(c) ==
    \/ At(c, "init", "commit")
    \/ At(c, "rekey", "rewrite") /\ cmd[c].todo = {}

CommitRecipient(c) ==
    /\ RecipientReady(c)
    /\ recipient' = cmd[c].key
    /\ orphans' = IF cmd[c].op = "init" THEN Surface ELSE {}
    /\ unfinished' = (cmd[c].op = "init" /\ unfinished)
    /\ End(c)
    /\ UNCHANGED <<stored, machine, born, mine, givenUp, latest, started, faults>>

\* key remove: the file goes, whatever it holds by now.
RemoveKeyfile(c) ==
    /\ At(c, "remove", "work")
    /\ keyfile' = [keyfile EXCEPT ![cmd[c].key] = None]
    /\ givenUp' = givenUp \cup ({cmd[c].key, keyfile[cmd[c].key]} \ {None, Junk})
    /\ End(c)
    /\ UNCHANGED <<project, env, born, mine, latest, orphans, unfinished, started, faults>>

\* get and decrypt: the value is read, and then the identities are.
ReadPlace(c) ==
    /\ At(c, "get", "read")
    /\ cmd' = [cmd EXCEPT ![c].pc = "open", ![c].got = stored[cmd[c].place]]
    /\ UNCHANGED <<project, machine, lock, history, started, faults>>
OpenValue(c) ==
    /\ At(c, "get", "open")
    /\ End(c)
    /\ UNCHANGED <<project, machine, history, started, faults>>

-----------------------------------------------------------------------------
(* Faults.                                                                 *)

LeavesMixed(c) == cmd[c].pc = "rewrite" /\ Rewritten(c) # {}

\* A write fails and the command gives up.  init takes its keyfile back, so
\* that its next attempt is not refused; rekey keeps it, since values may be
\* under it already.
\* Mutant: rekey takes it back as well.
KeyfileTakenBackAlways(c) == cmd[c].pc \in {"commit", "rewrite"}
KeyfileTakenBack(c) == cmd[c].pc = "commit"

WriteFails(c) ==
    /\ cmd[c].pc \in {"work", "fill", "create", "key", "rewrite", "commit"}
    /\ faults < MaxFaults
    /\ faults' = faults + 1
    /\ keyfile' = IF KeyfileTakenBack(c)
                  THEN [keyfile EXCEPT ![cmd[c].key] = None] ELSE keyfile
    /\ unfinished' = (unfinished \/ LeavesMixed(c))
    /\ End(c)
    /\ UNCHANGED <<project, env, born, mine, givenUp, latest, orphans, started>>

Kill(c) ==
    /\ cmd[c].pc \in {"work", "fill", "create", "key", "rewrite", "commit"}
    /\ faults < MaxFaults
    /\ faults' = faults + 1
    /\ unfinished' = (unfinished \/ LeavesMixed(c))
    /\ End(c)
    /\ UNCHANGED <<project, machine, born, mine, givenUp, latest, orphans, started>>

Next == \E c \in Commands :
    \/ BeginSet(c) \/ BeginEncrypt(c) \/ BeginInit(c) \/ BeginReplace(c)
    \/ BeginRekey(c) \/ BeginImport(c) \/ BeginGate(c)
    \/ BeginRemove(c) \/ BeginRemoveOutside(c) \/ BeginGet(c)
    \/ Acquire(c) \/ Refused(c)
    \/ WriteMarker(c) \/ OpenOutput(c) \/ FillOutput(c)
    \/ CheckInit(c) \/ PlanRekey(c) \/ CheckImport(c)
    \/ CreateKeyfile(c) \/ FillKeyfile(c) \/ Rewrite(c) \/ CommitRecipient(c)
    \/ RemoveKeyfile(c) \/ ReadPlace(c) \/ OpenValue(c)
    \/ WriteFails(c) \/ Kill(c)

Spec == Init /\ [][Next]_vars

-----------------------------------------------------------------------------
(* Properties.                                                             *)

\* Type invariant.
TypeOK ==
    /\ recipient \in Keys \cup {None}
    /\ stored \in [Places -> Sealed \cup {None, Junk}]
    /\ keyfile \in [Identities -> Identities \cup {None, Junk}]
    /\ env \in Identities \cup {None}
    /\ lock \in Commands \cup {None}
    /\ lock # None => cmd[lock] # Idle
    /\ mine \subseteq born /\ born \subseteq Keys
    /\ givenUp \subseteq Identities
    /\ orphans \subseteq Places
    /\ unfinished \in BOOLEAN

Kept == mine \ givenUp
RekeyUnderWay == \E c \in Commands : At(c, "rekey", "rewrite")

\* A recipient that this machine has made or imported is never committed
\* without its identity on disk, wherever a command stops: "a recipient
\* committed without a readable identity would lock the project out of its own
\* secrets" (rekey.go, init.go).
RecipientInstalled == recipient \in Kept => recipient \in HeldOnDisk

\* Whatever is sealed to a key pair this machine has had stays readable on it,
\* through every interrupted rekey and whichever identity the environment
\* offers, until the user confirms the removal of that keyfile.
SealedKeysKept == \A p \in Places :
    stored[p] \in Sealed /\ stored[p].to \in Kept => Opens(stored[p], recipient)

\* Values are under the committed recipient; the exceptions are a rekey under
\* way or broken off, and what a replaced recipient has left behind.  In
\* particular a rekey that completes has rewritten everything, after any number
\* of broken ones, and a value set while a rekey waits or works is not left
\* under the retired recipient.
OneRecipient == \A p \in Places :
    stored[p] \in Sealed =>
        stored[p].to = recipient \/ p \in orphans \/ unfinished \/ RekeyUnderWay

\* A rekey never brings back a plaintext that has been replaced.
LatestValue == \A p \in Places : stored[p] \in Sealed => stored[p].text = latest[p]

\* get and decrypt read the recipient, the value and the identities at three
\* moments without the locks, and open every value whose key pair this machine
\* keeps, even while a rekey moves the value and the recipient.
ReaderOpens == \A c \in Commands :
    At(c, "get", "open") /\ cmd[c].got \in Sealed /\ cmd[c].got.to \in Kept
        => Opens(cmd[c].got, cmd[c].seen)

\* A rekey that was broken off can be run again: it finds nothing it cannot
\* open, unless the user has removed a keyfile, an encrypt was cut short or the
\* recipient was replaced.
Resumable ==
    /\ unfinished
    /\ givenUp = {} /\ orphans = {} /\ (\A p \in Places : stored[p] # Junk)
    => PlanPossible

(* Three statements of the sources that the program does not keep; no      *)
(* configuration checks them, the README says why they fail.               *)

\* "It refuses while anything is still readable here" (init.go): a replaced
\* recipient leaves nothing behind that this machine can read.
ReplaceLosesNothing == [][\A c \in Commands :
    At(c, "init", "commit") /\ recipient' # recipient => Readable(recipient) = {}]_vars

\* "an import racing a rekey would otherwise install a key the rekey is
\* retiring" (key.go): the identity an import installs is the project's.
ImportIsCurrent == [][\A c \in Commands :
    At(c, "import", "key") /\ mine' # mine => cmd[c].key = recipient]_vars

\* "Removing the file that holds the identity this project uses is refused
\* unless --force is passed" (key.go), for a removal in the project.
RemovalSparesProject == [][\A c \in Commands :
    At(c, "remove", "work") /\ lock = c /\ ~cmd[c].force /\ keyfile' # keyfile
        => keyfile[cmd[c].key] # recipient]_vars
=============================================================================
