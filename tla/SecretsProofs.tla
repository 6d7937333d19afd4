---------------------------- MODULE SecretsProofs -----------------------------
(***************************************************************************)
(* Proofs about the encrypted values and their identities, for any number  *)
(* of shells, key pairs, files, texts, commands and faults.                *)
(***************************************************************************)
EXTENDS Secrets, TLAPS

Values == Sealed \cup {None, Junk}
Ops == {"none", "set", "encrypt", "init", "rekey", "import", "remove", "get"}
Locked == {"fill", "create", "key", "rewrite", "commit"}
Pcs == Locked \cup {"idle", "lock", "work", "read", "open"}

Command ==
    [op : Ops, pc : Pcs, place : Places \cup {None}, text : Texts \cup {None},
     key : Identities \cup {None}, seen : Keys \cup {None},
     got : [Places -> Values] \cup Values, todo : SUBSET Places, force : BOOLEAN]

\* What a command is to work on, by what it is.
Suits(m) ==
    /\ m.op = "set" => m.place \in Layers /\ m.text \in Texts
    /\ m.op = "encrypt" => m.place \in Files /\ m.text \in Texts
    /\ m.op \in {"init", "rekey", "import"} => m.key \in born
    /\ m.op = "remove" => m.key \in Identities
    /\ m.op = "get" => m.place \in Places /\ m.seen \in Keys /\ m.got \in Values
    /\ m.op = "rekey" /\ m.pc \in Locked => m.got \in [Places -> Values]
    /\ m.pc = "idle" <=> m.op = "none"
    /\ m.pc = "fill" => m.op = "encrypt" /\ recipient # None
    /\ m.pc \in {"create", "key"} => m.op \in {"init", "rekey", "import"}
    /\ m.pc = "rewrite" => m.op = "rekey"
    /\ m.pc = "commit" => m.op = "init"
    /\ m.pc \in {"read", "open"} <=> m.op = "get"

TypeInv ==
    /\ TypeOK
    /\ latest \in [Places -> Texts \cup {None}]
    /\ cmd \in [Commands -> Command]
    /\ \A c \in Commands : Suits(cmd[c])

\* Whoever writes the project has the locks; a removal outside of the project
\* is the only work without them.
LockInv == \A c \in Commands :
    /\ cmd[c].pc \in Locked => lock = c
    /\ cmd[c].pc = "work" /\ cmd[c].op # "remove" => lock = c

-----------------------------------------------------------------------------
(* Which keys are in use, and that they can be had.                        *)

MakesKey(c) == cmd[c].op \in {"init", "rekey"}
Working(c) == cmd[c].op = "rekey" /\ cmd[c].pc \in {"create", "key", "rewrite"}

\* What something is sealed to, now or when a reader looked.
InUse(k) ==
    \/ recipient = k
    \/ \E p \in Places : stored[p] \in Sealed /\ stored[p].to = k
    \/ \E c \in Commands :
          cmd[c].op = "get" /\ cmd[c].got \in Sealed /\ cmd[c].got.to = k

UseInv ==
    /\ \A k \in Keys : InUse(k) => k \in born
    /\ \A k \in Kept : InUse(k) => k \in HeldOnDisk

\* A key pair under way is nobody else's, and nothing is sealed to it but what
\* its own rekey has rewritten.
FreshOf(c) ==
    /\ cmd[c].key # recipient
    /\ InUse(cmd[c].key) => At(c, "rekey", "rewrite")
    /\ \A d \in Commands \ {c} :
          cmd[d].op \in {"init", "rekey", "import"} => cmd[d].key # cmd[c].key
    /\ cmd[c].pc \in Locked => cmd[c].key \in mine
FreshInv == \A c \in Commands : MakesKey(c) => FreshOf(c)

\* A keyfile is one's own from its creation on, unless the user removes it.
KeyfileInv ==
    /\ \A k \in Keys : keyfile[k] \in {None, Junk, k, Foreign}
    /\ \A c \in Commands :
          /\ cmd[c].pc = "key" =>
                keyfile[cmd[c].key] = Junk \/ cmd[c].key \in givenUp
          /\ cmd[c].pc \in {"rewrite", "commit"} =>
                cmd[c].key \in HeldOnDisk \/ cmd[c].key \in givenUp

\* A rekey at work has everything in its plan, as it is on disk, or rewritten.
PlanInv == \A c \in Commands : Working(c) =>
    /\ \A p \in Places : stored[p] # None =>
          \/ p \in cmd[c].todo
          \/ At(c, "rekey", "rewrite") /\ stored[p] \in Sealed /\ stored[p].to = cmd[c].key
    /\ \A p \in cmd[c].todo : stored[p] \in Sealed /\ stored[p] = cmd[c].got[p]
    /\ recipient # None

\* OneRecipient, with the key of the rekey under way.
RecipientInv == \A p \in Places : stored[p] \in Sealed =>
    \/ stored[p].to = recipient
    \/ p \in orphans
    \/ unfinished
    \/ \E c \in Commands : At(c, "rekey", "rewrite") /\ stored[p].to = cmd[c].key

-----------------------------------------------------------------------------
(* What makes a broken rekey one that can be run again.                    *)

Available(k) == k \in HeldOnDisk \/ env = k

ResumeInv ==
    /\ unfinished \/ orphans # {} => recipient # None
    /\ orphans # {} => recipient \in mine
    /\ \A p \in Places : stored[p] \in Sealed =>
          stored[p].to \in mine \cup {recipient} \/ p \in orphans
    /\ givenUp = {} /\ unfinished => Available(recipient)
    /\ givenUp = {} => \A c \in Commands : Working(c) =>
          /\ \A p \in cmd[c].todo : stored[p].to = recipient => Available(recipient)
          /\ Rewritten(c) # {} => Available(recipient)

Inv ==
    /\ TypeInv /\ LockInv
    /\ UseInv /\ FreshInv /\ KeyfileInv
    /\ PlanInv /\ RecipientInv /\ LatestValue /\ ResumeInv

-----------------------------------------------------------------------------
(* What this machine can open.                                             *)

LEMMA CanOpen ==
    ASSUME NEW k \in Keys, NEW r
    PROVE  /\ k \in LoadIdentitySet(r) <=> k \in HeldOnDisk \/ (k = r /\ LoadIdentity(r))
           /\ k \in LoadIdentitySet(k) <=> k \in HeldOnDisk \/ LoadIdentity(k)
  BY DEF LoadIdentitySet

LEMMA CanOpenOwn ==
    ASSUME NEW k \in Keys
    PROVE  k \in LoadIdentitySet(k) => Available(k)
  BY SecretsAssumption DEF LoadIdentitySet, LoadIdentity, Available, HeldOnDisk, Identities

-----------------------------------------------------------------------------
(* Lemmas about the records of the commands and the steps they take.       *)

LEMMA IdleCommand ==
    /\ Idle \in Command
    /\ Idle.op = "none" /\ Idle.pc = "idle" /\ Idle.todo = {}
  BY DEF Idle, Command, Ops, Pcs, Values

\* What a record is when one of its fields has changed.
LEMMA NewPc ==
    ASSUME NEW m \in Command, NEW x \in Pcs
    PROVE  LET n == [m EXCEPT !.pc = x] IN
           /\ n \in Command
           /\ n.pc = x /\ n.op = m.op /\ n.place = m.place /\ n.text = m.text
           /\ n.key = m.key /\ n.seen = m.seen /\ n.got = m.got
           /\ n.todo = m.todo /\ n.force = m.force
  BY DEF Command

LEMMA NewTodo ==
    ASSUME NEW m \in Command, NEW x \in SUBSET Places
    PROVE  LET n == [m EXCEPT !.todo = x] IN
           /\ n \in Command
           /\ n.todo = x /\ n.op = m.op /\ n.place = m.place /\ n.text = m.text
           /\ n.key = m.key /\ n.seen = m.seen /\ n.got = m.got
           /\ n.pc = m.pc /\ n.force = m.force
  BY DEF Command

\* A command goes on: nothing of it changes but its place.
LEMMA GotoStep ==
    ASSUME TypeInv, NEW c \in Commands, NEW x \in Pcs, Goto(c, x)
    PROVE  /\ cmd' \in [Commands -> Command] /\ lock' = lock
           /\ \A d \in Commands \ {c} : cmd'[d] = cmd[d]
           /\ cmd'[c].pc = x /\ cmd'[c].op = cmd[c].op
           /\ cmd'[c].place = cmd[c].place /\ cmd'[c].text = cmd[c].text
           /\ cmd'[c].key = cmd[c].key /\ cmd'[c].seen = cmd[c].seen
           /\ cmd'[c].got = cmd[c].got /\ cmd'[c].todo = cmd[c].todo
  <1>1. cmd' = [cmd EXCEPT ![c] = [cmd[c] EXCEPT !.pc = x]]
    BY DEF Goto
  <1>2. cmd[c] \in Command
    BY DEF TypeInv
  <1> QED
    BY <1>1, <1>2, NewPc DEF Goto, TypeInv

LEMMA EndStep ==
    ASSUME TypeInv, NEW c \in Commands, End(c)
    PROVE  /\ cmd' \in [Commands -> Command]
           /\ \A d \in Commands \ {c} : cmd'[d] = cmd[d]
           /\ cmd'[c].pc = "idle" /\ cmd'[c].op = "none" /\ cmd'[c].todo = {}
           /\ cmd'[c] = Idle
           /\ lock' = IF lock = c THEN None ELSE lock
  BY IdleCommand DEF End, TypeInv

\* The ten ways of beginning a command.
Begins(c) ==
    \/ BeginSet(c) \/ BeginEncrypt(c) \/ BeginInit(c) \/ BeginReplace(c)
    \/ BeginRekey(c) \/ BeginImport(c) \/ BeginGate(c)
    \/ BeginRemove(c) \/ BeginRemoveOutside(c) \/ BeginGet(c)

\* What they have in common: m is the command that begins.
Started(c, m) ==
    /\ UNCHANGED <<project, machine, lock, mine, givenUp, latest, orphans,
                   unfinished, faults>>
    /\ cmd[c] = Idle /\ cmd' = [cmd EXCEPT ![c] = m]
    /\ m.pc \in {"lock", "work", "read", "open"} /\ m.todo = {}
    /\ m.op # "none"
    /\ m.op = "set" => m.place \in Layers /\ m.text \in Texts
    /\ m.op = "encrypt" => m.place \in Files /\ m.text \in Texts
    /\ m.op = "import" => m.key = recipient /\ recipient \in Keys
    /\ m.op = "remove" => m.key \in Identities
    /\ m.op = "get" => /\ m.place \in Places /\ m.seen \in Keys
                       /\ m.got \in {None, stored[m.place]}
    /\ m.pc = "work" => m.op = "remove"
    /\ m.pc \in {"read", "open"} <=> m.op = "get"
    /\ IF m.op \in {"init", "rekey"}
       THEN m.key \in Keys \ born /\ born' = born \cup {m.key}
       ELSE born' = born

LEMMA BeginStep ==
    ASSUME TypeInv, NEW c \in Commands, Begins(c)
    PROVE  \E m \in Command : Started(c, m)
  <1> USE IdleCommand DEF Begin, Places
  <1>1. CASE BeginSet(c)
    <2>1. PICK p \in Layers, t \in Texts :
             Begin(c, [Idle EXCEPT !.op = "set", !.pc = "lock", !.place = p,
                                 !.text = t, !.seen = recipient])
             /\ UNCHANGED born
      BY <1>1 DEF BeginSet
    <2> DEFINE m == [Idle EXCEPT !.op = "set", !.pc = "lock", !.place = p,
                                 !.text = t, !.seen = recipient]
    <2>2. m \in Command /\ m.op = "set" /\ m.pc = "lock" /\ m.todo = {}
          /\ m.place = p /\ m.text = t
      BY <2>1 DEF Command, Ops, Pcs, Values, Identities, TypeInv, TypeOK
    <2> HIDE DEF m
    <2>3. cmd[c] = Idle /\ cmd' = [cmd EXCEPT ![c] = m]
      BY <2>1 DEF m
    <2> QED
      BY <2>1, <2>2, <2>3 DEF Started, TypeInv, TypeOK, Values
  <1>2. CASE BeginEncrypt(c)
    <2>1. PICK p \in Files, t \in Texts, force \in BOOLEAN :
             Begin(c, [Idle EXCEPT !.op = "encrypt", !.pc = "lock", !.place = p,
                                 !.text = t, !.seen = recipient, !.force = force])
             /\ UNCHANGED born
      BY <1>2 DEF BeginEncrypt
    <2> DEFINE m == [Idle EXCEPT !.op = "encrypt", !.pc = "lock", !.place = p,
                                 !.text = t, !.seen = recipient, !.force = force]
    <2>2. m \in Command /\ m.op = "encrypt" /\ m.pc = "lock" /\ m.todo = {}
          /\ m.place = p /\ m.text = t
      BY <2>1 DEF Command, Ops, Pcs, Values, Identities, TypeInv, TypeOK
    <2> HIDE DEF m
    <2>3. cmd[c] = Idle /\ cmd' = [cmd EXCEPT ![c] = m]
      BY <2>1 DEF m
    <2> QED
      BY <2>1, <2>2, <2>3 DEF Started, TypeInv, TypeOK, Values
  <1>3. ASSUME NEW op \in {"init", "rekey"}, NEW seen \in Keys \cup {None},
               BeginFresh(c, op, seen)
        PROVE  \E m \in Command : Started(c, m)
    <2>1. PICK k \in Keys \ born :
             Begin(c, [Idle EXCEPT !.op = op, !.pc = "lock", !.key = k, !.seen = seen])
             /\ born' = born \cup {k}
      BY <1>3 DEF BeginFresh
    <2> DEFINE m == [Idle EXCEPT !.op = op, !.pc = "lock", !.key = k, !.seen = seen]
    <2>2. m \in Command /\ m.op = op /\ m.pc = "lock" /\ m.todo = {} /\ m.key = k
      BY <2>1, <1>3 DEF Command, Ops, Pcs, Values, Identities, TypeInv, TypeOK
    <2> HIDE DEF m
    <2>3. cmd[c] = Idle /\ cmd' = [cmd EXCEPT ![c] = m]
      BY <2>1 DEF m
    <2> QED
      BY <1>3, <2>1, <2>2, <2>3 DEF Started, TypeInv, TypeOK, Values
  <1>4. CASE BeginImport(c)
    <2>1. recipient # None /\ UNCHANGED born
          /\ Begin(c, [Idle EXCEPT !.op = "import", !.pc = "lock", !.key = recipient])
      BY <1>4 DEF BeginImport
    <2> DEFINE m == [Idle EXCEPT !.op = "import", !.pc = "lock", !.key = recipient]
    <2>2. m \in Command /\ m.op = "import" /\ m.pc = "lock" /\ m.todo = {} /\ m.key = recipient
      BY <2>1 DEF Command, Ops, Pcs, Values, Identities, TypeInv, TypeOK
    <2> HIDE DEF m
    <2>3. cmd[c] = Idle /\ cmd' = [cmd EXCEPT ![c] = m]
      BY <2>1 DEF m
    <2> QED
      BY <2>1, <2>2, <2>3 DEF Started, TypeInv, TypeOK, Values
  <1>5. CASE BeginRemove(c)
    <2>1. PICK n \in Identities, force \in BOOLEAN :
             Begin(c, [Idle EXCEPT !.op = "remove", !.pc = "lock", !.key = n, !.force = force])
             /\ UNCHANGED born
      BY <1>5 DEF BeginRemove
    <2> DEFINE m == [Idle EXCEPT !.op = "remove", !.pc = "lock", !.key = n, !.force = force]
    <2>2. m \in Command /\ m.op = "remove" /\ m.pc = "lock" /\ m.todo = {} /\ m.key = n
      BY <2>1 DEF Command, Ops, Pcs, Values, Identities, TypeInv, TypeOK
    <2> HIDE DEF m
    <2>3. cmd[c] = Idle /\ cmd' = [cmd EXCEPT ![c] = m]
      BY <2>1 DEF m
    <2> QED
      BY <2>1, <2>2, <2>3 DEF Started, TypeInv, TypeOK, Values
  <1>6. CASE BeginRemoveOutside(c)
    <2>1. PICK n \in Identities :
             Begin(c, [Idle EXCEPT !.op = "remove", !.pc = "work", !.key = n])
             /\ UNCHANGED born
      BY <1>6 DEF BeginRemoveOutside
    <2> DEFINE m == [Idle EXCEPT !.op = "remove", !.pc = "work", !.key = n]
    <2>2. m \in Command /\ m.op = "remove" /\ m.pc = "work" /\ m.todo = {} /\ m.key = n
      BY <2>1 DEF Command, Ops, Pcs, Values, Identities, TypeInv, TypeOK
    <2> HIDE DEF m
    <2>3. cmd[c] = Idle /\ cmd' = [cmd EXCEPT ![c] = m]
      BY <2>1 DEF m
    <2> QED
      BY <2>1, <2>2, <2>3 DEF Started, TypeInv, TypeOK, Values
  <1>7. CASE BeginGet(c)
    <2> DEFINE at(p) == IF p = Workspace THEN "open" ELSE "read"
               got(p) == IF p = Workspace THEN stored[p] ELSE None
               m(p) == [Idle EXCEPT !.op = "get", !.pc = at(p), !.place = p,
                                    !.seen = recipient, !.got = got(p)]
    <2>1. PICK p \in Places : recipient # None /\ UNCHANGED born /\ Begin(c, m(p))
      BY <1>7 DEF BeginGet
    <2>2. /\ at(p) \in {"read", "open"} /\ got(p) \in {None, stored[p]}
          /\ recipient \in Keys /\ got(p) \in Values
      BY <2>1 DEF Values, TypeInv, TypeOK
    <2> HIDE DEF at, got
    <2>3. /\ m(p) \in Command /\ m(p).op = "get" /\ m(p).pc = at(p) /\ m(p).todo = {}
          /\ m(p).place = p /\ m(p).seen = recipient /\ m(p).got = got(p)
      BY <2>1, <2>2 DEF Command, Ops, Pcs
    <2>4. cmd[c] = Idle /\ cmd' = [cmd EXCEPT ![c] = m(p)]
      BY <2>1
    <2> HIDE DEF m
    <2> QED
      BY <2>1, <2>2, <2>3, <2>4 DEF Started
  <1>8. recipient \in Keys \cup {None}
    BY DEF TypeInv, TypeOK
  <1> QED
    BY <1>1, <1>2, <1>3, <1>4, <1>5, <1>6, <1>7, <1>8 DEF Begins, BeginInit, BeginReplace,
       BeginRekey, BeginGate

-----------------------------------------------------------------------------
(* Each step preserves the invariant.                                      *)

\* A command ends and leaves everything as it is.
LEMMA QuietEnd ==
    ASSUME Inv, NEW c \in Commands, End(c), cmd[c].pc # "rewrite",
           UNCHANGED <<project, machine, history>>
    PROVE  Inv'
  <1>1. /\ UNCHANGED <<recipient, stored, keyfile, env, born>>
        /\ UNCHANGED <<mine, givenUp, latest, orphans, unfinished>>
    BY DEF project, machine, history
  <1>2. /\ cmd' \in [Commands -> Command]
        /\ \A d \in Commands \ {c} : cmd'[d] = cmd[d]
        /\ cmd'[c].pc = "idle" /\ cmd'[c].op = "none" /\ cmd'[c] = Idle
        /\ lock' = IF lock = c THEN None ELSE lock
    BY EndStep DEF Inv
  <1>3. TypeInv'
    BY <1>1, <1>2, IdleCommand DEF Inv, TypeInv, TypeOK, Suits, Values, Locked
  <1>4. LockInv'
    BY <1>1, <1>2 DEF Inv, TypeInv, LockInv, Locked
  <1>5. UseInv'
    BY <1>1, <1>2 DEF Inv, UseInv, InUse, HeldOnDisk, Kept
  <1>6. FreshInv'
    BY <1>1, <1>2 DEF Inv, FreshInv, FreshOf, MakesKey, InUse, At, Locked
  <1>7. KeyfileInv'
    BY <1>1, <1>2 DEF Inv, KeyfileInv, HeldOnDisk
  <1>8. PlanInv'
    BY <1>1, <1>2 DEF Inv, PlanInv, Working, At
  <1>9. RecipientInv'
    BY <1>1, <1>2 DEF Inv, RecipientInv, At
  <1>10. LatestValue'
    BY <1>1, <1>2 DEF Inv, LatestValue
  <1>11. ResumeInv'
    BY <1>1, <1>2 DEF Inv, ResumeInv, Available, Working, Rewritten, HeldOnDisk
  <1> QED
    BY <1>3, <1>4, <1>5, <1>6, <1>7, <1>8, <1>9, <1>10, <1>11 DEF Inv

\* A command begins.
LEMMA BeginPreserves ==
    ASSUME Inv, NEW c \in Commands, Begins(c)
    PROVE  Inv'
  <1>1. PICK m \in Command : Started(c, m)
    BY BeginStep DEF Inv
  <1>2. /\ UNCHANGED <<recipient, stored, keyfile, env>>
        /\ UNCHANGED <<mine, givenUp, latest, orphans, unfinished>>
        /\ born \subseteq born' /\ born' \subseteq Keys
    BY <1>1 DEF Started, Inv, TypeInv, TypeOK, project, machine
  <1>3. /\ cmd' \in [Commands -> Command]
        /\ \A d \in Commands \ {c} : cmd'[d] = cmd[d]
        /\ cmd'[c] = m /\ cmd[c].pc = "idle" /\ cmd[c].op = "none" /\ lock' = lock
    BY <1>1, IdleCommand DEF Started, Inv, TypeInv
  <1>4. \A k \in Keys : InUse(k)' => InUse(k)
    BY <1>1, <1>2, <1>3, SecretsAssumption DEF InUse, Started, Sealed
  <1>5. /\ MakesKey(c)' => m.key \in Keys \ born
        /\ \A k \in Keys : InUse(k)' => k \in born
        /\ \A d \in Commands \ {c} : MakesKey(d) <=> MakesKey(d)'
        /\ \A d \in Commands : cmd[d].op \in {"init", "rekey", "import"} => cmd[d].key \in born
        /\ recipient \in Keys => recipient \in born
    BY <1>1, <1>2, <1>3, <1>4 DEF Started, MakesKey, Inv, UseInv, InUse, TypeInv, Suits
  <1>6. TypeInv'
    BY <1>1, <1>2, <1>3, <1>4, <1>5, IdleCommand, SecretsAssumption DEF Inv, TypeInv,
       TypeOK, Suits, Values, Locked, Started, UseInv, InUse
  <1>7. LockInv'
    BY <1>1, <1>2, <1>3, <1>4, <1>5 DEF Inv, TypeInv, LockInv, Locked, Started
  <1>8. UseInv'
    BY <1>1, <1>2, <1>3, <1>4, <1>5 DEF Inv, UseInv, HeldOnDisk, Kept, TypeInv, TypeOK
  <1>9. FreshInv'
    <2>1. ASSUME NEW d \in Commands \ {c}, MakesKey(d)
          PROVE  FreshOf(d)'
      BY <1>1, <1>2, <1>3, <1>4, <1>5, <2>1 DEF Inv, FreshInv, FreshOf, MakesKey, At,
         Started
    <2>2. ASSUME MakesKey(c)'
          PROVE  FreshOf(c)'
      BY <1>1, <1>2, <1>3, <1>4, <1>5, <2>2, SecretsAssumption DEF Inv, FreshOf, MakesKey,
         At, Started, Locked, TypeInv, TypeOK
    <2> QED
      BY <1>5, <2>1, <2>2 DEF FreshInv
  <1>10. KeyfileInv'
    BY <1>1, <1>2, <1>3, <1>4, <1>5 DEF Inv, KeyfileInv, HeldOnDisk, Started
  <1>11. PlanInv'
    BY <1>1, <1>2, <1>3, <1>4, <1>5 DEF Inv, PlanInv, Working, At, Started
  <1>12. RecipientInv'
    BY <1>1, <1>2, <1>3, <1>4, <1>5 DEF Inv, RecipientInv, At, Started
  <1>13. LatestValue'
    BY <1>1, <1>2, <1>3, <1>4, <1>5 DEF Inv, LatestValue, Started
  <1>14. ResumeInv'
    BY <1>1, <1>2, <1>3, <1>4, <1>5 DEF Inv, ResumeInv, Available, Working, Rewritten,
       HeldOnDisk, Started
  <1> QED
    BY <1>6, <1>7, <1>8, <1>9, <1>10, <1>11, <1>12, <1>13, <1>14 DEF Inv

\* A command takes the locks.
LEMMA AcquirePreserves ==
    ASSUME Inv, NEW c \in Commands, Acquire(c), LocksFree(c)
    PROVE  Inv'
  <1>1. /\ UNCHANGED <<recipient, stored, keyfile, env, born>>
        /\ UNCHANGED <<mine, givenUp, latest, orphans, unfinished>>
        /\ lock = None /\ lock' = c
    BY DEF Acquire, LocksFree, project, machine, history
  <1>2. cmd[c] \in Command /\ cmd' = [cmd EXCEPT ![c] = [cmd[c] EXCEPT !.pc = "work"]]
        /\ cmd[c].pc = "lock"
    BY DEF Acquire, LocksFree, Inv, TypeInv
  <1>3. /\ cmd' \in [Commands -> Command]
        /\ \A d \in Commands \ {c} : cmd'[d] = cmd[d]
        /\ cmd'[c].pc = "work"
        /\ cmd'[c].op = cmd[c].op /\ cmd'[c].place = cmd[c].place
        /\ cmd'[c].text = cmd[c].text /\ cmd'[c].key = cmd[c].key
        /\ cmd'[c].seen = cmd[c].seen /\ cmd'[c].got = cmd[c].got
        /\ cmd'[c].todo = cmd[c].todo
    BY <1>2, NewPc DEF Inv, TypeInv, Pcs
  <1>4. TypeInv'
    <2>1. TypeOK'
      BY <1>1, <1>2, <1>3, IdleCommand, SecretsAssumption DEF Inv, TypeInv, TypeOK, Suits
    <2>2. \A d \in Commands \ {c} : Suits(cmd[d])'
      BY <1>1, <1>2, <1>3, SecretsAssumption DEF Inv, TypeInv, Suits, Values
    <2>3. Suits(cmd[c])'
      BY <1>1, <1>2, <1>3, SecretsAssumption DEF Inv, TypeInv, TypeOK, Suits, Values, Locked
    <2>4. /\ latest' \in [Places -> Texts \cup {None}]
          /\ cmd' \in [Commands -> Command]
      BY <1>1, <1>2, <1>3 DEF Inv, TypeInv
    <2> QED
      BY <2>1, <2>2, <2>3, <2>4 DEF TypeInv
  <1>5. LockInv'
    BY <1>1, <1>2, <1>3, SecretsAssumption DEF Inv, TypeInv, LockInv, Locked
  <1>6. UseInv'
    BY <1>1, <1>2, <1>3 DEF Inv, UseInv, InUse, HeldOnDisk, Kept
  <1>7. FreshInv'
    BY <1>1, <1>2, <1>3 DEF Inv, FreshInv, FreshOf, MakesKey, InUse, At, Locked
  <1>8. KeyfileInv'
    BY <1>1, <1>2, <1>3 DEF Inv, KeyfileInv, HeldOnDisk
  <1>9. PlanInv'
    BY <1>1, <1>2, <1>3 DEF Inv, PlanInv, Working, At
  <1>10. RecipientInv'
    BY <1>1, <1>2, <1>3 DEF Inv, RecipientInv, At
  <1>11. LatestValue'
    BY <1>1, <1>2, <1>3 DEF Inv, LatestValue
  <1>12. ResumeInv'
    BY <1>1, <1>2, <1>3 DEF Inv, ResumeInv, Available, Working, Rewritten, HeldOnDisk
  <1> QED
    BY <1>4, <1>5, <1>6, <1>7, <1>8, <1>9, <1>10, <1>11, <1>12 DEF Inv

\* An import is about to create its keyfile.
LEMMA CheckImportPreserves ==
    ASSUME Inv, NEW c \in Commands, CheckImport(c)
    PROVE  Inv'
  <1>1. /\ UNCHANGED <<recipient, stored, keyfile, env, born>>
        /\ UNCHANGED <<mine, givenUp, latest, orphans, unfinished>>
        /\ cmd[c].pc = "work" /\ cmd[c].op = "import"
    BY DEF CheckImport, At, project, machine, history
  <1>2. /\ cmd' \in [Commands -> Command]
        /\ \A d \in Commands \ {c} : cmd'[d] = cmd[d]
        /\ cmd'[c].pc = "create" /\ lock' = lock
        /\ cmd'[c].op = cmd[c].op /\ cmd'[c].place = cmd[c].place
        /\ cmd'[c].text = cmd[c].text /\ cmd'[c].key = cmd[c].key
        /\ cmd'[c].seen = cmd[c].seen /\ cmd'[c].got = cmd[c].got
        /\ cmd'[c].todo = cmd[c].todo
    BY GotoStep DEF Inv, CheckImport, Pcs, Locked
  <1>3. TypeInv'
    BY <1>1, <1>2, IdleCommand DEF Inv, TypeInv, TypeOK, Suits, Values, Locked
  <1>4. LockInv'
    BY <1>1, <1>2 DEF Inv, TypeInv, LockInv, Locked
  <1>5. UseInv'
    BY <1>1, <1>2 DEF Inv, UseInv, InUse, HeldOnDisk, Kept
  <1>6. FreshInv'
    BY <1>1, <1>2 DEF Inv, FreshInv, FreshOf, MakesKey, InUse, At, Locked
  <1>7. KeyfileInv'
    BY <1>1, <1>2 DEF Inv, KeyfileInv, HeldOnDisk
  <1>8. PlanInv'
    BY <1>1, <1>2 DEF Inv, PlanInv, Working, At
  <1>9. RecipientInv'
    BY <1>1, <1>2 DEF Inv, RecipientInv, At
  <1>10. LatestValue'
    BY <1>1, <1>2 DEF Inv, LatestValue
  <1>11. ResumeInv'
    BY <1>1, <1>2 DEF Inv, ResumeInv, Available, Working, Rewritten, HeldOnDisk
  <1> QED
    BY <1>3, <1>4, <1>5, <1>6, <1>7, <1>8, <1>9, <1>10, <1>11 DEF Inv

\* A reader has the value, and goes on to the identities.
LEMMA ReadPlacePreserves ==
    ASSUME Inv, NEW c \in Commands, ReadPlace(c)
    PROVE  Inv'
  <1>1. /\ UNCHANGED <<recipient, stored, keyfile, env, born>>
        /\ UNCHANGED <<mine, givenUp, latest, orphans, unfinished>>
        /\ lock' = lock /\ cmd[c].pc = "read" /\ cmd[c].op = "get"
        /\ cmd[c].place \in Places /\ stored[cmd[c].place] \in Values
    BY DEF ReadPlace, At, Inv, TypeInv, TypeOK, Suits, Values, project, machine, history
  <1>2. /\ cmd' \in [Commands -> Command]
        /\ \A d \in Commands \ {c} : cmd'[d] = cmd[d]
        /\ cmd'[c].pc = "open" /\ cmd'[c].got = stored[cmd[c].place]
        /\ cmd'[c].op = "get" /\ cmd'[c].place = cmd[c].place
        /\ cmd'[c].seen = cmd[c].seen
    <2> DEFINE n == [[cmd[c] EXCEPT !.pc = "open"] EXCEPT !.got = stored[cmd[c].place]]
    <2>1. cmd' = [cmd EXCEPT ![c] = n] /\ cmd[c] \in Command
      BY DEF ReadPlace, Inv, TypeInv
    <2>2. /\ n \in Command /\ n.pc = "open" /\ n.got = stored[cmd[c].place]
          /\ n.op = cmd[c].op /\ n.place = cmd[c].place /\ n.seen = cmd[c].seen
      BY <1>1, <2>1 DEF Command, Pcs
    <2> HIDE DEF n
    <2> QED
      BY <1>1, <2>1, <2>2 DEF Inv, TypeInv
  <1>3. TypeInv'
    BY <1>1, <1>2, IdleCommand DEF Inv, TypeInv, TypeOK, Suits, Values, Locked
  <1>4. LockInv'
    BY <1>1, <1>2 DEF Inv, TypeInv, LockInv, Locked
  <1>5. UseInv'
    BY <1>1, <1>2 DEF Inv, UseInv, InUse, HeldOnDisk, Kept
  <1>6. FreshInv'
    BY <1>1, <1>2 DEF Inv, FreshInv, FreshOf, MakesKey, InUse, At, Locked
  <1>7. KeyfileInv'
    BY <1>1, <1>2 DEF Inv, KeyfileInv, HeldOnDisk
  <1>8. PlanInv'
    BY <1>1, <1>2 DEF Inv, PlanInv, Working, At
  <1>9. RecipientInv'
    BY <1>1, <1>2 DEF Inv, RecipientInv, At
  <1>10. LatestValue'
    BY <1>1, <1>2 DEF Inv, LatestValue
  <1>11. ResumeInv'
    BY <1>1, <1>2 DEF Inv, ResumeInv, Available, Working, Rewritten, HeldOnDisk
  <1> QED
    BY <1>3, <1>4, <1>5, <1>6, <1>7, <1>8, <1>9, <1>10, <1>11 DEF Inv

\* set writes its marker.
LEMMA WriteMarkerPreserves ==
    ASSUME Inv, NEW c \in Commands, WriteMarker(c)
    PROVE  Inv'
  <1>1. /\ cmd[c].pc = "work" /\ cmd[c].op = "set" /\ recipient \in Keys /\ lock = c
        /\ cmd[c].place \in Places /\ cmd[c].text \in Texts
    BY DEF WriteMarker, At, Inv, TypeInv, TypeOK, Suits, LockInv, Locked, Places
  <1>2. [to |-> recipient, text |-> cmd[c].text] \in Sealed \ {Junk}
    BY <1>1, SecretsAssumption DEF Sealed
  <1>3. /\ UNCHANGED <<recipient, keyfile, env, born, mine, givenUp, unfinished>>
        /\ stored' = [stored EXCEPT ![cmd[c].place] = [to |-> recipient, text |-> cmd[c].text]]
        /\ orphans' = orphans \ {cmd[c].place}
        /\ latest' = [latest EXCEPT ![cmd[c].place] = cmd[c].text]
    BY <1>2 DEF WriteMarker, Put, SealTo, machine
  <1>4. /\ cmd' \in [Commands -> Command]
        /\ \A d \in Commands \ {c} : cmd'[d] = cmd[d]
        /\ cmd'[c].pc = "idle" /\ cmd'[c].op = "none" /\ cmd'[c] = Idle
        /\ lock' = IF lock = c THEN None ELSE lock
    BY EndStep DEF Inv, WriteMarker
  <1>5. TypeInv'
    BY <1>1, <1>2, <1>3, <1>4, IdleCommand DEF Inv, TypeInv, TypeOK, Suits, Values, Locked,
       LockInv
  <1>6. LockInv'
    BY <1>1, <1>2, <1>3, <1>4, SecretsAssumption DEF Inv, TypeInv, LockInv, Locked, TypeOK
  <1>7. UseInv'
    BY <1>1, <1>2, <1>3, <1>4, SecretsAssumption DEF Inv, UseInv, InUse, HeldOnDisk, Kept,
       TypeInv, TypeOK, LockInv, Locked
  <1>8. FreshInv'
    BY <1>1, <1>2, <1>3, <1>4, SecretsAssumption DEF Inv, FreshInv, FreshOf, MakesKey,
       InUse, At, Locked, TypeInv, TypeOK, LockInv
  <1>9. KeyfileInv'
    BY <1>1, <1>2, <1>3, <1>4, SecretsAssumption DEF Inv, KeyfileInv, HeldOnDisk, TypeInv,
       TypeOK, LockInv, Locked
  <1>10. PlanInv'
    BY <1>1, <1>2, <1>3, <1>4, SecretsAssumption DEF Inv, PlanInv, Working, At, TypeInv,
       TypeOK, LockInv, Locked
  <1>11. RecipientInv'
    BY <1>1, <1>2, <1>3, <1>4, SecretsAssumption DEF Inv, RecipientInv, At, TypeInv, TypeOK,
       LockInv, Locked
  <1>12. LatestValue'
    BY <1>1, <1>2, <1>3, <1>4, SecretsAssumption DEF Inv, LatestValue, TypeInv, TypeOK,
       LockInv, Locked
  <1>13. ResumeInv'
    BY <1>1, <1>2, <1>3, <1>4, SecretsAssumption DEF Inv, ResumeInv, Available, Working,
       Rewritten, HeldOnDisk, TypeInv, TypeOK, LockInv, Locked
  <1> QED
    BY <1>5, <1>6, <1>7, <1>8, <1>9, <1>10, <1>11, <1>12, <1>13 DEF Inv

\* encrypt fills the file it has opened.
LEMMA FillOutputPreserves ==
    ASSUME Inv, NEW c \in Commands, FillOutput(c)
    PROVE  Inv'
  <1>1. /\ cmd[c].pc = "fill" /\ cmd[c].op = "encrypt" /\ recipient \in Keys /\ lock = c
        /\ cmd[c].place \in Places /\ cmd[c].text \in Texts
    BY DEF FillOutput, At, Inv, TypeInv, TypeOK, Suits, LockInv, Locked, Places
  <1>2. [to |-> recipient, text |-> cmd[c].text] \in Sealed \ {Junk}
    BY <1>1, SecretsAssumption DEF Sealed
  <1>3. /\ UNCHANGED <<recipient, keyfile, env, born, mine, givenUp, unfinished>>
        /\ stored' = [stored EXCEPT ![cmd[c].place] = [to |-> recipient, text |-> cmd[c].text]]
        /\ orphans' = orphans \ {cmd[c].place}
        /\ latest' = [latest EXCEPT ![cmd[c].place] = cmd[c].text]
    BY <1>2 DEF FillOutput, Put, SealTo, machine
  <1>4. /\ cmd' \in [Commands -> Command]
        /\ \A d \in Commands \ {c} : cmd'[d] = cmd[d]
        /\ cmd'[c].pc = "idle" /\ cmd'[c].op = "none" /\ cmd'[c] = Idle
        /\ lock' = IF lock = c THEN None ELSE lock
    BY EndStep DEF Inv, FillOutput
  <1>5. TypeInv'
    BY <1>1, <1>2, <1>3, <1>4, IdleCommand DEF Inv, TypeInv, TypeOK, Suits, Values, Locked,
       LockInv
  <1>6. LockInv'
    BY <1>1, <1>2, <1>3, <1>4, SecretsAssumption DEF Inv, TypeInv, LockInv, Locked, TypeOK
  <1>7. UseInv'
    BY <1>1, <1>2, <1>3, <1>4, SecretsAssumption DEF Inv, UseInv, InUse, HeldOnDisk, Kept,
       TypeInv, TypeOK, LockInv, Locked
  <1>8. FreshInv'
    BY <1>1, <1>2, <1>3, <1>4, SecretsAssumption DEF Inv, FreshInv, FreshOf, MakesKey,
       InUse, At, Locked, TypeInv, TypeOK, LockInv
  <1>9. KeyfileInv'
    BY <1>1, <1>2, <1>3, <1>4, SecretsAssumption DEF Inv, KeyfileInv, HeldOnDisk, TypeInv,
       TypeOK, LockInv, Locked
  <1>10. PlanInv'
    BY <1>1, <1>2, <1>3, <1>4, SecretsAssumption DEF Inv, PlanInv, Working, At, TypeInv,
       TypeOK, LockInv, Locked
  <1>11. RecipientInv'
    BY <1>1, <1>2, <1>3, <1>4, SecretsAssumption DEF Inv, RecipientInv, At, TypeInv, TypeOK,
       LockInv, Locked
  <1>12. LatestValue'
    BY <1>1, <1>2, <1>3, <1>4, SecretsAssumption DEF Inv, LatestValue, TypeInv, TypeOK,
       LockInv, Locked
  <1>13. ResumeInv'
    BY <1>1, <1>2, <1>3, <1>4, SecretsAssumption DEF Inv, ResumeInv, Available, Working,
       Rewritten, HeldOnDisk, TypeInv, TypeOK, LockInv, Locked
  <1> QED
    BY <1>5, <1>6, <1>7, <1>8, <1>9, <1>10, <1>11, <1>12, <1>13 DEF Inv

\* encrypt truncates the file it will fill.
LEMMA OpenOutputPreserves ==
    ASSUME Inv, NEW c \in Commands, OpenOutput(c)
    PROVE  Inv'
  <1>1. /\ cmd[c].pc = "work" /\ cmd[c].op = "encrypt" /\ recipient \in Keys /\ lock = c
        /\ cmd[c].place \in Places
    BY DEF OpenOutput, EncryptAllowed, At, Inv, TypeInv, TypeOK, Suits, LockInv, Places
  <1>2. /\ UNCHANGED <<recipient, keyfile, env, born, mine, givenUp, unfinished>>
        /\ stored' = [stored EXCEPT ![cmd[c].place] = Junk] /\ Junk \notin Sealed
        /\ orphans' = orphans \ {cmd[c].place}
        /\ latest' = [latest EXCEPT ![cmd[c].place] = None]
    BY SecretsAssumption DEF OpenOutput, Put, machine, Sealed
  <1>3. /\ cmd' \in [Commands -> Command]
        /\ \A d \in Commands \ {c} : cmd'[d] = cmd[d]
        /\ cmd'[c].pc = "fill" /\ lock' = lock
        /\ cmd'[c].op = cmd[c].op /\ cmd'[c].place = cmd[c].place
        /\ cmd'[c].text = cmd[c].text /\ cmd'[c].key = cmd[c].key
        /\ cmd'[c].seen = cmd[c].seen /\ cmd'[c].got = cmd[c].got
        /\ cmd'[c].todo = cmd[c].todo
    BY GotoStep DEF Inv, OpenOutput, Pcs, Locked
  <1>4. TypeInv'
    <2>1. TypeOK'
      BY <1>1, <1>2, <1>3, IdleCommand, SecretsAssumption DEF Inv, TypeInv, TypeOK, Suits
    <2>2. \A d \in Commands \ {c} : Suits(cmd[d])'
      BY <1>1, <1>2, <1>3, SecretsAssumption DEF Inv, TypeInv, Suits, Values
    <2>3. Suits(cmd[c])'
      BY <1>1, <1>2, <1>3, SecretsAssumption DEF Inv, TypeInv, TypeOK, Suits, Values, Locked
    <2>4. /\ latest' \in [Places -> Texts \cup {None}]
          /\ cmd' \in [Commands -> Command]
      BY <1>1, <1>2, <1>3 DEF Inv, TypeInv
    <2> QED
      BY <2>1, <2>2, <2>3, <2>4 DEF TypeInv
  <1>5. LockInv'
    BY <1>1, <1>2, <1>3, SecretsAssumption DEF Inv, TypeInv, LockInv, Locked, TypeOK
  <1>6. UseInv'
    BY <1>1, <1>2, <1>3, SecretsAssumption DEF Inv, UseInv, InUse, HeldOnDisk, Kept,
       TypeInv, TypeOK, LockInv, Locked
  <1>7. FreshInv'
    BY <1>1, <1>2, <1>3, SecretsAssumption DEF Inv, FreshInv, FreshOf, MakesKey, InUse, At,
       Locked, TypeInv, TypeOK, LockInv
  <1>8. KeyfileInv'
    BY <1>1, <1>2, <1>3, SecretsAssumption DEF Inv, KeyfileInv, HeldOnDisk, TypeInv, TypeOK,
       LockInv, Locked
  <1>9. PlanInv'
    BY <1>1, <1>2, <1>3, SecretsAssumption DEF Inv, PlanInv, Working, At, TypeInv, TypeOK,
       LockInv, Locked
  <1>10. RecipientInv'
    BY <1>1, <1>2, <1>3, SecretsAssumption DEF Inv, RecipientInv, At, TypeInv, TypeOK,
       LockInv, Locked
  <1>11. LatestValue'
    BY <1>1, <1>2, <1>3, SecretsAssumption DEF Inv, LatestValue, TypeInv, TypeOK, LockInv,
       Locked
  <1>12. ResumeInv'
    BY <1>1, <1>2, <1>3, SecretsAssumption DEF Inv, ResumeInv, Available, Working,
       Rewritten, HeldOnDisk, TypeInv, TypeOK, LockInv, Locked
  <1> QED
    BY <1>4, <1>5, <1>6, <1>7, <1>8, <1>9, <1>10, <1>11, <1>12 DEF Inv

\* init is about to create its keyfile.
LEMMA CheckInitPreserves ==
    ASSUME Inv, NEW c \in Commands, CheckInit(c)
    PROVE  Inv'
  <1>1. /\ UNCHANGED <<recipient, stored, keyfile, env>>
        /\ UNCHANGED <<born, givenUp, latest, orphans, unfinished>>
        /\ cmd[c].pc = "work" /\ cmd[c].op = "init" /\ lock = c
        /\ mine' = mine \cup {cmd[c].key}
    BY DEF CheckInit, At, Inv, LockInv, project, machine
  <1>2. /\ cmd' \in [Commands -> Command]
        /\ \A d \in Commands \ {c} : cmd'[d] = cmd[d]
        /\ cmd'[c].pc = "create" /\ lock' = lock
        /\ cmd'[c].op = cmd[c].op /\ cmd'[c].place = cmd[c].place
        /\ cmd'[c].text = cmd[c].text /\ cmd'[c].key = cmd[c].key
        /\ cmd'[c].seen = cmd[c].seen /\ cmd'[c].got = cmd[c].got
        /\ cmd'[c].todo = cmd[c].todo
    BY GotoStep DEF Inv, CheckInit, Pcs, Locked
  <1>3. TypeInv'
    BY <1>1, <1>2, IdleCommand DEF Inv, TypeInv, TypeOK, Suits, Values, Locked
  <1>4. LockInv'
    BY <1>1, <1>2 DEF Inv, TypeInv, LockInv, Locked
  <1>5. UseInv'
    BY <1>1, <1>2 DEF Inv, UseInv, InUse, HeldOnDisk, Kept, FreshInv, FreshOf, MakesKey, At,
       TypeInv, TypeOK, Suits
  <1>6. FreshInv'
    BY <1>1, <1>2 DEF Inv, FreshInv, FreshOf, MakesKey, InUse, At, Locked
  <1>7. KeyfileInv'
    BY <1>1, <1>2 DEF Inv, KeyfileInv, HeldOnDisk
  <1>8. PlanInv'
    BY <1>1, <1>2 DEF Inv, PlanInv, Working, At
  <1>9. RecipientInv'
    BY <1>1, <1>2 DEF Inv, RecipientInv, At
  <1>10. LatestValue'
    BY <1>1, <1>2 DEF Inv, LatestValue
  <1>11. ResumeInv'
    BY <1>1, <1>2 DEF Inv, ResumeInv, Available, Working, Rewritten, HeldOnDisk
  <1> QED
    BY <1>3, <1>4, <1>5, <1>6, <1>7, <1>8, <1>9, <1>10, <1>11 DEF Inv

\* rekey has its plan.
LEMMA PlanRekeyPreserves ==
    ASSUME Inv, NEW c \in Commands, PlanRekey(c)
    PROVE  Inv'
  <1>1. /\ UNCHANGED <<recipient, stored, keyfile, env>>
        /\ UNCHANGED <<born, givenUp, latest, orphans, unfinished>>
        /\ cmd[c].pc = "work" /\ cmd[c].op = "rekey" /\ lock = c /\ lock' = lock
        /\ mine' = mine \cup {cmd[c].key}
        /\ recipient # None /\ Surface \subseteq Readable(recipient)
    BY DEF PlanRekey, PlanPossible, At, Inv, LockInv, project, machine
  <1>2. /\ cmd' \in [Commands -> Command]
        /\ \A d \in Commands \ {c} : cmd'[d] = cmd[d]
        /\ cmd'[c].pc = "create" /\ cmd'[c].got = stored
        /\ cmd'[c].todo = Readable(recipient)
        /\ cmd'[c].op = "rekey" /\ cmd'[c].key = cmd[c].key
    <2> DEFINE n == [[[cmd[c] EXCEPT !.pc = "create"] EXCEPT !.got = stored]
                        EXCEPT !.todo = Readable(recipient)]
    <2>1. cmd' = [cmd EXCEPT ![c] = n] /\ cmd[c] \in Command
      BY DEF PlanRekey, Inv, TypeInv
    <2>2. stored \in [Places -> Values] /\ Readable(recipient) \in SUBSET Places
      BY DEF Inv, TypeInv, TypeOK, Values, Readable
    <2>3. /\ n \in Command /\ n.pc = "create" /\ n.got = stored
          /\ n.todo = Readable(recipient) /\ n.op = cmd[c].op /\ n.key = cmd[c].key
      BY <2>1, <2>2 DEF Command, Pcs, Locked
    <2> HIDE DEF n
    <2> QED
      BY <1>1, <2>1, <2>3 DEF Inv, TypeInv
  <1>3. /\ recipient \in Keys
        /\ \A p \in Places : stored[p] # None => p \in cmd'[c].todo
        /\ \A p \in cmd'[c].todo : stored[p] \in Sealed
        /\ \A p \in cmd'[c].todo : stored[p].to = recipient => Available(recipient)
    BY <1>1, <1>2, CanOpenOwn, SecretsAssumption DEF Surface, Readable, Opens, Inv, TypeInv,
       TypeOK, Sealed
  <1>4. /\ \A d \in Commands \ {c} : ~Working(d)'
        /\ Rewritten(c)' = {}
    BY <1>1, <1>2 DEF Inv, LockInv, Locked, FreshInv, FreshOf, MakesKey, InUse, At, Working,
       Rewritten
  <1>5. TypeInv'
    <2>1. TypeOK'
      BY <1>1, <1>2, <1>3, <1>4, IdleCommand, SecretsAssumption DEF Inv, TypeInv, TypeOK,
         Suits
    <2>2. \A d \in Commands \ {c} : Suits(cmd[d])'
      BY <1>1, <1>2, <1>3, <1>4, SecretsAssumption DEF Inv, TypeInv, Suits, Values
    <2>3. Suits(cmd[c])'
      BY <1>1, <1>2, <1>3, <1>4, SecretsAssumption DEF Inv, TypeInv, TypeOK, Suits, Values,
         Locked
    <2>4. /\ latest' \in [Places -> Texts \cup {None}]
          /\ cmd' \in [Commands -> Command]
      BY <1>1, <1>2, <1>3, <1>4 DEF Inv, TypeInv
    <2> QED
      BY <2>1, <2>2, <2>3, <2>4 DEF TypeInv
  <1>6. LockInv'
    BY <1>1, <1>2, <1>3, <1>4 DEF Inv, TypeInv, LockInv, Locked
  <1>7. UseInv'
    BY <1>1, <1>2, <1>3, <1>4 DEF Inv, UseInv, InUse, HeldOnDisk, Kept, FreshInv, FreshOf,
       MakesKey, At, TypeInv, TypeOK, Suits
  <1>8. FreshInv'
    BY <1>1, <1>2, <1>3, <1>4 DEF Inv, FreshInv, FreshOf, MakesKey, InUse, At, Locked
  <1>9. KeyfileInv'
    BY <1>1, <1>2, <1>3, <1>4 DEF Inv, KeyfileInv, HeldOnDisk
  <1>10. PlanInv'
    BY <1>1, <1>2, <1>3, <1>4 DEF Inv, PlanInv, Working, At
  <1>11. RecipientInv'
    BY <1>1, <1>2, <1>3, <1>4 DEF Inv, RecipientInv, At
  <1>12. LatestValue'
    BY <1>1, <1>2, <1>3, <1>4 DEF Inv, LatestValue
  <1>13. ResumeInv'
    BY <1>1, <1>2, <1>3, <1>4 DEF Inv, ResumeInv, Available, Working, Rewritten, HeldOnDisk
  <1> QED
    BY <1>5, <1>6, <1>7, <1>8, <1>9, <1>10, <1>11, <1>12, <1>13 DEF Inv

\* A keyfile is created, still empty.
LEMMA CreateKeyfilePreserves ==
    ASSUME Inv, NEW c \in Commands, CreateKeyfile(c), CreatePossible(c)
    PROVE  Inv'
  <1>1. /\ UNCHANGED <<recipient, stored, env, born>>
        /\ UNCHANGED <<mine, givenUp, latest, orphans, unfinished>>
        /\ cmd[c].pc = "create" /\ lock = c
        /\ cmd[c].op \in {"init", "rekey", "import"}
        /\ keyfile[cmd[c].key] = None /\ cmd[c].key \in Keys
        /\ keyfile' = [keyfile EXCEPT ![cmd[c].key] = Junk]
    BY DEF CreateKeyfile, CreatePossible, Inv, TypeInv, TypeOK, Suits, LockInv, Locked,
       project, history
  <1>2. /\ cmd' \in [Commands -> Command]
        /\ \A d \in Commands \ {c} : cmd'[d] = cmd[d]
        /\ cmd'[c].pc = "key" /\ lock' = lock
        /\ cmd'[c].op = cmd[c].op /\ cmd'[c].place = cmd[c].place
        /\ cmd'[c].text = cmd[c].text /\ cmd'[c].key = cmd[c].key
        /\ cmd'[c].seen = cmd[c].seen /\ cmd'[c].got = cmd[c].got
        /\ cmd'[c].todo = cmd[c].todo
    BY GotoStep DEF Inv, CreateKeyfile, Pcs, Locked
  <1>3. HeldOnDisk' = HeldOnDisk
    BY <1>1, SecretsAssumption DEF HeldOnDisk, Inv, TypeInv, TypeOK, Identities
  <1>4. TypeInv'
    <2>1. TypeOK'
      BY <1>1, <1>2, <1>3, IdleCommand, SecretsAssumption DEF Inv, TypeInv, TypeOK, Suits
    <2>2. \A d \in Commands \ {c} : Suits(cmd[d])'
      BY <1>1, <1>2, <1>3, SecretsAssumption DEF Inv, TypeInv, Suits, Values
    <2>3. Suits(cmd[c])'
      BY <1>1, <1>2, <1>3, SecretsAssumption DEF Inv, TypeInv, TypeOK, Suits, Values, Locked
    <2>4. /\ latest' \in [Places -> Texts \cup {None}]
          /\ cmd' \in [Commands -> Command]
      BY <1>1, <1>2, <1>3 DEF Inv, TypeInv
    <2> QED
      BY <2>1, <2>2, <2>3, <2>4 DEF TypeInv
  <1>5. LockInv'
    BY <1>1, <1>2, <1>3 DEF Inv, TypeInv, LockInv, Locked
  <1>6. UseInv'
    BY <1>1, <1>2, <1>3 DEF Inv, UseInv, InUse, HeldOnDisk, Kept
  <1>7. FreshInv'
    BY <1>1, <1>2, <1>3 DEF Inv, FreshInv, FreshOf, MakesKey, InUse, At, Locked
  <1>8. KeyfileInv'
    BY <1>1, <1>2, <1>3, SecretsAssumption DEF Inv, KeyfileInv, TypeInv, TypeOK, LockInv,
       Locked, Identities
  <1>9. PlanInv'
    BY <1>1, <1>2, <1>3 DEF Inv, PlanInv, Working, At
  <1>10. RecipientInv'
    BY <1>1, <1>2, <1>3 DEF Inv, RecipientInv, At
  <1>11. LatestValue'
    BY <1>1, <1>2, <1>3 DEF Inv, LatestValue
  <1>12. ResumeInv'
    BY <1>1, <1>2, <1>3 DEF Inv, ResumeInv, Available, Working, Rewritten, HeldOnDisk
  <1> QED
    BY <1>4, <1>5, <1>6, <1>7, <1>8, <1>9, <1>10, <1>11, <1>12 DEF Inv

\* An import has written its keyfile.
LEMMA FillImportPreserves ==
    ASSUME Inv, NEW c \in Commands, FillKeyfile(c), cmd[c].op = "import"
    PROVE  Inv'
  <1>1. /\ UNCHANGED <<recipient, stored, env, born, givenUp, latest, orphans, unfinished>>
        /\ cmd[c].pc = "key" /\ lock = c /\ cmd[c].key \in Keys
        /\ keyfile' = IF keyfile[cmd[c].key] = Junk
                     THEN [keyfile EXCEPT ![cmd[c].key] = cmd[c].key]
                     ELSE keyfile
        /\ mine' = mine \cup {cmd[c].key}
    BY DEF FillKeyfile, Inv, TypeInv, TypeOK, Suits, LockInv, Locked, project
  <1>2. /\ cmd' \in [Commands -> Command]
        /\ \A d \in Commands \ {c} : cmd'[d] = cmd[d]
        /\ cmd'[c].pc = "idle" /\ cmd'[c].op = "none" /\ cmd'[c] = Idle
        /\ lock' = IF lock = c THEN None ELSE lock
    BY EndStep DEF Inv, FillKeyfile, AfterKeyfile
  <1>3. /\ HeldOnDisk \subseteq HeldOnDisk'
        /\ cmd[c].key \in HeldOnDisk' \/ cmd[c].key \in givenUp
    BY <1>1, SecretsAssumption DEF HeldOnDisk, KeyfileInv, Inv, TypeInv, TypeOK, Identities
  <1>4. TypeInv'
    BY <1>1, <1>2, <1>3, IdleCommand, ZenonT(40) DEF Inv, TypeInv, TypeOK, Suits, Values,
       Locked
  <1>5. LockInv'
    BY <1>1, <1>2, <1>3 DEF Inv, TypeInv, LockInv, Locked
  <1>6. UseInv'
    BY <1>1, <1>2, <1>3 DEF Inv, UseInv, InUse, Kept, TypeInv, TypeOK, Suits
  <1>7. FreshInv'
    BY <1>1, <1>2, <1>3 DEF Inv, FreshInv, FreshOf, MakesKey, InUse, At, Locked
  <1>8. KeyfileInv'
    BY <1>1, <1>2, <1>3, SecretsAssumption DEF Inv, KeyfileInv, TypeInv, TypeOK, LockInv,
       Locked, Identities
  <1>9. PlanInv'
    BY <1>1, <1>2, <1>3 DEF Inv, PlanInv, Working, At
  <1>10. RecipientInv'
    BY <1>1, <1>2, <1>3 DEF Inv, RecipientInv, At
  <1>11. LatestValue'
    BY <1>1, <1>2, <1>3 DEF Inv, LatestValue
  <1>12. ResumeInv'
    BY <1>1, <1>2, <1>3 DEF Inv, ResumeInv, Available, Working, Rewritten, HeldOnDisk
  <1> QED
    BY <1>4, <1>5, <1>6, <1>7, <1>8, <1>9, <1>10, <1>11, <1>12 DEF Inv

\* init has written its keyfile.
LEMMA FillInitPreserves ==
    ASSUME Inv, NEW c \in Commands, FillKeyfile(c), cmd[c].op = "init"
    PROVE  Inv'
  <1>1. /\ UNCHANGED <<recipient, stored, env, born, givenUp, latest, orphans, unfinished>>
        /\ cmd[c].pc = "key" /\ lock = c /\ cmd[c].key \in Keys
        /\ keyfile' = IF keyfile[cmd[c].key] = Junk
                     THEN [keyfile EXCEPT ![cmd[c].key] = cmd[c].key]
                     ELSE keyfile
        /\ mine' = mine \cup {cmd[c].key}
    BY DEF FillKeyfile, Inv, TypeInv, TypeOK, Suits, LockInv, Locked, project
  <1>2. /\ cmd' \in [Commands -> Command]
        /\ \A d \in Commands \ {c} : cmd'[d] = cmd[d]
        /\ cmd'[c].pc = "commit" /\ lock' = lock
        /\ cmd'[c].op = cmd[c].op /\ cmd'[c].place = cmd[c].place
        /\ cmd'[c].text = cmd[c].text /\ cmd'[c].key = cmd[c].key
        /\ cmd'[c].seen = cmd[c].seen /\ cmd'[c].got = cmd[c].got
        /\ cmd'[c].todo = cmd[c].todo
    BY GotoStep DEF Inv, FillKeyfile, AfterKeyfile, Pcs, Locked
  <1>3. /\ HeldOnDisk \subseteq HeldOnDisk'
        /\ cmd[c].key \in HeldOnDisk' \/ cmd[c].key \in givenUp
    BY <1>1, SecretsAssumption DEF HeldOnDisk, KeyfileInv, Inv, TypeInv, TypeOK, Identities
  <1>4. TypeInv'
    <2>1. TypeOK'
      BY <1>1, <1>2, <1>3, IdleCommand, SecretsAssumption, ZenonT(40) DEF Inv, TypeInv,
         TypeOK, Suits
    <2>2. \A d \in Commands \ {c} : Suits(cmd[d])'
      BY <1>1, <1>2, <1>3, SecretsAssumption DEF Inv, TypeInv, Suits, Values
    <2>3. Suits(cmd[c])'
      BY <1>1, <1>2, <1>3, SecretsAssumption DEF Inv, TypeInv, TypeOK, Suits, Values, Locked
    <2>4. /\ latest' \in [Places -> Texts \cup {None}]
          /\ cmd' \in [Commands -> Command]
      BY <1>1, <1>2, <1>3 DEF Inv, TypeInv
    <2> QED
      BY <2>1, <2>2, <2>3, <2>4 DEF TypeInv
  <1>5. LockInv'
    BY <1>1, <1>2, <1>3 DEF Inv, TypeInv, LockInv, Locked
  <1>6. UseInv'
    BY <1>1, <1>2, <1>3 DEF Inv, UseInv, InUse, Kept, TypeInv, TypeOK, Suits
  <1>7. FreshInv'
    BY <1>1, <1>2, <1>3 DEF Inv, FreshInv, FreshOf, MakesKey, InUse, At, Locked
  <1>8. KeyfileInv'
    BY <1>1, <1>2, <1>3, SecretsAssumption DEF Inv, KeyfileInv, TypeInv, TypeOK, LockInv,
       Locked, Identities
  <1>9. PlanInv'
    BY <1>1, <1>2, <1>3 DEF Inv, PlanInv, Working, At
  <1>10. RecipientInv'
    BY <1>1, <1>2, <1>3 DEF Inv, RecipientInv, At
  <1>11. LatestValue'
    BY <1>1, <1>2, <1>3 DEF Inv, LatestValue
  <1>12. ResumeInv'
    BY <1>1, <1>2, <1>3 DEF Inv, ResumeInv, Available, Working, Rewritten, HeldOnDisk
  <1> QED
    BY <1>4, <1>5, <1>6, <1>7, <1>8, <1>9, <1>10, <1>11, <1>12 DEF Inv

\* rekey has written its keyfile.
LEMMA FillRekeyPreserves ==
    ASSUME Inv, NEW c \in Commands, FillKeyfile(c), cmd[c].op = "rekey"
    PROVE  Inv'
  <1>1. /\ UNCHANGED <<recipient, stored, env, born, givenUp, latest, orphans, unfinished>>
        /\ cmd[c].pc = "key" /\ lock = c /\ cmd[c].key \in Keys
        /\ keyfile' = IF keyfile[cmd[c].key] = Junk
                     THEN [keyfile EXCEPT ![cmd[c].key] = cmd[c].key]
                     ELSE keyfile
        /\ mine' = mine \cup {cmd[c].key}
    BY DEF FillKeyfile, Inv, TypeInv, TypeOK, Suits, LockInv, Locked, project
  <1>2. /\ cmd' \in [Commands -> Command]
        /\ \A d \in Commands \ {c} : cmd'[d] = cmd[d]
        /\ cmd'[c].pc = "rewrite" /\ lock' = lock
        /\ cmd'[c].op = cmd[c].op /\ cmd'[c].place = cmd[c].place
        /\ cmd'[c].text = cmd[c].text /\ cmd'[c].key = cmd[c].key
        /\ cmd'[c].seen = cmd[c].seen /\ cmd'[c].got = cmd[c].got
        /\ cmd'[c].todo = cmd[c].todo
    BY GotoStep DEF Inv, FillKeyfile, AfterKeyfile, Pcs, Locked
  <1>3. /\ HeldOnDisk \subseteq HeldOnDisk'
        /\ cmd[c].key \in HeldOnDisk' \/ cmd[c].key \in givenUp
    BY <1>1, SecretsAssumption DEF HeldOnDisk, KeyfileInv, Inv, TypeInv, TypeOK, Identities
  <1>4. TypeInv'
    <2>1. TypeOK'
      BY <1>1, <1>2, <1>3, IdleCommand, SecretsAssumption, ZenonT(40) DEF Inv, TypeInv,
         TypeOK, Suits
    <2>2. \A d \in Commands \ {c} : Suits(cmd[d])'
      BY <1>1, <1>2, <1>3, SecretsAssumption DEF Inv, TypeInv, Suits, Values
    <2>3. Suits(cmd[c])'
      BY <1>1, <1>2, <1>3, SecretsAssumption DEF Inv, TypeInv, TypeOK, Suits, Values, Locked
    <2>4. /\ latest' \in [Places -> Texts \cup {None}]
          /\ cmd' \in [Commands -> Command]
      BY <1>1, <1>2, <1>3 DEF Inv, TypeInv
    <2> QED
      BY <2>1, <2>2, <2>3, <2>4 DEF TypeInv
  <1>5. LockInv'
    BY <1>1, <1>2, <1>3 DEF Inv, TypeInv, LockInv, Locked
  <1>6. UseInv'
    BY <1>1, <1>2, <1>3 DEF Inv, UseInv, InUse, Kept, TypeInv, TypeOK, Suits
  <1>7. FreshInv'
    BY <1>1, <1>2, <1>3 DEF Inv, FreshInv, FreshOf, MakesKey, InUse, At, Locked
  <1>8. KeyfileInv'
    BY <1>1, <1>2, <1>3, SecretsAssumption DEF Inv, KeyfileInv, TypeInv, TypeOK, LockInv,
       Locked, Identities
  <1>9. PlanInv'
    BY <1>1, <1>2, <1>3 DEF Inv, PlanInv, Working, At
  <1>10. RecipientInv'
    BY <1>1, <1>2, <1>3 DEF Inv, RecipientInv, At
  <1>11. LatestValue'
    BY <1>1, <1>2, <1>3 DEF Inv, LatestValue
  <1>12. ResumeInv'
    BY <1>1, <1>2, <1>3 DEF Inv, ResumeInv, Available, Working, Rewritten, HeldOnDisk
  <1> QED
    BY <1>4, <1>5, <1>6, <1>7, <1>8, <1>9, <1>10, <1>11, <1>12 DEF Inv

\* rekey replaces one file.
LEMMA RewritePreserves ==
    ASSUME Inv, NEW c \in Commands, Rewrite(c)
    PROVE  Inv'
  <1>1. PICK p \in cmd[c].todo :
        /\ At(c, "rekey", "rewrite")
        /\ stored' = [stored EXCEPT ![p] = [to |-> cmd[c].key, text |-> cmd[c].got[p].text]]
        /\ cmd' = [cmd EXCEPT ![c].todo = @ \ {p}]
        /\ UNCHANGED <<recipient, machine, lock, history, started, faults>>
    BY DEF Rewrite
  <1>2. /\ UNCHANGED <<recipient, keyfile, env, born, mine>>
        /\ UNCHANGED <<givenUp, latest, orphans, unfinished>>
        /\ cmd[c].pc = "rewrite" /\ cmd[c].op = "rekey" /\ lock = c /\ lock' = lock
        /\ recipient # None /\ cmd[c].key \in Keys /\ cmd[c].key # recipient
        /\ cmd[c].key \in mine
        /\ p \in Places /\ stored[p] \in Sealed /\ stored[p] = cmd[c].got[p]
    BY <1>1 DEF At, Inv, TypeInv, TypeOK, Command, Suits, LockInv, Locked, FreshInv,
       FreshOf, MakesKey, PlanInv, Working, machine, history
  <1>3. /\ stored' = [stored EXCEPT ![p] = [to |-> cmd[c].key, text |-> stored[p].text]]
        /\ [to |-> cmd[c].key, text |-> stored[p].text] \in Sealed
    BY <1>1, <1>2 DEF Sealed
  <1>4. cmd' = [cmd EXCEPT ![c] = [cmd[c] EXCEPT !.todo = cmd[c].todo \ {p}]]
    BY <1>1 DEF Inv, TypeInv
  <1>5. /\ cmd' \in [Commands -> Command]
        /\ \A d \in Commands \ {c} : cmd'[d] = cmd[d]
        /\ cmd'[c].todo = cmd[c].todo \ {p} /\ cmd'[c].pc = "rewrite"
        /\ cmd'[c].op = "rekey" /\ cmd'[c].key = cmd[c].key /\ cmd'[c].got = cmd[c].got
    BY <1>2, <1>4, NewTodo DEF Inv, TypeInv, Command
  <1>6. \A d \in Commands \ {c} : ~(cmd[d].pc \in Locked) /\ ~Working(d) /\ ~Working(d)'
    BY <1>2, <1>5 DEF Inv, LockInv, Locked, Working
  <1>7. givenUp = {} => Available(recipient)
    <2>1. CASE unfinished
      BY <2>1 DEF Inv, ResumeInv
    <2>2. CASE p \in orphans
      BY <1>2, <2>2 DEF Inv, ResumeInv, UseInv, InUse, Kept, Available, TypeInv, TypeOK
    <2>3. CASE stored[p].to = recipient
      BY <1>1, <1>2, <2>3 DEF Inv, ResumeInv, Working
    <2>4. CASE \E d \in Commands : At(d, "rekey", "rewrite") /\ stored[p].to = cmd[d].key
      BY <1>1, <1>2, <1>6, <2>4 DEF Inv, ResumeInv, Working, Rewritten, At, Locked
    <2> QED
      BY <1>2, <2>1, <2>2, <2>3, <2>4 DEF Inv, RecipientInv
  <1>8. TypeInv'
    BY <1>1, <1>2, <1>3, <1>4, <1>5, <1>6, <1>7, IdleCommand DEF Inv, TypeInv, TypeOK,
       Suits, Values, Locked, Command
  <1>9. LockInv'
    BY <1>1, <1>2, <1>3, <1>4, <1>5, <1>6, <1>7 DEF Inv, TypeInv, LockInv, Locked
  <1>10. UseInv'
    BY <1>1, <1>2, <1>3, <1>4, <1>5, <1>6, <1>7, SecretsAssumption DEF Inv, UseInv, InUse,
       HeldOnDisk, Kept, TypeInv, TypeOK, Suits, KeyfileInv
  <1>11. FreshInv'
    BY <1>1, <1>2, <1>3, <1>4, <1>5, <1>6, <1>7 DEF Inv, FreshInv, FreshOf, MakesKey, InUse,
       At, Locked
  <1>12. KeyfileInv'
    BY <1>1, <1>2, <1>3, <1>4, <1>5, <1>6, <1>7 DEF Inv, KeyfileInv, HeldOnDisk
  <1>13. PlanInv'
    BY <1>1, <1>2, <1>3, <1>4, <1>5, <1>6, <1>7 DEF Inv, PlanInv, Working, At, TypeInv,
       TypeOK
  <1>14. RecipientInv'
    BY <1>1, <1>2, <1>3, <1>4, <1>5, <1>6, <1>7 DEF Inv, RecipientInv, At
  <1>15. LatestValue'
    BY <1>1, <1>2, <1>3, <1>4, <1>5, <1>6, <1>7 DEF Inv, LatestValue
  <1>16. ResumeInv'
    BY <1>1, <1>2, <1>3, <1>4, <1>5, <1>6, <1>7 DEF Inv, ResumeInv, Available, Working,
       Rewritten, HeldOnDisk, TypeInv, TypeOK
  <1> QED
    BY <1>8, <1>9, <1>10, <1>11, <1>12, <1>13, <1>14, <1>15, <1>16 DEF Inv

\* init commits its recipient.
LEMMA CommitInitPreserves ==
    ASSUME Inv, NEW c \in Commands, CommitRecipient(c), cmd[c].op = "init"
    PROVE  Inv'
  <1>1. /\ UNCHANGED <<stored, keyfile, env>>
        /\ UNCHANGED <<born, mine, givenUp, latest>>
        /\ cmd[c].pc = "commit" /\ lock = c /\ cmd[c].key \in mine /\ cmd[c].key \in Keys
        /\ recipient' = cmd[c].key /\ orphans' = Surface
        /\ unfinished' = unfinished
    BY DEF CommitRecipient, RecipientReady, At, Inv, TypeInv, TypeOK, Suits, LockInv,
       FreshInv, FreshOf, MakesKey, Locked, machine
  <1>2. /\ cmd' \in [Commands -> Command]
        /\ \A d \in Commands \ {c} : cmd'[d] = cmd[d]
        /\ cmd'[c].pc = "idle" /\ cmd'[c].op = "none" /\ cmd'[c] = Idle
        /\ lock' = IF lock = c THEN None ELSE lock
    BY EndStep DEF Inv, CommitRecipient
  <1>3. TypeInv'
    BY <1>1, <1>2, IdleCommand, SecretsAssumption DEF Inv, TypeInv, TypeOK, Suits, Values,
       Locked, Surface
  <1>4. LockInv'
    BY <1>1, <1>2 DEF Inv, TypeInv, LockInv, Locked
  <1>5. UseInv'
    BY <1>1, <1>2 DEF Inv, UseInv, InUse, HeldOnDisk, Kept, KeyfileInv, TypeInv, TypeOK,
       Suits
  <1>6. FreshInv'
    BY <1>1, <1>2 DEF Inv, FreshInv, FreshOf, MakesKey, InUse, At, Locked
  <1>7. KeyfileInv'
    BY <1>1, <1>2 DEF Inv, KeyfileInv, HeldOnDisk
  <1>8. PlanInv'
    BY <1>1, <1>2 DEF Inv, PlanInv, Working, At, LockInv, Locked
  <1>9. RecipientInv'
    BY <1>1, <1>2, SecretsAssumption DEF Inv, RecipientInv, At, Surface, LockInv, Locked,
       Sealed
  <1>10. LatestValue'
    BY <1>1, <1>2 DEF Inv, LatestValue
  <1>11. ResumeInv'
    BY <1>1, <1>2, SecretsAssumption DEF Inv, ResumeInv, Available, Working, Rewritten,
       HeldOnDisk, Surface, Sealed, KeyfileInv, LockInv, Locked, TypeInv, TypeOK
  <1> QED
    BY <1>3, <1>4, <1>5, <1>6, <1>7, <1>8, <1>9, <1>10, <1>11 DEF Inv

\* rekey commits its recipient, with everything under it.
LEMMA CommitRekeyPreserves ==
    ASSUME Inv, NEW c \in Commands, CommitRecipient(c), cmd[c].op = "rekey"
    PROVE  Inv'
  <1>1. /\ UNCHANGED <<stored, keyfile, env>>
        /\ UNCHANGED <<born, mine, givenUp, latest>>
        /\ cmd[c].pc = "rewrite" /\ lock = c /\ cmd[c].key \in mine /\ cmd[c].key \in Keys
        /\ cmd[c].todo = {}
        /\ recipient' = cmd[c].key /\ orphans' = {}
        /\ unfinished' = FALSE
    BY DEF CommitRecipient, RecipientReady, At, Inv, TypeInv, TypeOK, Suits, LockInv,
       FreshInv, FreshOf, MakesKey, Locked, machine
  <1>2. \A p \in Places : stored[p] \in Sealed => stored[p].to = cmd[c].key
    BY <1>1, SecretsAssumption DEF Inv, PlanInv, Working, Sealed
  <1>3. /\ cmd' \in [Commands -> Command]
        /\ \A d \in Commands \ {c} : cmd'[d] = cmd[d]
        /\ cmd'[c].pc = "idle" /\ cmd'[c].op = "none" /\ cmd'[c] = Idle
        /\ lock' = IF lock = c THEN None ELSE lock
    BY EndStep DEF Inv, CommitRecipient
  <1>4. TypeInv'
    <2>1. TypeOK'
      BY <1>1, <1>2, <1>3, IdleCommand, SecretsAssumption DEF Inv, TypeInv, TypeOK, Suits
    <2>2. \A d \in Commands \ {c} : Suits(cmd[d])'
      BY <1>1, <1>2, <1>3, SecretsAssumption DEF Inv, TypeInv, Suits, Values
    <2>3. Suits(cmd[c])'
      BY <1>1, <1>2, <1>3, SecretsAssumption DEF Inv, TypeInv, TypeOK, Suits, Values, Locked
    <2>4. /\ latest' \in [Places -> Texts \cup {None}]
          /\ cmd' \in [Commands -> Command]
      BY <1>1, <1>2, <1>3 DEF Inv, TypeInv
    <2> QED
      BY <2>1, <2>2, <2>3, <2>4 DEF TypeInv
  <1>5. LockInv'
    BY <1>1, <1>2, <1>3 DEF Inv, TypeInv, LockInv, Locked
  <1>6. UseInv'
    BY <1>1, <1>2, <1>3 DEF Inv, UseInv, InUse, HeldOnDisk, Kept, KeyfileInv, TypeInv,
       TypeOK, Suits
  <1>7. FreshInv'
    BY <1>1, <1>2, <1>3 DEF Inv, FreshInv, FreshOf, MakesKey, InUse, At, Locked
  <1>8. KeyfileInv'
    BY <1>1, <1>2, <1>3 DEF Inv, KeyfileInv, HeldOnDisk
  <1>9. PlanInv'
    BY <1>1, <1>2, <1>3 DEF Inv, PlanInv, Working, At, LockInv, Locked
  <1>10. RecipientInv'
    BY <1>1, <1>2, <1>3 DEF Inv, RecipientInv, At
  <1>11. LatestValue'
    BY <1>1, <1>2, <1>3 DEF Inv, LatestValue
  <1>12. ResumeInv'
    BY <1>1, <1>2, <1>3, SecretsAssumption DEF Inv, ResumeInv, Available, Working,
       Rewritten, HeldOnDisk, LockInv, Locked
  <1> QED
    BY <1>4, <1>5, <1>6, <1>7, <1>8, <1>9, <1>10, <1>11, <1>12 DEF Inv

\* key remove removes the keyfile, whatever it holds.
LEMMA RemoveKeyfilePreserves ==
    ASSUME Inv, NEW c \in Commands, RemoveKeyfile(c)
    PROVE  Inv'
  <1>1. /\ UNCHANGED <<recipient, stored, env, born, mine, latest, orphans, unfinished>>
        /\ cmd[c].pc = "work" /\ cmd[c].op = "remove" /\ cmd[c].key \in Identities
        /\ keyfile' = [keyfile EXCEPT ![cmd[c].key] = None]
        /\ givenUp' = givenUp \cup ({cmd[c].key, keyfile[cmd[c].key]} \ {None, Junk})
    BY DEF RemoveKeyfile, At, Inv, TypeInv, Suits, project
  <1>2. /\ cmd' \in [Commands -> Command]
        /\ \A d \in Commands \ {c} : cmd'[d] = cmd[d]
        /\ cmd'[c].pc = "idle" /\ cmd'[c].op = "none" /\ cmd'[c] = Idle
        /\ lock' = IF lock = c THEN None ELSE lock
    BY EndStep DEF Inv, RemoveKeyfile
  <1>3. HeldOnDisk' \subseteq HeldOnDisk /\ HeldOnDisk \subseteq HeldOnDisk' \cup givenUp'
    BY <1>1 DEF HeldOnDisk, Inv, TypeInv, TypeOK
  <1>4. TypeInv'
    BY <1>1, <1>2, <1>3, IdleCommand DEF Inv, TypeInv, TypeOK, Suits, Values, Locked
  <1>5. LockInv'
    BY <1>1, <1>2, <1>3 DEF Inv, TypeInv, LockInv, Locked
  <1>6. UseInv'
    BY <1>1, <1>2, <1>3 DEF Inv, UseInv, InUse, HeldOnDisk, Kept
  <1>7. FreshInv'
    BY <1>1, <1>2, <1>3 DEF Inv, FreshInv, FreshOf, MakesKey, InUse, At, Locked
  <1>8. KeyfileInv'
    BY <1>1, <1>2, <1>3, SecretsAssumption DEF Inv, KeyfileInv, TypeInv, TypeOK, Identities
  <1>9. PlanInv'
    BY <1>1, <1>2, <1>3 DEF Inv, PlanInv, Working, At
  <1>10. RecipientInv'
    BY <1>1, <1>2, <1>3 DEF Inv, RecipientInv, At
  <1>11. LatestValue'
    BY <1>1, <1>2, <1>3 DEF Inv, LatestValue
  <1>12. ResumeInv'
    BY <1>1, <1>2, <1>3 DEF Inv, ResumeInv, Available, Working, Rewritten, HeldOnDisk
  <1> QED
    BY <1>4, <1>5, <1>6, <1>7, <1>8, <1>9, <1>10, <1>11, <1>12 DEF Inv

\* A command is killed, or gives up and leaves its keyfile.
LEMMA StopPreserves ==
    ASSUME Inv, NEW c \in Commands, End(c), UNCHANGED <<project, machine, born, mine, givenUp,
                                                        latest, orphans>>,
           cmd[c].pc \in Locked \cup {"work"},
           unfinished' = (unfinished \/ LeavesMixed(c))
    PROVE  Inv'
  <1>1. /\ UNCHANGED <<recipient, stored, keyfile, env, born>>
        /\ UNCHANGED <<mine, givenUp, latest, orphans>>
    BY DEF project, machine
  <1>2. /\ cmd' \in [Commands -> Command]
        /\ \A d \in Commands \ {c} : cmd'[d] = cmd[d]
        /\ cmd'[c].pc = "idle" /\ cmd'[c].op = "none" /\ cmd'[c] = Idle
        /\ lock' = IF lock = c THEN None ELSE lock
    BY EndStep DEF Inv
  <1>3. TypeInv'
    BY <1>1, <1>2, IdleCommand DEF Inv, TypeInv, TypeOK, Suits, Values, Locked
  <1>4. LockInv'
    BY <1>1, <1>2 DEF Inv, TypeInv, LockInv, Locked
  <1>5. UseInv'
    BY <1>1, <1>2 DEF Inv, UseInv, InUse, HeldOnDisk, Kept
  <1>6. FreshInv'
    BY <1>1, <1>2 DEF Inv, FreshInv, FreshOf, MakesKey, InUse, At, Locked
  <1>7. KeyfileInv'
    BY <1>1, <1>2 DEF Inv, KeyfileInv, HeldOnDisk
  <1>8. PlanInv'
    BY <1>1, <1>2 DEF Inv, PlanInv, Working, At
  <1>9. RecipientInv'
    <2>1. unfinished' \/ \A p \in Places : stored[p] \in Sealed =>
             ~(At(c, "rekey", "rewrite") /\ stored[p].to = cmd[c].key)
      BY <1>1, <1>2 DEF LeavesMixed, Rewritten, At
    <2> QED
      BY <1>1, <1>2, <2>1 DEF Inv, RecipientInv, At
  <1>10. LatestValue'
    BY <1>1, <1>2 DEF Inv, LatestValue
  <1>11. ResumeInv'
    <2>1. LeavesMixed(c) => recipient # None /\ (givenUp = {} => Available(recipient))
      BY DEF LeavesMixed, Inv, ResumeInv, PlanInv, Working, TypeInv, Suits
    <2> QED
      BY <1>1, <1>2, <2>1 DEF Inv, ResumeInv, Available, Working, Rewritten, HeldOnDisk
  <1> QED
    BY <1>3, <1>4, <1>5, <1>6, <1>7, <1>8, <1>9, <1>10, <1>11 DEF Inv

\* init gives up at its last step, and takes its keyfile back.
LEMMA TakeBackPreserves ==
    ASSUME Inv, NEW c \in Commands, WriteFails(c), cmd[c].pc = "commit"
    PROVE  Inv'
  <1>1. /\ UNCHANGED <<recipient, stored, env, born, mine, givenUp, latest, orphans>>
        /\ cmd[c].op = "init" /\ lock = c /\ cmd[c].key \in Keys
        /\ keyfile' = [keyfile EXCEPT ![cmd[c].key] = None]
        /\ unfinished' = unfinished
    BY DEF WriteFails, KeyfileTakenBack, LeavesMixed, Inv, TypeInv, TypeOK, Suits, LockInv,
       Locked, project
  <1>2. /\ cmd' \in [Commands -> Command]
        /\ \A d \in Commands \ {c} : cmd'[d] = cmd[d]
        /\ cmd'[c].pc = "idle" /\ cmd'[c].op = "none" /\ cmd'[c] = Idle
        /\ lock' = IF lock = c THEN None ELSE lock
    BY EndStep DEF Inv, WriteFails
  <1>3. cmd[c].key # recipient /\ ~InUse(cmd[c].key)
    BY <1>1 DEF WriteFails, Inv, FreshInv, FreshOf, MakesKey, At
  <1>4. \A k \in Keys \ {cmd[c].key} : k \in HeldOnDisk => k \in HeldOnDisk'
    BY <1>1, SecretsAssumption DEF HeldOnDisk, Inv, KeyfileInv, TypeInv, TypeOK, Identities
  <1>5. \A d \in Commands \ {c} : ~(cmd[d].pc \in Locked) /\ ~Working(d)'
    BY <1>1, <1>2 DEF Inv, LockInv, Locked, Working
  <1>6. TypeInv'
    BY <1>1, <1>2, <1>3, <1>4, <1>5, IdleCommand, ZenonT(40) DEF Inv, TypeInv, TypeOK,
       Suits, Values,
       Locked
  <1>7. LockInv'
    BY <1>1, <1>2, <1>3, <1>4, <1>5 DEF Inv, TypeInv, LockInv, Locked
  <1>8. UseInv'
    BY <1>1, <1>2, <1>3, <1>4 DEF Inv, UseInv, InUse, Kept, TypeInv, TypeOK
  <1>9. FreshInv'
    BY <1>1, <1>2, <1>3, <1>4, <1>5 DEF Inv, FreshInv, FreshOf, MakesKey, InUse, At, Locked
  <1>10. KeyfileInv'
    BY <1>1, <1>2, <1>5 DEF Inv, KeyfileInv, Locked, TypeInv, TypeOK, Identities
  <1>11. PlanInv'
    BY <1>1, <1>2, <1>3, <1>4, <1>5 DEF Inv, PlanInv, Working, At
  <1>12. RecipientInv'
    BY <1>1, <1>2, <1>3, <1>4, <1>5 DEF Inv, RecipientInv, At
  <1>13. LatestValue'
    BY <1>1, <1>2, <1>3, <1>4, <1>5 DEF Inv, LatestValue
  <1>14. ResumeInv'
    BY <1>1, <1>2, <1>3, <1>4, <1>5 DEF Inv, ResumeInv, Available, Working, TypeInv, TypeOK
  <1> QED
    BY <1>6, <1>7, <1>8, <1>9, <1>10, <1>11, <1>12, <1>13, <1>14 DEF Inv

-----------------------------------------------------------------------------
(* The invariant.                                                          *)

LEMMA InitInv == Init => Inv
  <1> SUFFICES ASSUME Init PROVE Inv
    OBVIOUS
  <1>1. PICK r \in Keys \cup {None}, t \in Texts : InitFor(r, t)
    BY DEF Init
  <1>2. /\ \A c \in Commands : cmd[c].op = "none" /\ cmd[c].pc = "idle" /\ cmd[c].todo = {}
        /\ cmd \in [Commands -> Command]
    BY IdleCommand DEF Init
  <1>3. /\ recipient = r /\ r \in Keys \cup {None}
        /\ \A p \in Places : stored[p] = None \/ (r # None /\ stored[p] = [to |-> r, text |-> t])
        /\ \A n \in Identities : keyfile[n] \in {None, Junk, r, Foreign}
        /\ \A k \in Keys \ {r} : keyfile[k] = None
        /\ born = {r} \ {None}
        /\ mine = {keyfile[n] : n \in Identities} \cap Keys
    BY <1>1 DEF InitFor
  <1>4. TypeInv
    <2>1. TypeOK
      <3>1. stored \in [Places -> Sealed \cup {None, Junk}]
        BY <1>1, SecretsAssumption DEF InitFor, Sealed
      <3>2. keyfile \in [Identities -> Identities \cup {None, Junk}]
        BY <1>1, SecretsAssumption DEF InitFor, Identities
      <3>3. mine \subseteq born
        BY <1>3, SecretsAssumption
      <3> QED
        BY <1>1, <1>3, <3>1, <3>2, <3>3, SecretsAssumption, ZenonT(40) DEF InitFor, Init,
           TypeOK,
           Identities
    <2>2. latest \in [Places -> Texts \cup {None}]
      BY <1>1 DEF InitFor
    <2>3. \A c \in Commands : Suits(cmd[c])
      BY <1>2 DEF Suits, Locked
    <2> QED
      BY <1>2, <2>1, <2>2, <2>3 DEF TypeInv
  <1>5. LockInv
    BY <1>2 DEF LockInv, Locked
  <1>6. UseInv
    <2>1. \A k \in Keys : InUse(k) => k = r
      BY <1>2, <1>3, SecretsAssumption DEF InUse, Sealed
    <2>2. \A k \in mine : k \in HeldOnDisk
      BY <1>3, SecretsAssumption DEF HeldOnDisk
    <2> QED
      BY <1>3, <2>1, <2>2, SecretsAssumption DEF UseInv, Kept
  <1>7. FreshInv /\ PlanInv
    BY <1>2 DEF FreshInv, PlanInv, MakesKey, Working
  <1>8. KeyfileInv
    BY <1>2, <1>3 DEF KeyfileInv, Identities
  <1>9. RecipientInv
    BY <1>3, SecretsAssumption DEF RecipientInv, Sealed
  <1>10. LatestValue
    BY <1>1, <1>3, SecretsAssumption DEF LatestValue, Sealed, InitFor
  <1>11. ResumeInv
    BY <1>2, <1>3, SecretsAssumption DEF ResumeInv, Sealed, Init, Working
  <1> QED
    BY <1>4, <1>5, <1>6, <1>7, <1>8, <1>9, <1>10, <1>11 DEF Inv

LEMMA InvStep == Inv /\ [Next]_vars => Inv'
  <1> SUFFICES ASSUME Inv, [Next]_vars PROVE Inv'
    OBVIOUS
  <1>1. CASE UNCHANGED vars
    <2>1. /\ UNCHANGED <<recipient, stored, keyfile, env, lock, cmd, born>>
          /\ UNCHANGED <<mine, givenUp, latest, orphans, unfinished>>
      BY <1>1 DEF vars, project, machine, history
    <2>2. TypeInv' /\ LockInv'
      BY <2>1 DEF Inv, TypeInv, TypeOK, Suits, LockInv
    <2>3. UseInv' /\ FreshInv' /\ KeyfileInv' /\ LatestValue'
      BY <2>1 DEF Inv, UseInv, FreshInv, FreshOf, KeyfileInv, LatestValue, InUse, Kept,
         HeldOnDisk, MakesKey, At
    <2>4. PlanInv' /\ RecipientInv' /\ ResumeInv'
      BY <2>1 DEF Inv, PlanInv, RecipientInv, ResumeInv, Working, At, Available, HeldOnDisk,
         Rewritten
    <2> QED
      BY <2>2, <2>3, <2>4 DEF Inv
  <1>2. ASSUME NEW c \in Commands, Begins(c)
        PROVE  Inv'
    BY <1>2, BeginPreserves
  <1>3. ASSUME NEW c \in Commands, Acquire(c)
        PROVE  Inv'
    <2>1. CASE LocksFree(c)
      BY <1>3, <2>1, AcquirePreserves
    <2>2. CASE ~LocksFree(c)
      BY <1>3, <2>2, QuietEnd DEF Acquire
    <2> QED
      BY <2>1, <2>2
  <1>4. ASSUME NEW c \in Commands, Refused(c) \/ OpenValue(c)
        PROVE  Inv'
    BY <1>4, QuietEnd DEF Refused, OpenValue, At
  <1>5. ASSUME NEW c \in Commands, WriteMarker(c) \/ OpenOutput(c) \/ FillOutput(c)
        PROVE  Inv'
    BY <1>5, WriteMarkerPreserves, OpenOutputPreserves, FillOutputPreserves
  <1>6. ASSUME NEW c \in Commands, CheckInit(c) \/ PlanRekey(c) \/ CheckImport(c)
        PROVE  Inv'
    BY <1>6, CheckInitPreserves, PlanRekeyPreserves, CheckImportPreserves
  <1>7. ASSUME NEW c \in Commands, CreateKeyfile(c)
        PROVE  Inv'
    <2>1. CASE CreatePossible(c)
      BY <1>7, <2>1, CreateKeyfilePreserves
    <2>2. CASE ~CreatePossible(c)
      BY <1>7, <2>2, QuietEnd DEF CreateKeyfile, machine
    <2> QED
      BY <2>1, <2>2
  <1>8. ASSUME NEW c \in Commands, FillKeyfile(c)
        PROVE  Inv'
    <2>1. cmd[c].op \in {"init", "rekey", "import"}
      BY <1>8 DEF FillKeyfile, Inv, TypeInv, Suits
    <2> QED
      BY <1>8, <2>1, FillImportPreserves, FillInitPreserves, FillRekeyPreserves
  <1>9. ASSUME NEW c \in Commands, Rewrite(c)
        PROVE  Inv'
    BY <1>9, RewritePreserves
  <1>10. ASSUME NEW c \in Commands, CommitRecipient(c)
         PROVE  Inv'
    BY <1>10, CommitInitPreserves, CommitRekeyPreserves DEF CommitRecipient, RecipientReady,
       At
  <1>11. ASSUME NEW c \in Commands, RemoveKeyfile(c) \/ ReadPlace(c)
         PROVE  Inv'
    BY <1>11, RemoveKeyfilePreserves, ReadPlacePreserves
  <1>12. ASSUME NEW c \in Commands, WriteFails(c)
         PROVE  Inv'
    <2>1. CASE cmd[c].pc = "commit"
      BY <1>12, <2>1, TakeBackPreserves
    <2>2. CASE cmd[c].pc # "commit"
      BY <1>12, <2>2, StopPreserves DEF WriteFails, KeyfileTakenBack, Locked, machine
    <2> QED
      BY <2>1, <2>2
  <1>13. ASSUME NEW c \in Commands, Kill(c)
         PROVE  Inv'
    BY <1>13, StopPreserves DEF Kill, Locked
  <1> QED
    BY <1>1, <1>2, <1>3, <1>4, <1>5, <1>6, <1>7, <1>8, <1>9, <1>10, <1>11, <1>12, <1>13 DEF
       Next, Begins

\* What the properties rest on holds in every state of every behaviour.
THEOREM Invariance == Spec => []Inv
  <1>1. Init => Inv
    BY InitInv
  <1>2. Inv /\ [Next]_vars => Inv'
    BY InvStep
  <1> QED
    BY <1>1, <1>2, PTL DEF Spec

-----------------------------------------------------------------------------
(* What it means for the project's secrets.                                *)

\* Every recipient that init, rekey or an import of this machine has to do with
\* has its identity in a keyfile from the moment it is committed, wherever a
\* command is killed or a write fails, until the user removes the keyfile.
THEOREM Installed == Spec => []RecipientInstalled
  <1>1. Inv => RecipientInstalled
    BY DEF Inv, UseInv, InUse, RecipientInstalled
  <1> QED
    BY <1>1, Invariance, PTL

\* Whatever is sealed to a key pair of this machine can be opened on it: an
\* interrupted rekey strands no value under the old key nor under the new one,
\* and no identity of the environment hides the keyfiles.
THEOREM Openable == Spec => []SealedKeysKept
  <1>1. Inv => SealedKeysKept
    <2> SUFFICES ASSUME Inv, NEW p \in Places, stored[p] \in Sealed, stored[p].to \in Kept
                 PROVE  Opens(stored[p], recipient)
      BY DEF SealedKeysKept
    <2>1. stored[p].to \in Keys /\ InUse(stored[p].to)
      BY DEF Sealed, InUse
    <2>2. stored[p].to \in HeldOnDisk
      BY <2>1 DEF Inv, UseInv
    <2> QED
      BY <2>1, <2>2, CanOpen DEF Opens
  <1> QED
    BY <1>1, Invariance, PTL

\* A completed rekey leaves no value behind: not one that was set while it
\* waited or worked, nor one that an earlier, broken rekey had moved.
THEOREM UnderOneRecipient == Spec => []OneRecipient
  <1>1. Inv => OneRecipient
    BY DEF Inv, RecipientInv, OneRecipient, RekeyUnderWay
  <1> QED
    BY <1>1, Invariance, PTL

\* A rekey rewrites what is there, never an older plaintext of its plan.
THEOREM NothingBroughtBack == Spec => []LatestValue
  <1>1. Inv => LatestValue
    BY DEF Inv
  <1> QED
    BY <1>1, Invariance, PTL

\* get and decrypt open what they have read, whatever rekeys happen between
\* their three unlocked reads.
THEOREM ReadersOpen == Spec => []ReaderOpens
  <1>1. Inv => ReaderOpens
    <2> SUFFICES ASSUME Inv, NEW c \in Commands, At(c, "get", "open"),
                        cmd[c].got \in Sealed, cmd[c].got.to \in Kept
                 PROVE  Opens(cmd[c].got, cmd[c].seen)
      BY DEF ReaderOpens
    <2>1. cmd[c].got.to \in Keys /\ InUse(cmd[c].got.to)
      BY DEF Sealed, InUse, At
    <2>2. cmd[c].got.to \in HeldOnDisk
      BY <2>1 DEF Inv, UseInv
    <2> QED
      BY <2>1, <2>2, CanOpen DEF Opens
  <1> QED
    BY <1>1, Invariance, PTL

\* A rekey broken off at any write can be run again: the next one finds nothing
\* that it cannot open.
THEOREM CanBeRunAgain == Spec => []Resumable
  <1>1. Inv => Resumable
    <2> SUFFICES ASSUME Inv, unfinished, givenUp = {}, orphans = {},
                        \A p \in Places : stored[p] # Junk
                 PROVE  PlanPossible
      BY DEF Resumable
    <2>1. recipient \in Keys /\ Available(recipient)
      BY DEF Inv, ResumeInv, TypeInv, TypeOK
    <2>2. recipient \in LoadIdentitySet(recipient)
      BY <2>1, CanOpen, SecretsAssumption DEF Available, LoadIdentity
    <2>3. ASSUME NEW p \in Places, stored[p] # None
          PROVE  Opens(stored[p], recipient)
      <3>1. stored[p] \in Sealed /\ stored[p].to \in Keys
        BY <2>3 DEF Inv, TypeInv, TypeOK, Sealed
      <3>2. CASE stored[p].to = recipient
        BY <3>1, <3>2, <2>2 DEF Opens
      <3>3. CASE stored[p].to \in mine
        BY <3>1, <3>3, CanOpen DEF Inv, UseInv, InUse, Kept, Opens
      <3> QED
        BY <3>1, <3>2, <3>3 DEF Inv, ResumeInv
    <2> QED
      BY <2>1, <2>3, SecretsAssumption DEF PlanPossible, Surface, Readable
  <1> QED
    BY <1>1, Invariance, PTL

-----------------------------------------------------------------------------
(* The locks.                                                              *)

Section == INSTANCE ExclusiveSection WITH Procs <- Commands, NoProc <- None, owner <- lock

\* All that the module takes for granted of the project locks is what
\* ProjectLocks is proved to give: lock implements ExclusiveSection, in every
\* command, refused, cut short or killed.
THEOREM LocksAsPromised == Spec => Section!Spec
  <1>1. Init => Section!Init
    BY DEF Init, Section!Init
  <1>2. [Next]_vars => [Section!Next]_lock
    <2> SUFFICES ASSUME [Next]_vars PROVE [Section!Next]_lock
      OBVIOUS
    <2>1. ASSUME NEW c \in Commands,
                 \/ lock' = lock
                 \/ lock' = IF lock = c THEN None ELSE lock
                 \/ lock = None /\ lock' = c
          PROVE  [Section!Next]_lock
      BY <2>1 DEF Section!Next, Section!Enter, Section!Leave
    <2>2. CASE UNCHANGED vars
      BY <2>2 DEF vars
    <2>3. ASSUME NEW c \in Commands,
                 \/ BeginSet(c) \/ BeginEncrypt(c) \/ BeginInit(c) \/ BeginReplace(c)
                 \/ BeginRekey(c) \/ BeginImport(c) \/ BeginGate(c)
                 \/ BeginRemove(c) \/ BeginRemoveOutside(c) \/ BeginGet(c)
          PROVE  lock' = lock
      BY <2>3 DEF BeginSet, BeginEncrypt, BeginInit, BeginReplace, BeginRekey,
         BeginImport, BeginGate, BeginRemove, BeginRemoveOutside, BeginGet,
         BeginFresh, Begin
    <2>4. ASSUME NEW c \in Commands,
                 \/ CheckInit(c) \/ PlanRekey(c) \/ CheckImport(c) \/ OpenOutput(c)
                 \/ Rewrite(c) \/ ReadPlace(c)
          PROVE  lock' = lock
      BY <2>4 DEF CheckInit, PlanRekey, CheckImport, OpenOutput, Rewrite, ReadPlace, Goto
    <2>5. ASSUME NEW c \in Commands,
                 \/ Refused(c) \/ WriteMarker(c) \/ FillOutput(c) \/ CommitRecipient(c)
                 \/ RemoveKeyfile(c) \/ OpenValue(c) \/ WriteFails(c) \/ Kill(c)
          PROVE  lock' = IF lock = c THEN None ELSE lock
      BY <2>5 DEF Refused, WriteMarker, FillOutput, CommitRecipient, RemoveKeyfile,
         OpenValue, WriteFails, Kill, End
    <2>6. ASSUME NEW c \in Commands, CreateKeyfile(c) \/ FillKeyfile(c)
          PROVE  lock' = lock \/ lock' = IF lock = c THEN None ELSE lock
      BY <2>6 DEF CreateKeyfile, FillKeyfile, Goto, End
    <2>7. ASSUME NEW c \in Commands, Acquire(c)
          PROVE  \/ lock = None /\ lock' = c
                 \/ lock' = IF lock = c THEN None ELSE lock
      BY <2>7 DEF Acquire, LocksFree, End
    <2> QED
      BY <2>1, <2>2, <2>3, <2>4, <2>5, <2>6, <2>7 DEF Next
  <1> QED
    BY <1>1, <1>2, PTL DEF Spec, Section!Spec
=============================================================================
