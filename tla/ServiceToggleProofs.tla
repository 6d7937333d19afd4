------------------------- MODULE ServiceToggleProofs -------------------------
(***************************************************************************)
(* Proofs about the toggles of services and the commands that share the    *)
(* journal with them, for any number of sessions and services and whatever *)
(* the services require.                                                   *)
(***************************************************************************)
EXTENDS ServiceToggle, TLAPS

-----------------------------------------------------------------------------
(***************************************************************************)
(* The invariant                                                           *)
(***************************************************************************)
Kinds == {"deploy", "restart"}

Debts == {"no", "owed", "raced"}

Locals ==
    [cmd : {"none", "toggle", "deploy", "force", "run", "stop", "restart"},
     svcs : SUBSET Services, on : SUBSET Services, deployed : SUBSET Services,
     ever : BOOLEAN, before : SUBSET Services,
     deploys : SUBSET Services, restart : BOOLEAN,
     left : {<<>>, <<"deploy">>, <<"restart">>, <<"deploy", "restart">>},
     cfg : SUBSET Services, mem : Journals]

TypeInv ==
    /\ enabled \in SUBSET Services
    /\ disk \in Journals
    /\ lock \in Sessions \cup {NoSession}
    /\ pc \in [Sessions -> Places]
    /\ loc \in [Sessions -> Locals]
    /\ wanted \in SUBSET Services
    /\ owed \in [Kinds -> [Services -> Debts]]

\* The locks are held where the code holds them across a step.
LockInv ==
    \A p \in Sessions :
        /\ lock = p <=> pc[p] \in {"pend", "deploying"}
        /\ loc[p].on \subseteq loc[p].svcs

\* What is left of an apply at its steps.
LeftAt(place, l) ==
    l.cmd = "toggle" =>
       /\ place \in {"deployLock", "deploying"} =>
             l.left = ApplySteps(l.deploys, l.restart) /\ l.deploys # {}
       /\ place \in {"stop", "run", "runLock"} => l.left = <<"restart">>

LeftInv == \A q \in Sessions : LeftAt(pc[q], loc[q])

\* local.yml is ahead of the toggles that succeeded by the one that is in
\* its locked section, which knows what to go back to.
ToggleInv ==
    /\ (\A p \in Sessions : pc[p] # "pend") => enabled = wanted
    /\ \A p \in Sessions :
          pc[p] = "pend" => loc[p].before = wanted /\ enabled = Toggled(wanted, p)

BaseInv == TypeInv /\ LockInv /\ LeftInv

\* Who is going to write a copy of the journal has in it what is owed, and
\* an apply that is to clear a deploy has done it.
DeployDebts(q) ==
    \A s \in Services :
        owed["deploy"][s] = "owed" =>
           /\ pc[q] \in {"stop", "run", "runLock", "clear"} => s \notin loc[q].deploys
           /\ pc[q] \in {"tailSave", "deploying"} => s \in loc[q].mem.pending.deploy

\* A service that an owed restart is about is as the runs under way saw it,
\* but for the toggle that is in its locked section.
RestartDebts(q) ==
    \A s \in Services :
        owed["restart"][s] = "owed" =>
           /\ pc[q] \notin {"tail", "tailSave"}
           /\ ~(pc[q] = "clear" /\ loc[q].restart)
           /\ pc[q] = "deploying" => loc[q].mem.pending.restart
           /\ pc[q] = "runLock"
              /\ (\A p \in Sessions : pc[p] = "pend" => s \notin loc[p].svcs)
                 => (s \in loc[q].cfg <=> s \in enabled)

\* No --force among the commands.
Unforced == \A q \in Sessions : loc[q].cmd # "force"

WorkInv ==
    /\ Unforced
    /\ OwedWorkPending
    /\ \A q \in Sessions : DeployDebts(q) /\ RestartDebts(q)

-----------------------------------------------------------------------------
(***************************************************************************)
(* What the operators on the journal give, and what becomes of its pending *)
(* operations                                                              *)
(***************************************************************************)
LEMMA EmptyType ==
    /\ EmptyJournal \in Journals
    /\ NoHash \in Hashes /\ NoRecord \in Records
    /\ Project \in Scopes /\ Services \subseteq Scopes
BY DEF EmptyJournal, Journals, ScopeStatuses, RunStatuses, Records, StepStatuses, NoRecord,
   NoPending, Hashes, Scopes

LEMMA RecomputeKeeps ==
    ASSUME NEW j \in Journals
    PROVE  Recompute(j) \in Journals /\ Recompute(j).pending = j.pending
PROOF
  <1>1. ProjectStatus(j) \in ScopeStatuses
    BY DEF ProjectStatus, ScopeStatuses
  <1>2. [s \in Scopes |-> IF j.last[s] = "in_progress" THEN "failed" ELSE j.last[s]]
            \in [Scopes -> RunStatuses]
    BY DEF Journals, RunStatuses
  <1> QED
    BY <1>1, <1>2 DEF Recompute, Journals

LEMMA AddPendingIs ==
    ASSUME NEW j \in Journals, NEW restart \in BOOLEAN, NEW svcs \in SUBSET Services
    PROVE  LET k == AddPending(j, restart, svcs)
           IN  /\ k \in Journals
               /\ k.pending.restart = (j.pending.restart \/ restart)
               /\ k.pending.deploy = j.pending.deploy \cup svcs
BY DEF AddPending, Journals

LEMMA ClearPendingRestartIs ==
    ASSUME NEW j \in Journals
    PROVE  LET k == ClearPendingRestart(j)
           IN  k \in Journals /\ k.pending.deploy = j.pending.deploy
BY DEF ClearPendingRestart, Journals

LEMMA ClearPendingServicesIs ==
    ASSUME NEW j \in Journals, NEW svcs
    PROVE  LET k == ClearPendingServices(j, svcs)
           IN  /\ k \in Journals
               /\ k.pending.restart = j.pending.restart
               /\ k.pending.deploy = j.pending.deploy \ svcs
BY DEF ClearPendingServices, Journals

LEMMA ReplaceIs ==
    ASSUME NEW j \in Journals, NEW s \in Services
    PROVE  LET k == ReplaceServiceWithPending(j, s)
           IN  /\ k \in Journals
               /\ k.pending.restart = j.pending.restart
               /\ k.pending.deploy = j.pending.deploy \cup {s}
PROOF
  <1> DEFINE f == ForgetService(j, s)
             e == [EmptyJournal EXCEPT !.pending = j.pending]
  <1>1. f \in Journals /\ f.pending = j.pending
    <2>1. [st \in Steps |-> IF OwnerOf[st] = s THEN NoRecord ELSE j.step[st]]
              \in [Steps -> Records]
      BY EmptyType DEF Journals
    <2> QED
      BY <2>1, EmptyType DEF ForgetService, Journals, ScopeStatuses, RunStatuses
  <1>2. Recompute(f) \in Journals /\ Recompute(f).pending = j.pending
    BY <1>1, RecomputeKeeps
  <1>3. e \in Journals /\ e.pending = j.pending
    BY EmptyType DEF Journals, EmptyJournal
  <1>4. \E k \in {e, Recompute(f)} :
            ReplaceServiceWithPending(j, s) = AddPending(k, FALSE, {s})
    BY DEF ReplaceServiceWithPending
  <1> HIDE DEF e, f
  <1>5. PICK k \in {e, Recompute(f)} :
            ReplaceServiceWithPending(j, s) = AddPending(k, FALSE, {s})
    BY <1>4
  <1>6. k \in Journals /\ k.pending = j.pending /\ j.pending.restart \in BOOLEAN
    BY <1>2, <1>3 DEF Journals
  <1>7. LET a == AddPending(k, FALSE, {s})
        IN  /\ a \in Journals
            /\ a.pending.restart = k.pending.restart
            /\ a.pending.deploy = k.pending.deploy \cup {s}
    BY <1>6 DEF AddPending, Journals
  <1> QED
    BY <1>5, <1>6, <1>7

LEMMA DeployedJournalType ==
    ASSUME NEW svcs \in SUBSET Services
    PROVE  DeployedJournal(svcs) \in Journals
PROOF
  <1> DEFINE j == [EmptyJournal EXCEPT
                     !.status = [s \in Scopes |-> IF s \in svcs THEN "deployed" ELSE "none"],
                     !.last = [s \in Scopes |-> IF s \in svcs \cup {Project}
                                                THEN "ok" ELSE "none"]]
  <1>1. j \in Journals
    BY EmptyType DEF Journals, EmptyJournal, ScopeStatuses, RunStatuses
  <1> QED
    BY <1>1, RecomputeKeeps DEF DeployedJournal

\* A full deploy marks the project as in progress.
LEMMA MarkedIs ==
    ASSUME NEW j \in Journals, NEW full \in BOOLEAN
    PROVE  LET k == [j EXCEPT !.last[Project] = IF full THEN "in_progress" ELSE @]
           IN  k \in Journals /\ k.pending = j.pending
BY EmptyType DEF Journals, RunStatuses

LEMMA RecordedIs ==
    ASSUME NEW p \in Sessions, loc[p].mem \in Journals,
           NEW deployed, NEW failed, NEW success \in BOOLEAN
    PROVE  LET k == Recorded(p, deployed, failed, success)
           IN  k \in Journals /\ k.pending = loc[p].mem.pending
PROOF
  <1> DEFINE m == loc[p].mem
             status == [s \in Scopes |-> IF s \in deployed THEN "deployed"
                                         ELSE IF s \in failed THEN "failed" ELSE m.status[s]]
             last == [s \in Scopes |-> IF s \in deployed THEN "ok"
                                       ELSE IF s \in failed THEN "failed"
                                       ELSE IF s = Project /\ FullDeploy(p)
                                            THEN IF success THEN "ok" ELSE "failed"
                                       ELSE m.last[s]]
             j == [m EXCEPT !.status = status, !.last = last]
  <1>1. status \in [Scopes -> ScopeStatuses] /\ last \in [Scopes -> RunStatuses]
    BY DEF Journals, ScopeStatuses, RunStatuses
  <1>2. j \in Journals /\ j.pending = m.pending
    BY <1>1 DEF Journals
  <1>3. Recorded(p, deployed, failed, success) = Recompute(j)
    BY DEF Recorded
  <1> HIDE DEF j
  <1> QED
    BY <1>2, <1>3, RecomputeKeeps

-----------------------------------------------------------------------------
(***************************************************************************)
(* What the steps change                                                   *)
(***************************************************************************)
\* The command of p is somewhere else, or has other locals; the others have not
\* moved.
Moves(p) ==
    /\ pc' \in [Sessions -> Places]
    /\ loc' \in [Sessions -> Locals]
    /\ \A q \in Sessions \ {p} : pc'[q] = pc[q] /\ loc'[q] = loc[q]

LEMMA NoCommandType == NoCommand \in Locals
BY EmptyType DEF NoCommand, Locals

LEMMA GotoIs ==
    ASSUME TypeInv, NEW p \in Sessions, NEW place \in Places, Goto(p, place),
           NEW l \in Locals, loc' = [loc EXCEPT ![p] = l]
    PROVE  Moves(p) /\ pc'[p] = place /\ loc'[p] = l
BY DEF TypeInv, Goto, Moves

LEMMA EndIs ==
    ASSUME TypeInv, NEW p \in Sessions, End(p)
    PROVE  Moves(p) /\ pc'[p] = "idle" /\ loc'[p] = NoCommand
BY NoCommandType, GotoIs DEF End, Places

LEMMA ApplyStepsIs ==
    ASSUME NEW deploys, NEW restart \in BOOLEAN
    PROVE  ApplySteps(deploys, restart) =
             IF deploys # {} THEN IF restart THEN <<"deploy", "restart">> ELSE <<"deploy">>
             ELSE IF restart THEN <<"restart">> ELSE <<>>
PROOF
  <1> DEFINE both == <<"deploy">> \o <<"restart">>
  <1>1. /\ both \in Seq({"deploy", "restart"})
        /\ Len(both) = 2 /\ both[1] = "deploy" /\ both[2] = "restart"
    OBVIOUS
  <1>2. <<"deploy", "restart">> \in Seq({"deploy", "restart"})
        /\ Len(<<"deploy", "restart">>) = 2
    OBVIOUS
  <1> HIDE DEF both
  <1>3. both = <<"deploy", "restart">>
    BY <1>1, <1>2
  <1>4. /\ <<"deploy">> \o <<>> = <<"deploy">>
        /\ <<>> \o <<"restart">> = <<"restart">>
        /\ <<>> \o <<>> = <<>>
    OBVIOUS
  <1>5. CASE deploys # {}
    <2>1. CASE restart
      BY <1>3, <1>5, <2>1 DEF ApplySteps, both
    <2>2. CASE ~restart
      BY <1>4, <1>5, <2>2 DEF ApplySteps
    <2> QED
      BY <2>1, <2>2
  <1>6. CASE deploys = {}
    BY <1>4, <1>6 DEF ApplySteps
  <1> QED
    BY <1>5, <1>6

LEMMA LeftIs ==
    /\ Tail(<<"deploy", "restart">>) = <<"restart">>
    /\ Tail(<<"deploy">>) = <<>> /\ Tail(<<"restart">>) = <<>>
    /\ Continuation(<<"deploy", "restart">>) = "deployLock"
    /\ Continuation(<<"deploy">>) = "deployLock"
    /\ Continuation(<<"restart">>) = "stop"
    /\ Continuation(<<>>) = "clear"
PROOF
  <1>1. /\ Tail(<<"deploy", "restart">>) = <<"restart">>
        /\ Tail(<<"deploy">>) = <<>>
        /\ Tail(<<"restart">>) = <<>>
    OBVIOUS
  <1>2. /\ <<"deploy", "restart">> # <<>> /\ <<"deploy">> # <<>> /\ <<"restart">> # <<>>
        /\ Head(<<"deploy", "restart">>) = "deploy"
        /\ Head(<<"deploy">>) = "deploy" /\ Head(<<"restart">>) = "restart"
    OBVIOUS
  <1> QED
    BY <1>1, <1>2 DEF Continuation

LEMMA StepDoneIs ==
    ASSUME TypeInv, LeftInv, NEW p \in Sessions, StepDone(p),
           pc[p] \in {"deployLock", "deploying", "runLock"}
    PROVE  /\ Moves(p)
           /\ loc[p].cmd # "toggle" => pc'[p] = "idle" /\ loc'[p] = NoCommand
           /\ loc[p].cmd = "toggle" =>
                /\ pc[p] = "runLock" => pc'[p] = "clear"
                /\ pc[p] # "runLock" =>
                      IF loc[p].restart THEN pc'[p] = "stop" /\ loc'[p].left = <<"restart">>
                      ELSE pc'[p] = "clear"
                /\ loc'[p].cmd = "toggle"
                /\ loc'[p].deploys = loc[p].deploys /\ loc'[p].restart = loc[p].restart
                /\ loc'[p].svcs = loc[p].svcs /\ loc'[p].on = loc[p].on
PROOF
  <1>1. CASE loc[p].cmd # "toggle"
    BY <1>1, EndIs DEF StepDone
  <1>2. CASE loc[p].cmd = "toggle"
    <2> DEFINE left == Tail(loc[p].left)
               l == [loc[p] EXCEPT !.left = left, !.cfg = {}, !.mem = EmptyJournal]
    <2>1. left = IF pc[p] # "runLock" /\ loc[p].restart THEN <<"restart">> ELSE <<>>
      <3>1. loc[p].restart \in BOOLEAN
        BY DEF TypeInv, Locals
      <3> QED
        BY <1>2, <3>1, ApplyStepsIs, LeftIs DEF LeftInv, LeftAt
    <2>2. Continuation(left) = IF pc[p] # "runLock" /\ loc[p].restart THEN "stop" ELSE "clear"
      BY <2>1, LeftIs
    <2>3. Goto(p, Continuation(left)) /\ loc' = [loc EXCEPT ![p] = l]
      BY <1>2 DEF StepDone
    <2> HIDE DEF left
    <2>5. Continuation(left) \in Places /\ l \in Locals
      <3>1. loc[p] \in Locals
        BY DEF TypeInv
      <3>2. left \in {<<>>, <<"deploy">>, <<"restart">>, <<"deploy", "restart">>}
        BY <2>1
      <3>3. l \in Locals
        BY <3>1, <3>2, EmptyType DEF Locals
      <3>4. Continuation(left) \in Places
        BY <2>2 DEF Places
      <3> QED
        BY <3>3, <3>4
    <2>4. Moves(p) /\ pc'[p] = Continuation(left) /\ loc'[p] = l
      BY <2>3, <2>5, GotoIs
    <2> QED
      BY <1>2, <2>1, <2>2, <2>4 DEF TypeInv, Locals
  <1> QED
    BY <1>1, <1>2

LEMMA ToggledIs ==
    ASSUME TypeInv, NEW p \in Sessions, NEW svcs \in SUBSET Services
    PROVE  Toggled(svcs, p) \in SUBSET Services
BY DEF TypeInv, Locals, Toggled

LEMMA OweTypes ==
    ASSUME TypeInv, NEW p \in Sessions, NEW svcs
    PROVE  /\ OweDeploy(p, svcs) \in [Services -> Debts]
           /\ OweRestart(p, svcs) \in [Services -> Debts]
BY DEF TypeInv, OweDeploy, OweRestart, Debts, Kinds

LEMMA OweDeployIs ==
    ASSUME NEW p \in Sessions, NEW svcs, NEW s \in Services,
           OweDeploy(p, svcs)[s] = "owed"
    PROVE  IF s \in svcs THEN \A q \in Sessions \ {p} : ~PastDeploy(q, s)
           ELSE owed["deploy"][s] = "owed"
BY DEF OweDeploy

LEMMA OweRestartIs ==
    ASSUME NEW p \in Sessions, NEW svcs, NEW s \in Services,
           OweRestart(p, svcs)[s] = "owed"
    PROVE  /\ s \in svcs \/ owed["restart"][s] = "owed"
           /\ s \in svcs \cup loc[p].svcs => \A q \in Sessions \ {p} : ~PastRestart(q)
BY DEF OweRestart

LEMMA DoneIs ==
    ASSUME TypeInv, NEW svcs, NEW kind \in Kinds
    PROVE  /\ Done(svcs, kind) \in [Kinds -> [Services -> Debts]]
           /\ \A k \in Kinds, s \in Services : Done(svcs, kind)[k][s] =
                 IF k = kind /\ s \in svcs THEN "no" ELSE owed[k][s]
BY DEF TypeInv, Done, Debts, Kinds

-----------------------------------------------------------------------------
(***************************************************************************)
(* The locals, the locks and what is left of the applies                   *)
(***************************************************************************)
\* A step of p that keeps BaseInv.
BaseMove(p) ==
    /\ Moves(p)
    /\ enabled' \in SUBSET Services
    /\ wanted' \in SUBSET Services
    /\ disk' \in Journals
    /\ owed' \in [Kinds -> [Services -> Debts]]
    /\ IF pc'[p] \in {"pend", "deploying"} THEN lock \in {p, NoSession} /\ lock' = p
       ELSE lock' = IF lock = p THEN NoSession ELSE lock
    /\ loc'[p].on \subseteq loc'[p].svcs
    /\ LeftAt(pc'[p], loc'[p])

LEMMA BaseMoveKeeps ==
    ASSUME BaseInv, NEW p \in Sessions, BaseMove(p)
    PROVE  BaseInv'
PROOF
  <1>1. NoSession \notin Sessions
    BY ToggleAssumption
  <1>2. TypeInv'
    BY DEF BaseInv, BaseMove, Moves, TypeInv
  <1>3. ASSUME NEW q \in Sessions
        PROVE  /\ (lock = q <=> pc[q] \in {"pend", "deploying"})'
               /\ (loc[q].on \subseteq loc[q].svcs)'
               /\ LeftAt(pc[q], loc[q])'
    <2>1. CASE q = p
      BY <1>1, <2>1 DEF BaseInv, BaseMove, LockInv, LeftAt
    <2>2. CASE q # p
      <3>1. pc'[q] = pc[q] /\ loc'[q] = loc[q]
        BY <2>2 DEF BaseMove, Moves
      <3>2. lock' = q <=> lock = q
        BY <1>1, <2>2 DEF BaseInv, BaseMove
      <3> QED
        BY <3>1, <3>2 DEF BaseInv, LockInv, LeftInv, LeftAt
    <2> QED
      BY <2>1, <2>2
  <1> QED
    BY <1>2, <1>3 DEF BaseInv, LockInv, LeftInv

LEMMA NoCommandIs ==
    /\ NoCommand.cmd = "none" /\ NoCommand.svcs = {} /\ NoCommand.on = {}
    /\ NoCommand.deploys = {} /\ NoCommand.restart = FALSE
    /\ \A place : LeftAt(place, NoCommand)
BY DEF NoCommand, LeftAt

\* A command ends, and gives the locks back if it has them.
LEMMA EndKeeps ==
    ASSUME BaseInv, NEW p \in Sessions, End(p),
           lock' = IF lock = p THEN NoSession ELSE lock,
           enabled' \in SUBSET Services, wanted' \in SUBSET Services,
           disk' \in Journals, owed' \in [Kinds -> [Services -> Debts]]
    PROVE  BaseMove(p) /\ pc'[p] = "idle" /\ loc'[p] = NoCommand
BY EndIs, NoCommandIs DEF BaseInv, BaseMove

LEMMA BeginToggleIs ==
    ASSUME BaseInv, NEW p \in Sessions, NEW svcs \in SUBSET Services, BeginToggle(p, svcs)
    PROVE  BaseMove(p) /\ pc'[p] = "mutate" /\ loc'[p].cmd = "toggle"
PROOF
  <1> DEFINE l == [NoCommand EXCEPT !.cmd = "toggle", !.svcs = svcs, !.on = svcs \ enabled,
                                    !.deployed = DeployedServices(disk) \cap svcs,
                                    !.ever = EverDeployed(disk)]
  <1>1. /\ l \in Locals /\ l.cmd = "toggle"
        /\ l.on \subseteq l.svcs /\ LeftAt("mutate", l)
    BY NoCommandType DEF Locals, EverDeployed, LeftAt
  <1>2. Goto(p, "mutate") /\ loc' = [loc EXCEPT ![p] = l] /\ lock # p
    BY DEF BeginToggle, BaseInv, LockInv
  <1> HIDE DEF l
  <1>3. Moves(p) /\ pc'[p] = "mutate" /\ loc'[p] = l
    BY <1>1, <1>2, GotoIs DEF BaseInv, Places
  <1> QED
    BY <1>1, <1>2, <1>3 DEF BeginToggle, ghosts, BaseInv, TypeInv, BaseMove

LEMMA WriteLocalIs ==
    ASSUME BaseInv, NEW p \in Sessions, WriteLocal(p)
    PROVE  /\ BaseMove(p)
           /\ pc'[p] = "pend"
           /\ loc'[p].before = enabled
           /\ loc'[p].svcs = loc[p].svcs /\ loc'[p].on = loc[p].on
           /\ loc'[p].cmd = loc[p].cmd
PROOF
  <1> DEFINE l == [loc[p] EXCEPT !.before = enabled]
  <1>1. /\ l \in Locals /\ l.before = enabled /\ l.cmd = loc[p].cmd
        /\ l.svcs = loc[p].svcs /\ l.on = loc[p].on
        /\ l.on \subseteq l.svcs /\ LeftAt("pend", l)
    <2>1. loc[p] \in Locals /\ enabled \in SUBSET Services
      BY DEF BaseInv, TypeInv
    <2>2. /\ l \in Locals /\ l.before = enabled /\ l.cmd = loc[p].cmd
          /\ l.svcs = loc[p].svcs /\ l.on = loc[p].on
      BY <2>1 DEF Locals
    <2>3. loc[p].on \subseteq loc[p].svcs
      BY DEF BaseInv, LockInv
    <2> QED
      BY <2>2, <2>3 DEF LeftAt
  <1>2. Goto(p, "pend") /\ loc' = [loc EXCEPT ![p] = l]
    BY DEF WriteLocal
  <1> HIDE DEF l
  <1>3. Moves(p) /\ pc'[p] = "pend" /\ loc'[p] = l
    BY <1>1, <1>2, GotoIs DEF BaseInv, Places
  <1>4. enabled' \in SUBSET Services
    BY ToggledIs DEF BaseInv, TypeInv, WriteLocal
  <1> QED
    BY <1>1, <1>3, <1>4 DEF WriteLocal, ghosts, BaseInv, TypeInv, BaseMove

LEMMA CommitToggleIs ==
    ASSUME BaseInv, NEW p \in Sessions, CommitToggle(p)
    PROVE  /\ BaseMove(p)
           /\ pc'[p] \in {"idle", "deployLock", "stop"}
           /\ pc'[p] = "stop" => loc'[p].deploys = {}
           /\ loc'[p].cmd # "force"
           /\ lock = p
PROOF
  <1> DEFINE deploys == DeployContributors(p)
             restart == RestartContributors(p) # {}
             left == ApplySteps(deploys, restart)
             l == [NoCommand EXCEPT !.cmd = "toggle", !.deploys = deploys,
                                    !.restart = restart, !.left = left]
  <1>1. lock = p /\ lock' = NoSession
    BY DEF CommitToggle, BaseInv, LockInv
  <1>2. deploys \in SUBSET Services /\ restart \in BOOLEAN
    BY DEF DeployContributors, BaseInv, TypeInv, Locals
  <1>3. disk' \in Journals
    <2>1. disk' \in {disk, AddPending(disk, restart, deploys)}
      BY DEF CommitToggle
    <2> HIDE DEF deploys, restart
    <2> QED
      BY <1>2, <2>1, AddPendingIs DEF BaseInv, TypeInv
  <1>4. owed' \in [Kinds -> [Services -> Debts]]
    <2>1. /\ OweDeploy(p, deploys) \in [Services -> Debts]
          /\ OweRestart(p, RestartContributors(p)) \in [Services -> Debts]
          /\ OweRestart(p, {}) \in [Services -> Debts]
      BY OweTypes DEF BaseInv
    <2> QED
      BY <2>1 DEF CommitToggle, BaseInv, TypeInv, Kinds
  <1>5. enabled' \in SUBSET Services /\ wanted' \in SUBSET Services
    BY ToggledIs DEF CommitToggle, BaseInv, TypeInv
  <1>6. CASE left = <<>>
    <2>1. End(p)
      BY <1>6 DEF CommitToggle
    <2> QED
      BY <1>1, <1>3, <1>4, <1>5, <2>1, EndKeeps, NoCommandIs
  <1>7. CASE left # <<>>
    <2>1. Goto(p, Continuation(left)) /\ loc' = [loc EXCEPT ![p] = l]
      BY <1>7 DEF CommitToggle
    <2>2. left = IF deploys # {} THEN IF restart THEN <<"deploy", "restart">> ELSE <<"deploy">>
                 ELSE IF restart THEN <<"restart">> ELSE <<>>
      BY <1>2, ApplyStepsIs
    <2>3. Continuation(left) = IF deploys # {} THEN "deployLock" ELSE "stop"
      BY <1>7, <2>2, LeftIs
    <2>4. /\ l \in Locals /\ l.cmd = "toggle" /\ l.on \subseteq l.svcs
          /\ l.left = left /\ l.deploys = deploys /\ l.restart = restart
      <3> HIDE DEF deploys, restart, left
      <3> QED
        BY <1>2, <2>2, NoCommandType DEF Locals, NoCommand
    <2>5. LeftAt(Continuation(left), l)
      <3>1. deploys = {} => left = <<"restart">>
        BY <1>7, <2>2
      <3> HIDE DEF l
      <3> QED
        BY <2>3, <2>4, <3>1 DEF LeftAt
    <2> HIDE DEF l, left, restart, deploys
    <2>6. Moves(p) /\ pc'[p] = Continuation(left) /\ loc'[p] = l
      <3>1. Continuation(left) \in Places /\ l \in Locals /\ TypeInv
        BY <2>3, <2>4 DEF BaseInv, Places
      <3> QED
        BY <2>1, <3>1, GotoIs
    <2> QED
      BY <1>1, <1>3, <1>4, <1>5, <2>3, <2>4, <2>5, <2>6 DEF BaseMove
  <1> QED
    BY <1>6, <1>7

LEMMA RollBackIs ==
    ASSUME BaseInv, NEW p \in Sessions, RollBack(p)
    PROVE  BaseMove(p) /\ pc'[p] = "idle" /\ loc'[p] = NoCommand /\ lock = p
PROOF
  <1>1. lock = p /\ lock' = NoSession
    BY DEF RollBack, BaseInv, LockInv
  <1>2. OweRestart(p, {}) \in [Services -> Debts]
    BY OweTypes DEF BaseInv
  <1>3. owed' \in [Kinds -> [Services -> Debts]]
    BY <1>2 DEF RollBack, BaseInv, TypeInv, Kinds
  <1>4. enabled' \in SUBSET Services
    BY DEF RollBack, BaseInv, TypeInv, Locals
  <1> QED
    BY <1>1, <1>3, <1>4, EndKeeps DEF RollBack, BaseInv, TypeInv

LEMMA ClearAppliedIs ==
    ASSUME BaseInv, NEW p \in Sessions, ClearApplied(p)
    PROVE  BaseMove(p) /\ pc'[p] = "idle" /\ loc'[p] = NoCommand
PROOF
  <1>1. lock = NoSession /\ lock' = lock
    BY DEF ClearApplied
  <1>2. disk' \in Journals
    BY ClearPendingServicesIs, ClearPendingRestartIs DEF ClearApplied, BaseInv, TypeInv
  <1> QED
    BY <1>1, <1>2, EndKeeps DEF ClearApplied, ghosts, BaseInv, TypeInv

LEMMA BeginDeployIs ==
    ASSUME BaseInv, NEW p \in Sessions, NEW cmd \in {"deploy", "force"},
           NEW svcs \in SUBSET Services, BeginDeploy(p, cmd, svcs)
    PROVE  BaseMove(p) /\ pc'[p] = "deployLock" /\ loc'[p].cmd = cmd
PROOF
  <1> DEFINE l == [NoCommand EXCEPT !.cmd = cmd, !.svcs = svcs,
                                    !.cfg = IF svcs = {} THEN enabled ELSE {}]
  <1>1. /\ l \in Locals /\ l.cmd = cmd /\ l.on \subseteq l.svcs
        /\ LeftAt("deployLock", l)
    BY NoCommandType DEF Locals, LeftAt, NoCommand, BaseInv, TypeInv
  <1>2. Goto(p, "deployLock") /\ loc' = [loc EXCEPT ![p] = l] /\ lock # p
    BY DEF BeginDeploy, BaseInv, LockInv
  <1> HIDE DEF l
  <1>3. Moves(p) /\ pc'[p] = "deployLock" /\ loc'[p] = l
    BY <1>1, <1>2, GotoIs DEF BaseInv, Places
  <1> QED
    BY <1>1, <1>2, <1>3 DEF BeginDeploy, ghosts, BaseInv, TypeInv, BaseMove

\* After a deploy, or a run, an apply goes on to its restart or to its clear.
Onward(p) ==
    /\ BaseMove(p)
    /\ loc[p].cmd # "toggle" => pc'[p] = "idle" /\ loc'[p] = NoCommand
    /\ loc[p].cmd = "toggle" =>
          /\ pc'[p] \in {"stop", "clear"}
          /\ pc[p] = "runLock" => pc'[p] = "clear"
          /\ pc[p] # "runLock" => (pc'[p] = "clear" <=> ~loc[p].restart)
          /\ loc'[p].deploys = loc[p].deploys /\ loc'[p].restart = loc[p].restart
          /\ loc'[p].cmd = "toggle"

LEMMA StepDoneKeeps ==
    ASSUME BaseInv, NEW p \in Sessions, StepDone(p),
           pc[p] \in {"deployLock", "deploying", "runLock"},
           lock' = IF lock = p THEN NoSession ELSE lock,
           enabled' \in SUBSET Services, wanted' \in SUBSET Services,
           disk' \in Journals, owed' \in [Kinds -> [Services -> Debts]]
    PROVE  Onward(p)
PROOF
  <1>1. TypeInv /\ LeftInv /\ loc[p].restart \in BOOLEAN /\ loc[p].on \subseteq loc[p].svcs
    BY DEF BaseInv, TypeInv, LockInv, Locals
  <1>2. /\ Moves(p)
        /\ loc[p].cmd # "toggle" => pc'[p] = "idle" /\ loc'[p] = NoCommand
        /\ loc[p].cmd = "toggle" =>
             /\ pc[p] = "runLock" => pc'[p] = "clear"
             /\ pc[p] # "runLock" =>
                   IF loc[p].restart THEN pc'[p] = "stop" /\ loc'[p].left = <<"restart">>
                   ELSE pc'[p] = "clear"
             /\ loc'[p].cmd = "toggle"
             /\ loc'[p].deploys = loc[p].deploys /\ loc'[p].restart = loc[p].restart
             /\ loc'[p].svcs = loc[p].svcs /\ loc'[p].on = loc[p].on
    BY <1>1, StepDoneIs
  <1>3. CASE loc[p].cmd # "toggle"
    BY <1>2, <1>3, NoCommandIs DEF Onward, BaseMove
  <1>4. CASE loc[p].cmd = "toggle"
    BY <1>1, <1>2, <1>4 DEF Onward, BaseMove, LeftAt
  <1> QED
    BY <1>3, <1>4

LEMMA DeployUpToDateIs ==
    ASSUME BaseInv, NEW p \in Sessions, DeployUpToDate(p)
    PROVE  Onward(p)
PROOF
  <1>1. owed' \in [Kinds -> [Services -> Debts]]
    BY DoneIs DEF DeployUpToDate, BaseInv, Kinds
  <1>2. lock' = IF lock = p THEN NoSession ELSE lock
    BY DEF DeployUpToDate
  <1> QED
    BY <1>1, <1>2, StepDoneKeeps DEF DeployUpToDate, BaseInv, TypeInv

LEMMA StartDeployIs ==
    ASSUME BaseInv, NEW p \in Sessions, StartDeploy(p)
    PROVE  /\ BaseMove(p)
           /\ pc'[p] = "deploying"
           /\ loc'[p].cmd = loc[p].cmd
           /\ loc[p].cmd # "force" =>
                 loc'[p].mem.pending = disk.pending /\ disk'.pending = disk.pending
PROOF
  <1> DEFINE base == IF loc[p].cmd = "force" THEN EmptyJournal ELSE disk
             marked == [base EXCEPT !.last[Project] = IF FullDeploy(p) THEN "in_progress" ELSE @]
             l == [loc[p] EXCEPT !.mem = marked]
  <1>1. marked \in Journals /\ marked.pending = base.pending
    <2>1. base \in Journals /\ FullDeploy(p) \in BOOLEAN
      BY EmptyType DEF BaseInv, TypeInv, FullDeploy
    <2> HIDE DEF base
    <2> QED
      BY <2>1, MarkedIs
  <1>2. Goto(p, "deploying") /\ loc' = [loc EXCEPT ![p] = l] /\ disk' = marked
    BY DEF StartDeploy
  <1>3. base = disk \/ loc[p].cmd = "force"
    OBVIOUS
  <1> HIDE DEF marked, base
  <1>4. /\ l \in Locals /\ l.cmd = loc[p].cmd /\ l.mem = marked
        /\ l.on \subseteq l.svcs
    <2>1. loc[p] \in Locals /\ loc[p].on \subseteq loc[p].svcs
      BY DEF BaseInv, TypeInv, LockInv
    <2> QED
      BY <1>1, <2>1 DEF Locals
  <1>5. LeftAt("deploying", l)
    <2>1. pc[p] = "deployLock" /\ LeftAt(pc[p], loc[p])
      BY DEF StartDeploy, BaseInv, LeftInv
    <2>2. l.left = loc[p].left /\ l.deploys = loc[p].deploys /\ l.restart = loc[p].restart
      BY DEF BaseInv, TypeInv, Locals
    <2> QED
      BY <1>4, <2>1, <2>2 DEF LeftAt
  <1> HIDE DEF l
  <1>6. Moves(p) /\ pc'[p] = "deploying" /\ loc'[p] = l
    BY <1>2, <1>4, GotoIs DEF BaseInv, Places
  <1> QED
    BY <1>1, <1>2, <1>3, <1>4, <1>5, <1>6 DEF StartDeploy, ghosts, BaseInv, TypeInv,
       BaseMove

LEMMA FinishDeployIs ==
    ASSUME BaseInv, NEW p \in Sessions, FinishDeploy(p)
    PROVE  /\ Onward(p)
           /\ lock = p
           /\ disk'.pending.restart = loc[p].mem.pending.restart
           /\ disk'.pending.deploy =
                 IF loc[p].cmd = "toggle" THEN loc[p].mem.pending.deploy
                 ELSE loc[p].mem.pending.deploy \ DeployScope(p)
PROOF
  <1> DEFINE j == Recorded(p, DeployScope(p), {}, TRUE)
  <1>1. loc[p].mem \in Journals
    BY DEF BaseInv, TypeInv, Locals
  <1>2. j \in Journals /\ j.pending = loc[p].mem.pending
    BY <1>1, RecordedIs
  <1>3. disk' = IF loc[p].cmd = "toggle" THEN j ELSE ClearPendingServices(j, DeployScope(p))
    BY DEF FinishDeploy
  <1> HIDE DEF j
  <1>4. /\ disk' \in Journals
        /\ disk'.pending.restart = loc[p].mem.pending.restart
        /\ disk'.pending.deploy = IF loc[p].cmd = "toggle" THEN loc[p].mem.pending.deploy
                                  ELSE loc[p].mem.pending.deploy \ DeployScope(p)
    <2>1. LET k == ClearPendingServices(j, DeployScope(p))
          IN  /\ k \in Journals
              /\ k.pending.restart = j.pending.restart
              /\ k.pending.deploy = j.pending.deploy \ DeployScope(p)
      BY <1>2, ClearPendingServicesIs
    <2> QED
      BY <1>2, <1>3, <2>1
  <1>5. owed' \in [Kinds -> [Services -> Debts]]
    BY DoneIs DEF FinishDeploy, BaseInv, Kinds
  <1>6. lock = p /\ lock' = NoSession
    BY DEF FinishDeploy, BaseInv, LockInv
  <1> QED
    BY <1>4, <1>5, <1>6, StepDoneKeeps DEF FinishDeploy, BaseInv, TypeInv

LEMMA FailDeployIs ==
    ASSUME BaseInv, NEW p \in Sessions, FailDeploy(p)
    PROVE  /\ BaseMove(p) /\ pc'[p] = "idle" /\ loc'[p] = NoCommand /\ lock = p
           /\ disk'.pending = loc[p].mem.pending
PROOF
  <1>1. loc[p].mem \in Journals
    BY DEF BaseInv, TypeInv, Locals
  <1>2. PICK failed, deployed : disk' = Recorded(p, deployed, failed, FALSE)
    BY DEF FailDeploy
  <1>3. disk' \in Journals /\ disk'.pending = loc[p].mem.pending
    BY <1>1, <1>2, RecordedIs
  <1>4. lock = p /\ lock' = NoSession
    BY DEF FailDeploy, BaseInv, LockInv
  <1> QED
    BY <1>3, <1>4, EndKeeps DEF FailDeploy, ghosts, BaseInv, TypeInv

LEMMA BeginLifecycleIs ==
    ASSUME BaseInv, NEW p \in Sessions, NEW cmd \in {"run", "stop", "restart"},
           BeginLifecycle(p, cmd)
    PROVE  /\ BaseMove(p)
           /\ pc'[p] \in {"run", "stop"}
           /\ loc'[p].cmd = cmd /\ loc'[p].deploys = {}
PROOF
  <1> DEFINE l == [NoCommand EXCEPT !.cmd = cmd]
             place == IF cmd = "run" THEN "run" ELSE "stop"
  <1>1. /\ l \in Locals /\ l.cmd = cmd /\ l.deploys = {} /\ l.on \subseteq l.svcs
        /\ LeftAt(place, l)
    BY NoCommandType DEF Locals, LeftAt, NoCommand
  <1>2. Goto(p, place) /\ loc' = [loc EXCEPT ![p] = l] /\ lock # p
    BY DEF BeginLifecycle, BaseInv, LockInv
  <1>3. place \in {"run", "stop"} /\ place \in Places
    BY DEF Places
  <1> HIDE DEF l, place
  <1>4. Moves(p) /\ pc'[p] = place /\ loc'[p] = l
    BY <1>1, <1>2, <1>3, GotoIs DEF BaseInv
  <1> QED
    BY <1>1, <1>2, <1>3, <1>4 DEF BeginLifecycle, ghosts, BaseInv, TypeInv, BaseMove

\* The command goes to another of its places that is not in the locked
\* sections, with locals that tell no more of what is left.
LEMMA StayKeeps ==
    ASSUME BaseInv, NEW p \in Sessions, NEW place \in Places \ {"pend", "deploying"},
           Goto(p, place), NEW l \in Locals, loc' = [loc EXCEPT ![p] = l],
           l.on = loc[p].on, l.svcs = loc[p].svcs, LeftAt(place, l),
           lock # p, lock' = lock,
           enabled' \in SUBSET Services, wanted' \in SUBSET Services,
           disk' \in Journals, owed' \in [Kinds -> [Services -> Debts]]
    PROVE  BaseMove(p) /\ pc'[p] = place /\ loc'[p] = l
PROOF
  <1>1. Moves(p) /\ pc'[p] = place /\ loc'[p] = l
    BY GotoIs DEF BaseInv
  <1> QED
    BY <1>1 DEF BaseInv, LockInv, BaseMove

LEMMA RunStopIs ==
    ASSUME BaseInv, NEW p \in Sessions, RunStop(p)
    PROVE  /\ BaseMove(p)
           /\ \/ pc'[p] = "idle" /\ loc'[p] = NoCommand
              \/ pc'[p] = "run" /\ loc'[p] = loc[p]
PROOF
  <1>1. disk' \in Journals /\ owed' \in [Kinds -> [Services -> Debts]]
    BY ClearPendingRestartIs, DoneIs DEF RunStop, BaseInv, TypeInv, Kinds
  <1>2. /\ lock = NoSession /\ lock' = lock /\ lock # p
        /\ enabled' \in SUBSET Services /\ wanted' \in SUBSET Services
    BY ToggleAssumption DEF RunStop, BaseInv, TypeInv
  <1>3. CASE loc[p].cmd = "stop"
    <2>1. End(p)
      BY <1>3 DEF RunStop
    <2> QED
      BY <1>1, <1>2, <2>1, EndKeeps
  <1>4. CASE loc[p].cmd # "stop"
    <2>1. /\ Goto(p, "run") /\ loc' = [loc EXCEPT ![p] = loc[p]]
          /\ loc[p] \in Locals /\ "run" \in Places \ {"pend", "deploying"}
      BY <1>4 DEF RunStop, BaseInv, TypeInv, Places
    <2>2. LeftAt("run", loc[p])
      BY DEF RunStop, BaseInv, LeftInv, LeftAt
    <2> QED
      BY <1>1, <1>2, <2>1, <2>2, StayKeeps
  <1> QED
    BY <1>3, <1>4

LEMMA LoadForRunIs ==
    ASSUME BaseInv, NEW p \in Sessions, LoadForRun(p)
    PROVE  /\ BaseMove(p)
           /\ pc'[p] = "runLock"
           /\ loc'[p].cmd = loc[p].cmd /\ loc'[p].deploys = loc[p].deploys
           /\ loc'[p].cfg = enabled
PROOF
  <1> DEFINE l == [loc[p] EXCEPT !.cfg = enabled]
  <1>1. loc[p] \in Locals /\ enabled \in SUBSET Services /\ LeftAt("run", loc[p])
    BY DEF BaseInv, TypeInv, LoadForRun, LeftInv
  <1>2. /\ l \in Locals /\ l.cfg = enabled
        /\ l.cmd = loc[p].cmd /\ l.deploys = loc[p].deploys
        /\ l.on = loc[p].on /\ l.svcs = loc[p].svcs /\ l.left = loc[p].left
    BY <1>1 DEF Locals
  <1>3. Goto(p, "runLock") /\ loc' = [loc EXCEPT ![p] = l]
    BY DEF LoadForRun
  <1> HIDE DEF l
  <1>4. LeftAt("runLock", l) /\ "runLock" \in Places \ {"pend", "deploying"}
    BY <1>1, <1>2 DEF LeftAt, Places
  <1>5. /\ lock # p /\ lock' = lock
        /\ enabled' \in SUBSET Services /\ wanted' \in SUBSET Services
        /\ disk' \in Journals /\ owed' \in [Kinds -> [Services -> Debts]]
    <2>1. lock' = lock /\ disk' = disk /\ enabled' = enabled /\ wanted' = wanted /\ owed' = owed
      BY DEF LoadForRun, ghosts
    <2>2. lock # p
      BY DEF LoadForRun, BaseInv, LockInv
    <2>3. /\ enabled \in SUBSET Services /\ wanted \in SUBSET Services
          /\ disk \in Journals /\ owed \in [Kinds -> [Services -> Debts]]
      BY DEF BaseInv, TypeInv
    <2> QED
      BY <2>1, <2>2, <2>3
  <1>6. BaseMove(p) /\ pc'[p] = "runLock" /\ loc'[p] = l
    BY <1>2, <1>3, <1>4, <1>5, StayKeeps, ZenonT(40)
  <1> QED
    BY <1>2, <1>6

LEMMA RunUpIs ==
    ASSUME BaseInv, NEW p \in Sessions, RunUp(p)
    PROVE  \/ Onward(p)
           \/ BaseMove(p) /\ pc'[p] = "idle" /\ loc'[p] = NoCommand
           \/ BaseMove(p) /\ pc'[p] = "tail" /\ loc'[p].cmd # "force"
PROOF
  <1>1. disk' \in Journals /\ owed' \in [Kinds -> [Services -> Debts]]
    BY ClearPendingRestartIs, DoneIs DEF RunUp, BaseInv, TypeInv, Kinds
  <1>2. /\ lock = NoSession /\ lock' = lock /\ lock # p
        /\ enabled' \in SUBSET Services /\ wanted' \in SUBSET Services
    BY ToggleAssumption DEF RunUp, BaseInv, TypeInv
  <1>3. CASE loc[p].cmd = "run"
    <2>1. End(p)
      BY <1>3 DEF RunUp
    <2> QED
      BY <1>1, <1>2, <2>1, EndKeeps
  <1>4. CASE loc[p].cmd = "restart"
    <2> DEFINE l == [loc[p] EXCEPT !.cfg = {}]
    <2>1. loc[p] \in Locals
      BY DEF BaseInv, TypeInv
    <2>2. /\ l \in Locals /\ l.cmd = "restart"
          /\ l.on = loc[p].on /\ l.svcs = loc[p].svcs
      BY <1>4, <2>1 DEF Locals
    <2>3. Goto(p, "tail") /\ loc' = [loc EXCEPT ![p] = l]
      BY <1>4 DEF RunUp
    <2> HIDE DEF l
    <2>4. LeftAt("tail", l) /\ "tail" \in Places \ {"pend", "deploying"}
      BY <2>2 DEF LeftAt, Places
    <2>5. BaseMove(p) /\ pc'[p] = "tail" /\ loc'[p] = l
      BY <1>1, <1>2, <2>2, <2>3, <2>4, StayKeeps
    <2> QED
      BY <2>2, <2>5
  <1>5. CASE loc[p].cmd \notin {"run", "restart"}
    <2>1. StepDone(p) /\ pc[p] = "runLock"
      BY <1>5 DEF RunUp
    <2> QED
      BY <1>1, <1>2, <2>1, StepDoneKeeps
  <1> QED
    BY <1>3, <1>4, <1>5

LEMMA LoadUnlockedIs ==
    ASSUME BaseInv, NEW p \in Sessions, LoadUnlocked(p)
    PROVE  /\ BaseMove(p)
           /\ \/ pc'[p] = "idle" /\ loc'[p] = NoCommand
              \/ /\ pc'[p] = "tailSave"
                 /\ loc'[p].mem = disk /\ loc'[p].cmd = loc[p].cmd
PROOF
  <1>1. /\ lock # p /\ lock' = lock
        /\ enabled' \in SUBSET Services /\ wanted' \in SUBSET Services
        /\ disk' \in Journals /\ owed' \in [Kinds -> [Services -> Debts]]
    BY DEF LoadUnlocked, BaseInv, LockInv, TypeInv, ghosts
  <1>2. CASE disk.pending = NoPending
    <2>1. End(p)
      BY <1>2 DEF LoadUnlocked
    <2> QED
      BY <1>1, <2>1, EndKeeps
  <1>3. CASE disk.pending # NoPending
    <2> DEFINE l == [loc[p] EXCEPT !.mem = disk]
    <2>1. loc[p] \in Locals /\ disk \in Journals
      BY DEF BaseInv, TypeInv
    <2>2. /\ l \in Locals /\ l.mem = disk /\ l.cmd = loc[p].cmd
          /\ l.on = loc[p].on /\ l.svcs = loc[p].svcs
      BY <2>1 DEF Locals
    <2>3. Goto(p, "tailSave") /\ loc' = [loc EXCEPT ![p] = l]
      BY <1>3 DEF LoadUnlocked
    <2> HIDE DEF l
    <2>4. LeftAt("tailSave", l) /\ "tailSave" \in Places \ {"pend", "deploying"}
      BY DEF LeftAt, Places
    <2>5. BaseMove(p) /\ pc'[p] = "tailSave" /\ loc'[p] = l
      BY <1>1, <2>2, <2>3, <2>4, StayKeeps
    <2> QED
      BY <2>2, <2>5
  <1> QED
    BY <1>2, <1>3

LEMMA SaveUnlockedIs ==
    ASSUME BaseInv, NEW p \in Sessions, SaveUnlocked(p)
    PROVE  /\ BaseMove(p) /\ pc'[p] = "idle" /\ loc'[p] = NoCommand
           /\ disk'.pending.deploy = loc[p].mem.pending.deploy
PROOF
  <1>1. loc[p].mem \in Journals /\ lock # p
    BY DEF SaveUnlocked, BaseInv, TypeInv, LockInv, Locals
  <1>2. disk' \in Journals /\ disk'.pending.deploy = loc[p].mem.pending.deploy
    BY <1>1, ClearPendingRestartIs DEF SaveUnlocked
  <1> QED
    BY <1>1, <1>2, EndKeeps DEF SaveUnlocked, ghosts, BaseInv, TypeInv

LEMMA ResetServiceIs ==
    ASSUME BaseInv, NEW p \in Sessions, NEW s \in Services, ResetService(p, s)
    PROVE  /\ BaseMove(p) /\ pc'[p] = pc[p] /\ loc'[p] = loc[p]
           /\ disk'.pending.restart = disk.pending.restart
           /\ disk'.pending.deploy = disk.pending.deploy \cup {s}
PROOF
  <1>1. /\ disk' \in Journals
        /\ disk'.pending.restart = disk.pending.restart
        /\ disk'.pending.deploy = disk.pending.deploy \cup {s}
    BY ReplaceIs DEF ResetService, BaseInv, TypeInv
  <1>2. OweDeploy(p, {s}) \in [Services -> Debts]
    BY OweTypes DEF BaseInv
  <1>3. owed' \in [Kinds -> [Services -> Debts]]
    BY <1>2 DEF ResetService, BaseInv, TypeInv, Kinds
  <1>4. Moves(p) /\ lock = NoSession /\ lock' = lock /\ lock # p
    BY ToggleAssumption DEF ResetService, BaseInv, TypeInv, Moves
  <1>5. LeftAt(pc[p], loc[p]) /\ loc[p].on \subseteq loc[p].svcs /\ pc[p] = "idle"
    BY DEF ResetService, BaseInv, LeftInv, LockInv
  <1> QED
    BY <1>1, <1>3, <1>4, <1>5 DEF ResetService, BaseInv, TypeInv, BaseMove

LEMMA GiveUpIs ==
    ASSUME BaseInv, NEW p \in Sessions, GiveUp(p)
    PROVE  BaseMove(p) /\ pc'[p] = "idle" /\ loc'[p] = NoCommand
PROOF
  <1>1. lock # p
    BY DEF GiveUp, BaseInv, LockInv
  <1> QED
    BY <1>1, EndKeeps DEF GiveUp, ghosts, BaseInv, TypeInv

LEMMA CrashIs ==
    ASSUME BaseInv, NEW p \in Sessions, Crash(p)
    PROVE  BaseMove(p) /\ pc'[p] = "idle" /\ loc'[p] = NoCommand
PROOF
  <1>1. OweRestart(p, {}) \in [Services -> Debts]
    BY OweTypes DEF BaseInv
  <1>2. owed' \in [Kinds -> [Services -> Debts]] /\ wanted' \in SUBSET Services
    BY <1>1 DEF Crash, ghosts, BaseInv, TypeInv, Kinds
  <1> QED
    BY <1>2, EndKeeps DEF Crash, BaseInv, TypeInv

LEMMA OnwardIs == \A p : Onward(p) => BaseMove(p)
BY DEF Onward

(* Every step keeps the types, the locks where the places of the commands   *)
(* say they are, and what is left of an apply.                              *)
LEMMA BaseStep == BaseInv /\ [Next]_vars => BaseInv'
PROOF
  <1> SUFFICES ASSUME BaseInv, [Next]_vars PROVE BaseInv'
    OBVIOUS
  <1>0. CASE UNCHANGED vars
    BY <1>0 DEF vars, BaseInv, TypeInv, LockInv, LeftInv
  <1>1. ASSUME NEW p \in Sessions, NEW svcs \in SUBSET Services, BeginToggle(p, svcs)
        PROVE  BaseInv'
    BY <1>1, BeginToggleIs, BaseMoveKeeps
  <1>2. ASSUME NEW p \in Sessions, WriteLocal(p) PROVE BaseInv'
    BY <1>2, WriteLocalIs, BaseMoveKeeps
  <1>3. ASSUME NEW p \in Sessions, CommitToggle(p) PROVE BaseInv'
    BY <1>3, CommitToggleIs, BaseMoveKeeps
  <1>4. ASSUME NEW p \in Sessions, RollBack(p) PROVE BaseInv'
    BY <1>4, RollBackIs, BaseMoveKeeps
  <1>5. ASSUME NEW p \in Sessions, ClearApplied(p) PROVE BaseInv'
    BY <1>5, ClearAppliedIs, BaseMoveKeeps
  <1>6. ASSUME NEW p \in Sessions, NEW cmd \in {"deploy", "force"},
               NEW svcs \in SUBSET Services, BeginDeploy(p, cmd, svcs)
        PROVE  BaseInv'
    BY <1>6, BeginDeployIs, BaseMoveKeeps
  <1>7. ASSUME NEW p \in Sessions, DeployUpToDate(p) PROVE BaseInv'
    BY <1>7, DeployUpToDateIs, OnwardIs, BaseMoveKeeps
  <1>8. ASSUME NEW p \in Sessions, StartDeploy(p) PROVE BaseInv'
    BY <1>8, StartDeployIs, BaseMoveKeeps
  <1>9. ASSUME NEW p \in Sessions, FinishDeploy(p) PROVE BaseInv'
    BY <1>9, FinishDeployIs, OnwardIs, BaseMoveKeeps
  <1>10. ASSUME NEW p \in Sessions, FailDeploy(p) PROVE BaseInv'
    BY <1>10, FailDeployIs, BaseMoveKeeps
  <1>11. ASSUME NEW p \in Sessions, NEW cmd \in {"run", "stop", "restart"},
                BeginLifecycle(p, cmd)
         PROVE  BaseInv'
    BY <1>11, BeginLifecycleIs, BaseMoveKeeps
  <1>12. ASSUME NEW p \in Sessions, RunStop(p) PROVE BaseInv'
    BY <1>12, RunStopIs, BaseMoveKeeps
  <1>13. ASSUME NEW p \in Sessions, LoadForRun(p) PROVE BaseInv'
    BY <1>13, LoadForRunIs, BaseMoveKeeps
  <1>14. ASSUME NEW p \in Sessions, RunUp(p) PROVE BaseInv'
    BY <1>14, RunUpIs, OnwardIs, BaseMoveKeeps
  <1>15. ASSUME NEW p \in Sessions, LoadUnlocked(p) PROVE BaseInv'
    BY <1>15, LoadUnlockedIs, BaseMoveKeeps
  <1>16. ASSUME NEW p \in Sessions, SaveUnlocked(p) PROVE BaseInv'
    BY <1>16, SaveUnlockedIs, BaseMoveKeeps
  <1>17. ASSUME NEW p \in Sessions, NEW s \in Services, ResetService(p, s) PROVE BaseInv'
    BY <1>17, ResetServiceIs, BaseMoveKeeps
  <1>18. ASSUME NEW p \in Sessions, GiveUp(p) PROVE BaseInv'
    BY <1>18, GiveUpIs, BaseMoveKeeps
  <1>19. ASSUME NEW p \in Sessions, Crash(p) PROVE BaseInv'
    BY <1>19, CrashIs, BaseMoveKeeps
  <1> QED
    BY <1>0, <1>1, <1>2, <1>3, <1>4, <1>5, <1>6, <1>7, <1>8, <1>9, <1>10, <1>11, <1>12,
       <1>13, <1>14, <1>15, <1>16, <1>17, <1>18, <1>19 DEF Next

-----------------------------------------------------------------------------
(***************************************************************************)
(* local.yml and the toggles that succeeded                                *)
(***************************************************************************)
\* Whoever has the locks is alone in a locked section.
LEMMA Alone ==
    ASSUME BaseInv, NEW p \in Sessions \cup {NoSession}, lock = p
    PROVE  \A q \in Sessions \ {p} : pc[q] \notin {"pend", "deploying"}
BY DEF BaseInv, LockInv

\* A step that is not about local.yml.
LEMMA ToggleFrame ==
    ASSUME BaseInv, ToggleInv, NEW p \in Sessions, BaseMove(p),
           enabled' = enabled, wanted' = wanted, pc[p] # "pend", pc'[p] # "pend"
    PROVE  ToggleInv'
BY DEF ToggleInv, Toggled, BaseMove, Moves

(* Every step keeps local.yml as the toggles that succeeded made it, but for *)
(* the one toggle in its locked section.                                     *)
LEMMA ToggleStep == BaseInv /\ ToggleInv /\ [Next]_vars => ToggleInv'
PROOF
  <1> SUFFICES ASSUME BaseInv, ToggleInv, [Next]_vars PROVE ToggleInv'
    OBVIOUS
  <1>0. CASE UNCHANGED vars
    BY <1>0 DEF vars, ToggleInv, Toggled
  <1>1. ASSUME NEW p \in Sessions, NEW svcs \in SUBSET Services, BeginToggle(p, svcs)
        PROVE  ToggleInv'
    BY <1>1, BeginToggleIs, ToggleFrame DEF BeginToggle, ghosts
  <1>2. ASSUME NEW p \in Sessions, WriteLocal(p) PROVE ToggleInv'
    <2>1. /\ BaseMove(p) /\ pc'[p] = "pend" /\ loc'[p].before = enabled
          /\ loc'[p].svcs = loc[p].svcs /\ loc'[p].on = loc[p].on
      BY <1>2, WriteLocalIs
    <2>2. /\ \A q \in Sessions : pc[q] # "pend"
          /\ enabled' = Toggled(enabled, p) /\ wanted' = wanted
      BY <1>2, ToggleAssumption, Alone DEF WriteLocal, ghosts
    <2>3. \A q \in Sessions \ {p} : pc'[q] # "pend"
      BY <2>1, <2>2 DEF BaseMove, Moves
    <2> QED
      BY <2>1, <2>2, <2>3 DEF ToggleInv, Toggled
  <1>3. ASSUME NEW p \in Sessions, CommitToggle(p) PROVE ToggleInv'
    <2>1. BaseMove(p) /\ pc'[p] # "pend" /\ lock = p /\ pc[p] = "pend"
      BY <1>3, CommitToggleIs DEF CommitToggle
    <2>2. \A q \in Sessions : pc'[q] # "pend"
      BY <2>1, Alone DEF BaseMove, Moves
    <2> QED
      BY <1>3, <2>1, <2>2 DEF ToggleInv, CommitToggle
  <1>4. ASSUME NEW p \in Sessions, RollBack(p) PROVE ToggleInv'
    <2>1. BaseMove(p) /\ pc'[p] # "pend" /\ lock = p /\ pc[p] = "pend"
      BY <1>4, RollBackIs DEF RollBack
    <2>2. \A q \in Sessions : pc'[q] # "pend"
      BY <2>1, Alone DEF BaseMove, Moves
    <2> QED
      BY <1>4, <2>1, <2>2 DEF ToggleInv, RollBack
  <1>5. ASSUME NEW p \in Sessions, ClearApplied(p) PROVE ToggleInv'
    BY <1>5, ClearAppliedIs, ToggleFrame DEF ClearApplied, ghosts
  <1>6. ASSUME NEW p \in Sessions, NEW cmd \in {"deploy", "force"},
               NEW svcs \in SUBSET Services, BeginDeploy(p, cmd, svcs)
        PROVE  ToggleInv'
    BY <1>6, BeginDeployIs, ToggleFrame DEF BeginDeploy, ghosts
  <1>7. ASSUME NEW p \in Sessions, DeployUpToDate(p) PROVE ToggleInv'
    BY <1>7, DeployUpToDateIs, OnwardIs, ToggleFrame DEF DeployUpToDate, Onward
  <1>8. ASSUME NEW p \in Sessions, StartDeploy(p) PROVE ToggleInv'
    BY <1>8, StartDeployIs, ToggleFrame DEF StartDeploy, ghosts
  <1>9. ASSUME NEW p \in Sessions, FinishDeploy(p) PROVE ToggleInv'
    BY <1>9, FinishDeployIs, OnwardIs, ToggleFrame DEF FinishDeploy, Onward
  <1>10. ASSUME NEW p \in Sessions, FailDeploy(p) PROVE ToggleInv'
    BY <1>10, FailDeployIs, ToggleFrame DEF FailDeploy, ghosts
  <1>11. ASSUME NEW p \in Sessions, NEW cmd \in {"run", "stop", "restart"},
                BeginLifecycle(p, cmd)
         PROVE  ToggleInv'
    BY <1>11, BeginLifecycleIs, ToggleFrame DEF BeginLifecycle, ghosts
  <1>12. ASSUME NEW p \in Sessions, RunStop(p) PROVE ToggleInv'
    BY <1>12, RunStopIs, ToggleFrame DEF RunStop
  <1>13. ASSUME NEW p \in Sessions, LoadForRun(p) PROVE ToggleInv'
    BY <1>13, LoadForRunIs, ToggleFrame DEF LoadForRun, ghosts
  <1>14. ASSUME NEW p \in Sessions, RunUp(p) PROVE ToggleInv'
    BY <1>14, RunUpIs, OnwardIs, ToggleFrame DEF RunUp, Onward
  <1>15. ASSUME NEW p \in Sessions, LoadUnlocked(p) PROVE ToggleInv'
    BY <1>15, LoadUnlockedIs, ToggleFrame DEF LoadUnlocked, ghosts
  <1>16. ASSUME NEW p \in Sessions, SaveUnlocked(p) PROVE ToggleInv'
    BY <1>16, SaveUnlockedIs, ToggleFrame DEF SaveUnlocked, ghosts
  <1>17. ASSUME NEW p \in Sessions, NEW s \in Services, ResetService(p, s)
         PROVE  ToggleInv'
    BY <1>17, ResetServiceIs, ToggleFrame DEF ResetService
  <1>18. ASSUME NEW p \in Sessions, GiveUp(p) PROVE ToggleInv'
    BY <1>18, GiveUpIs, ToggleFrame DEF GiveUp, ghosts
  <1>19. ASSUME NEW p \in Sessions, Crash(p) PROVE ToggleInv'
    <2>1. BaseMove(p) /\ pc'[p] # "pend"
      BY <1>19, CrashIs
    <2>2. CASE pc[p] = "pend"
      <3>1. lock = p
        BY <2>2 DEF BaseInv, LockInv
      <3>2. \A q \in Sessions : pc'[q] # "pend"
        BY <2>1, <3>1, Alone DEF BaseMove, Moves
      <3> QED
        BY <1>19, <2>2, <3>2 DEF ToggleInv, Crash
    <2>3. CASE pc[p] # "pend"
      BY <1>19, <2>1, <2>3, ToggleFrame DEF Crash, ghosts
    <2> QED
      BY <2>2, <2>3
  <1> QED
    BY <1>0, <1>1, <1>2, <1>3, <1>4, <1>5, <1>6, <1>7, <1>8, <1>9, <1>10, <1>11, <1>12,
       <1>13, <1>14, <1>15, <1>16, <1>17, <1>18, <1>19 DEF Next

-----------------------------------------------------------------------------
(***************************************************************************)
(* What is owed is pending                                                 *)
(***************************************************************************)
\* No session forces a deploy: --force empties the journal, what is pending
\* included, before it has deployed anything.
NoForce ==
    \A p \in Sessions, svcs \in SUBSET Services : <<"force", svcs>> \notin Commands[p]

\* A step after which no more is owed than before, and that local.yml and its
\* toggles do not see.
LEMMA WorkFrame ==
    ASSUME BaseInv, WorkInv, NEW p \in Sessions, BaseMove(p),
           enabled' = enabled, pc[p] # "pend", pc'[p] # "pend",
           \A k \in Kinds, s \in Services : owed'[k][s] = "owed" => owed[k][s] = "owed",
           loc'[p].cmd # "force", OwedWorkPending', DeployDebts(p)', RestartDebts(p)'
    PROVE  WorkInv'
PROOF
  <1>1. ASSUME NEW q \in Sessions, q # p PROVE DeployDebts(q)' /\ RestartDebts(q)'
    <2>1. pc'[q] = pc[q] /\ loc'[q] = loc[q]
      BY <1>1 DEF BaseMove, Moves
    <2>2. DeployDebts(q)'
      BY <2>1 DEF WorkInv, DeployDebts, Kinds
    <2>3. \A s \in Services : (\A x \in Sessions : pc'[x] = "pend" => s \notin loc'[x].svcs)
                           => (\A x \in Sessions : pc[x] = "pend" => s \notin loc[x].svcs)
      BY DEF BaseMove, Moves
    <2>4. RestartDebts(q)'
      BY <2>1, <2>3 DEF WorkInv, RestartDebts, Kinds
    <2> QED
      BY <2>2, <2>4
  <1>2. Unforced'
    BY DEF WorkInv, Unforced, BaseMove, Moves
  <1> QED
    BY <1>1, <1>2 DEF WorkInv

\* A command that is where it clears nothing, and holds no copy.
LEMMA NoDebts ==
    ASSUME NEW p \in Sessions,
           pc'[p] \in {"idle", "mutate", "pend", "deployLock"}
    PROVE  DeployDebts(p)' /\ RestartDebts(p)'
BY DEF DeployDebts, RestartDebts

LEMMA UnforcedNone == NoCommand.cmd # "force"
BY NoCommandIs

\* A toggle leaves its locked section, whatever became of it: who is past the
\* work it leaves has raced with it.
LEMMA PendLeaves ==
    ASSUME BaseInv, WorkInv, NEW p \in Sessions, BaseMove(p), pc[p] = "pend",
           pc'[p] \in {"idle", "deployLock", "stop"},
           pc'[p] = "stop" => loc'[p].deploys = {},
           \A s \in Services : s \notin loc[p].svcs => (s \in enabled' <=> s \in enabled),
           NEW R,
           \A s \in Services :
              /\ owed'["deploy"][s] = "owed" =>
                    \/ owed["deploy"][s] = "owed"
                    \/ \A q \in Sessions \ {p} : ~PastDeploy(q, s)
              /\ owed'["restart"][s] = OweRestart(p, R)[s]
    PROVE  \A q \in Sessions : DeployDebts(q)' /\ RestartDebts(q)'
PROOF
  <1>1. lock = p
    BY DEF BaseInv, LockInv
  <1>2. ASSUME NEW q \in Sessions, q # p PROVE DeployDebts(q)' /\ RestartDebts(q)'
    <2>1. pc'[q] = pc[q] /\ loc'[q] = loc[q] /\ pc[q] \notin {"pend", "deploying"}
      BY <1>1, <1>2, Alone DEF BaseMove, Moves
    <2>2. DeployDebts(q)'
      BY <1>2, <2>1 DEF WorkInv, DeployDebts, PastDeploy
    <2>3. ASSUME NEW s \in Services, OweRestart(p, R)[s] = "owed"
          PROVE  \/ ~PastRestart(q)
                 \/ s \notin loc[p].svcs /\ owed["restart"][s] = "owed"
      BY <1>2, <2>3, OweRestartIs
    <2>4. ASSUME NEW s \in Services, s \notin loc[p].svcs
          PROVE  \A x \in Sessions : pc[x] = "pend" => s \notin loc[x].svcs
      BY <1>1, <2>4, Alone
    <2>5. RestartDebts(q)'
      <3> SUFFICES ASSUME NEW s \in Services, owed'["restart"][s] = "owed"
                   PROVE  /\ pc[q] \notin {"tail", "tailSave"}
                          /\ ~(pc[q] = "clear" /\ loc[q].restart)
                          /\ pc[q] = "runLock" => (s \in loc[q].cfg <=> s \in enabled')
        BY <2>1 DEF RestartDebts
      <3>1. OweRestart(p, R)[s] = "owed"
        OBVIOUS
      <3>2. CASE ~PastRestart(q)
        BY <3>2 DEF PastRestart
      <3>3. CASE s \notin loc[p].svcs /\ owed["restart"][s] = "owed"
        BY <2>4, <3>3 DEF WorkInv, RestartDebts
      <3> QED
        BY <2>3, <3>1, <3>2, <3>3
    <2> QED
      BY <2>2, <2>5
  <1>3. DeployDebts(p)' /\ RestartDebts(p)'
    BY DEF DeployDebts, RestartDebts
  <1> QED
    BY <1>2, <1>3

(* Every step keeps what is owed pending, and in the copies of the journal   *)
(* that are going to be written.                                             *)
LEMMA WorkStep ==
    ASSUME NoForce, BaseInv, ToggleInv, WorkInv, [Next]_vars
    PROVE  WorkInv'
PROOF
  <1>0. CASE UNCHANGED vars
    <2>1. \A q \in Sessions : DeployDebts(q)' /\ RestartDebts(q)'
      BY <1>0 DEF vars, WorkInv, DeployDebts, RestartDebts
    <2> QED
      BY <1>0, <2>1 DEF vars, WorkInv, Unforced, OwedWorkPending
  <1>1. ASSUME NEW p \in Sessions, NEW svcs \in SUBSET Services, BeginToggle(p, svcs)
        PROVE  WorkInv'
    <2>1. BaseMove(p) /\ loc'[p].cmd # "force" /\ pc[p] # "pend"
          /\ pc'[p] \in {"idle", "mutate", "deployLock"}
      BY <1>1, BeginToggleIs, UnforcedNone DEF BeginToggle
    <2>2. OwedWorkPending' /\ DeployDebts(p)' /\ RestartDebts(p)'
      BY <1>1, <2>1, NoDebts DEF BeginToggle, ghosts, WorkInv, OwedWorkPending
    <2> QED
      BY <1>1, <2>1, <2>2, WorkFrame DEF BeginToggle, ghosts
  <1>2. ASSUME NEW p \in Sessions, WriteLocal(p) PROVE WorkInv'
    <2>1. /\ BaseMove(p) /\ pc'[p] = "pend" /\ loc'[p].svcs = loc[p].svcs
          /\ loc'[p].cmd = loc[p].cmd
      BY <1>2, WriteLocalIs
    <2>2. /\ \A q \in Sessions : pc[q] # "pend"
          /\ enabled' = (enabled \ loc[p].svcs) \cup loc[p].on
          /\ loc[p].on \subseteq loc[p].svcs
          /\ UNCHANGED <<disk, owed>>
      BY <1>2, ToggleAssumption, Alone DEF WriteLocal, ghosts, Toggled, BaseInv, LockInv
    <2>3. ASSUME NEW q \in Sessions PROVE DeployDebts(q)' /\ RestartDebts(q)'
      <3>1. CASE q = p
        BY <2>1, <3>1, NoDebts
      <3>2. CASE q # p
        <4>1. pc'[q] = pc[q] /\ loc'[q] = loc[q]
          BY <2>1, <3>2 DEF BaseMove, Moves
        <4>2. DeployDebts(q)'
          BY <2>2, <4>1 DEF WorkInv, DeployDebts
        <4>3. RestartDebts(q)'
          BY <2>1, <2>2, <4>1 DEF WorkInv, RestartDebts
        <4> QED
          BY <4>2, <4>3
      <3> QED
        BY <3>1, <3>2
    <2> QED
      BY <2>1, <2>2, <2>3 DEF WorkInv, Unforced, OwedWorkPending, BaseMove, Moves
  <1>3. ASSUME NEW p \in Sessions, CommitToggle(p) PROVE WorkInv'
    <2> DEFINE deploys == DeployContributors(p)
               restarts == RestartContributors(p)
    <2>1. /\ BaseMove(p) /\ pc[p] = "pend" /\ pc'[p] \in {"idle", "deployLock", "stop"}
          /\ pc'[p] = "stop" => loc'[p].deploys = {}
          /\ loc'[p].cmd # "force"
      BY <1>3, CommitToggleIs DEF CommitToggle
    <2>2. enabled' = enabled
      BY <1>3 DEF CommitToggle
    <2>3. CASE loc[p].ever
      <3>1. /\ owed' = [deploy |-> OweDeploy(p, deploys), restart |-> OweRestart(p, restarts)]
            /\ disk' = AddPending(disk, restarts # {}, deploys)
        BY <1>3, <2>3 DEF CommitToggle
      <3>2. deploys \in SUBSET Services /\ disk \in Journals
        BY DEF DeployContributors, BaseInv, TypeInv, Locals
      <3>3. /\ disk.pending.restart \/ restarts # {} => disk'.pending.restart
            /\ disk'.pending.deploy = disk.pending.deploy \cup deploys
        <4> HIDE DEF deploys, restarts
        <4> QED
          BY <3>1, <3>2 DEF AddPending, Journals
      <3> HIDE DEF deploys, restarts
      <3>4. \A s \in Services :
                /\ owed'["deploy"][s] = "owed" =>
                      IF s \in deploys THEN \A q \in Sessions \ {p} : ~PastDeploy(q, s)
                      ELSE owed["deploy"][s] = "owed"
                /\ owed'["restart"][s] = OweRestart(p, restarts)[s]
                /\ owed'["restart"][s] = "owed" =>
                      s \in restarts \/ owed["restart"][s] = "owed"
        BY <3>1, OweDeployIs, OweRestartIs
      <3>5. OwedWorkPending'
        BY <3>3, <3>4 DEF WorkInv, OwedWorkPending
      <3>6. \A q \in Sessions : DeployDebts(q)' /\ RestartDebts(q)'
        BY <2>1, <2>2, <3>4, PendLeaves
      <3> QED
        BY <2>1, <3>5, <3>6 DEF WorkInv, Unforced, BaseMove, Moves
    <2>4. CASE ~loc[p].ever
      <3>1. owed' = [owed EXCEPT !["restart"] = OweRestart(p, {})] /\ disk' = disk
        BY <1>3, <2>4 DEF CommitToggle
      <3>2. \A s \in Services :
                /\ owed'["deploy"][s] = owed["deploy"][s]
                /\ owed'["restart"][s] = OweRestart(p, {})[s]
                /\ owed'["restart"][s] = "owed" => owed["restart"][s] = "owed"
        BY <3>1, OweRestartIs DEF BaseInv, TypeInv, Kinds
      <3>3. OwedWorkPending'
        BY <3>1, <3>2 DEF WorkInv, OwedWorkPending
      <3>4. \A q \in Sessions : DeployDebts(q)' /\ RestartDebts(q)'
        BY <2>1, <2>2, <3>2, PendLeaves
      <3> QED
        BY <2>1, <3>3, <3>4 DEF WorkInv, Unforced, BaseMove, Moves
    <2> QED
      BY <2>3, <2>4
  <1>4. ASSUME NEW p \in Sessions, RollBack(p) PROVE WorkInv'
    <2>1. BaseMove(p) /\ pc'[p] = "idle" /\ loc'[p] = NoCommand
      BY <1>4, RollBackIs
    <2>2. /\ owed' = [owed EXCEPT !["restart"] = OweRestart(p, {})] /\ disk' = disk
          /\ pc[p] = "pend"
      BY <1>4 DEF RollBack
    <2>3. \A s \in Services : s \notin loc[p].svcs => (s \in enabled' <=> s \in enabled)
      BY <1>4, <2>2 DEF RollBack, ToggleInv, Toggled, BaseInv, LockInv
    <2>4. \A s \in Services :
              /\ owed'["deploy"][s] = owed["deploy"][s]
              /\ owed'["restart"][s] = OweRestart(p, {})[s]
              /\ owed'["restart"][s] = "owed" => owed["restart"][s] = "owed"
      BY <2>2, OweRestartIs DEF BaseInv, TypeInv, Kinds
    <2>5. OwedWorkPending'
      BY <2>2, <2>4 DEF WorkInv, OwedWorkPending
    <2>6. \A q \in Sessions : DeployDebts(q)' /\ RestartDebts(q)'
      BY <2>1, <2>2, <2>3, <2>4, PendLeaves
    <2> QED
      BY <2>1, <2>5, <2>6, UnforcedNone DEF WorkInv, Unforced, BaseMove, Moves
  <1>5. ASSUME NEW p \in Sessions, ClearApplied(p) PROVE WorkInv'
    <2>1. /\ BaseMove(p) /\ pc[p] = "clear" /\ pc'[p] = "idle" /\ loc'[p] = NoCommand
          /\ UNCHANGED <<enabled, owed>>
      BY <1>5, ClearAppliedIs DEF ClearApplied, ghosts
    <2> DEFINE cleared == ClearPendingServices(disk, loc[p].deploys)
    <2>2. /\ cleared \in Journals /\ cleared.pending.restart = disk.pending.restart
          /\ cleared.pending.deploy = disk.pending.deploy \ loc[p].deploys
      BY ClearPendingServicesIs DEF BaseInv, TypeInv
    <2>3. disk' = IF loc[p].restart THEN ClearPendingRestart(cleared) ELSE cleared
      BY <1>5 DEF ClearApplied
    <2> HIDE DEF cleared
    <2>4. /\ disk'.pending.deploy = disk.pending.deploy \ loc[p].deploys
          /\ ~loc[p].restart => disk'.pending.restart = disk.pending.restart
      BY <2>2, <2>3, ClearPendingRestartIs
    <2>5. OwedWorkPending'
      BY <2>1, <2>4 DEF WorkInv, OwedWorkPending, DeployDebts, RestartDebts
    <2>6. DeployDebts(p)' /\ RestartDebts(p)'
      BY <2>1, NoDebts
    <2> QED
      BY <2>1, <2>5, <2>6, UnforcedNone, WorkFrame
  <1>6. ASSUME NEW p \in Sessions, NEW cmd \in {"deploy", "force"},
               NEW svcs \in SUBSET Services, BeginDeploy(p, cmd, svcs)
        PROVE  WorkInv'
    <2>1. BaseMove(p) /\ loc'[p].cmd # "force" /\ pc[p] # "pend"
          /\ pc'[p] \in {"idle", "mutate", "deployLock"}
      BY <1>6, BeginDeployIs, UnforcedNone DEF BeginDeploy, NoForce
    <2>2. OwedWorkPending' /\ DeployDebts(p)' /\ RestartDebts(p)'
      BY <1>6, <2>1, NoDebts DEF BeginDeploy, ghosts, WorkInv, OwedWorkPending
    <2> QED
      BY <1>6, <2>1, <2>2, WorkFrame DEF BeginDeploy, ghosts
  <1>7. ASSUME NEW p \in Sessions, DeployUpToDate(p) PROVE WorkInv'
    <2>1. /\ Onward(p) /\ BaseMove(p) /\ pc[p] = "deployLock"
          /\ owed' = Done(DeployScope(p), "deploy") /\ enabled' = enabled
      BY <1>7, DeployUpToDateIs, OnwardIs DEF DeployUpToDate
    <2>2. disk' = disk
      BY <1>7 DEF DeployUpToDate
    <2>3. \A s \in Services :
              /\ owed'["deploy"][s] = "owed" =>
                    owed["deploy"][s] = "owed" /\ s \notin DeployScope(p)
              /\ owed'["restart"][s] = owed["restart"][s]
      BY <2>1, DoneIs DEF BaseInv, Kinds
    <2>4. OwedWorkPending'
      BY <2>1, <2>2, <2>3 DEF WorkInv, OwedWorkPending
    <2>5. CASE loc[p].cmd # "toggle"
      <3>1. pc'[p] = "idle" /\ loc'[p] = NoCommand
        BY <2>1, <2>5 DEF Onward
      <3> QED
        BY <2>1, <2>3, <2>4, <3>1, NoDebts, UnforcedNone, WorkFrame DEF Kinds
    <2>6. CASE loc[p].cmd = "toggle"
      <3>1. /\ pc'[p] \in {"stop", "clear"} /\ (pc'[p] = "clear" => ~loc'[p].restart)
            /\ loc'[p].deploys = loc[p].deploys /\ loc'[p].cmd = "toggle"
        BY <2>1, <2>6 DEF Onward
      <3>2. DeployScope(p) = loc[p].deploys
        BY <2>6 DEF DeployScope, FullDeploy
      <3>3. DeployDebts(p)' /\ RestartDebts(p)'
        BY <2>3, <3>1, <3>2 DEF DeployDebts, RestartDebts
      <3> QED
        BY <2>1, <2>3, <2>4, <3>1, <3>3, WorkFrame DEF Kinds
    <2> QED
      BY <2>5, <2>6
  <1>8. ASSUME NEW p \in Sessions, StartDeploy(p) PROVE WorkInv'
    <2>1. /\ BaseMove(p) /\ pc[p] = "deployLock" /\ pc'[p] = "deploying"
          /\ loc'[p].cmd = loc[p].cmd /\ loc[p].cmd # "force"
          /\ loc'[p].mem.pending = disk.pending /\ disk'.pending = disk.pending
          /\ UNCHANGED <<enabled, owed>>
      BY <1>8, StartDeployIs DEF StartDeploy, ghosts, WorkInv, Unforced
    <2>2. OwedWorkPending' /\ DeployDebts(p)' /\ RestartDebts(p)'
      BY <2>1 DEF WorkInv, OwedWorkPending, DeployDebts, RestartDebts
    <2> QED
      BY <2>1, <2>2, WorkFrame
  <1>9. ASSUME NEW p \in Sessions, FinishDeploy(p) PROVE WorkInv'
    <2>1. /\ Onward(p) /\ BaseMove(p) /\ pc[p] = "deploying"
          /\ owed' = Done(DeployScope(p), "deploy") /\ enabled' = enabled
      BY <1>9, FinishDeployIs, OnwardIs DEF FinishDeploy
    <2>2. /\ disk'.pending.restart = loc[p].mem.pending.restart
          /\ \A s \in loc[p].mem.pending.deploy :
                s \notin DeployScope(p) => s \in disk'.pending.deploy
      BY <1>9, FinishDeployIs
    <2>3. \A s \in Services :
              /\ owed'["deploy"][s] = "owed" =>
                    owed["deploy"][s] = "owed" /\ s \notin DeployScope(p)
              /\ owed'["restart"][s] = owed["restart"][s]
      BY <2>1, DoneIs DEF BaseInv, Kinds
    <2>4. OwedWorkPending'
      BY <2>1, <2>2, <2>3 DEF WorkInv, OwedWorkPending, DeployDebts, RestartDebts
    <2>5. CASE loc[p].cmd # "toggle"
      <3>1. pc'[p] = "idle" /\ loc'[p] = NoCommand
        BY <2>1, <2>5 DEF Onward
      <3> QED
        BY <2>1, <2>3, <2>4, <3>1, NoDebts, UnforcedNone, WorkFrame DEF Kinds
    <2>6. CASE loc[p].cmd = "toggle"
      <3>1. /\ pc'[p] \in {"stop", "clear"} /\ (pc'[p] = "clear" => ~loc'[p].restart)
            /\ loc'[p].deploys = loc[p].deploys /\ loc'[p].cmd = "toggle"
        BY <2>1, <2>6 DEF Onward
      <3>2. DeployScope(p) = loc[p].deploys
        BY <2>6 DEF DeployScope, FullDeploy
      <3>3. DeployDebts(p)' /\ RestartDebts(p)'
        BY <2>3, <3>1, <3>2 DEF DeployDebts, RestartDebts
      <3> QED
        BY <2>1, <2>3, <2>4, <3>1, <3>3, WorkFrame DEF Kinds
    <2> QED
      BY <2>5, <2>6
  <1>10. ASSUME NEW p \in Sessions, FailDeploy(p) PROVE WorkInv'
    <2>1. /\ BaseMove(p) /\ pc[p] = "deploying" /\ pc'[p] = "idle" /\ loc'[p] = NoCommand
          /\ disk'.pending = loc[p].mem.pending
          /\ UNCHANGED <<enabled, owed>>
      BY <1>10, FailDeployIs DEF FailDeploy, ghosts
    <2>2. OwedWorkPending'
      BY <2>1 DEF WorkInv, OwedWorkPending, DeployDebts, RestartDebts
    <2> QED
      BY <2>1, <2>2, NoDebts, UnforcedNone, WorkFrame
  <1>11. ASSUME NEW p \in Sessions, NEW cmd \in {"run", "stop", "restart"},
                BeginLifecycle(p, cmd)
         PROVE  WorkInv'
    <2>1. /\ BaseMove(p) /\ pc[p] = "idle" /\ pc'[p] \in {"run", "stop"}
          /\ loc'[p].cmd # "force" /\ loc'[p].deploys = {}
          /\ UNCHANGED <<enabled, disk, owed>>
      BY <1>11, BeginLifecycleIs DEF BeginLifecycle, ghosts
    <2>2. OwedWorkPending' /\ DeployDebts(p)' /\ RestartDebts(p)'
      BY <2>1 DEF WorkInv, OwedWorkPending, DeployDebts, RestartDebts
    <2> QED
      BY <2>1, <2>2, WorkFrame
  <1>12. ASSUME NEW p \in Sessions, RunStop(p) PROVE WorkInv'
    <2>1. /\ BaseMove(p) /\ pc[p] = "stop"
          /\ \/ pc'[p] = "idle" /\ loc'[p] = NoCommand
             \/ pc'[p] = "run" /\ loc'[p] = loc[p]
      BY <1>12, RunStopIs DEF RunStop
    <2>2. /\ enabled' = enabled /\ owed' = Done(Services, "restart")
          /\ disk'.pending.deploy = disk.pending.deploy
      BY <1>12, ClearPendingRestartIs DEF RunStop, BaseInv, TypeInv
    <2>3. \A s \in Services : /\ owed'["deploy"][s] = owed["deploy"][s]
                           /\ owed'["restart"][s] # "owed"
      BY <2>2, DoneIs DEF BaseInv, Kinds
    <2>4. OwedWorkPending' /\ DeployDebts(p)' /\ RestartDebts(p)'
      BY <2>1, <2>2, <2>3 DEF WorkInv, OwedWorkPending, DeployDebts, RestartDebts
    <2>5. loc'[p].cmd # "force"
      BY <2>1, UnforcedNone DEF WorkInv, Unforced
    <2> QED
      BY <2>1, <2>2, <2>3, <2>4, <2>5, WorkFrame DEF Kinds
  <1>13. ASSUME NEW p \in Sessions, LoadForRun(p) PROVE WorkInv'
    <2>1. /\ BaseMove(p) /\ pc[p] = "run" /\ pc'[p] = "runLock"
          /\ loc'[p].cmd # "force" /\ loc'[p].deploys = loc[p].deploys
          /\ loc'[p].cfg = enabled
          /\ UNCHANGED <<enabled, disk, owed>>
      BY <1>13, LoadForRunIs DEF LoadForRun, ghosts, WorkInv, Unforced
    <2>2. OwedWorkPending' /\ DeployDebts(p)' /\ RestartDebts(p)'
      BY <2>1 DEF WorkInv, OwedWorkPending, DeployDebts, RestartDebts
    <2> QED
      BY <2>1, <2>2, WorkFrame
  <1>14. ASSUME NEW p \in Sessions, RunUp(p) PROVE WorkInv'
    <2>1. /\ BaseMove(p) /\ pc[p] = "runLock" /\ loc'[p].cmd # "force"
          /\ \/ pc'[p] \in {"idle", "tail"}
             \/ pc'[p] = "clear" /\ loc'[p].deploys = loc[p].deploys
      BY <1>14, RunUpIs, OnwardIs, UnforcedNone DEF RunUp, Onward
    <2>2. /\ enabled' = enabled
          /\ owed' = Done({s \in Services : s \in loc[p].cfg <=> s \in enabled}, "restart")
          /\ disk'.pending.deploy = disk.pending.deploy
      BY <1>14, ClearPendingRestartIs DEF RunUp, BaseInv, TypeInv
    <2>3. \A q \in Sessions : pc[q] # "pend"
      BY <1>14, ToggleAssumption, Alone DEF RunUp
    <2>4. \A s \in Services :
              owed["restart"][s] = "owed" => (s \in loc[p].cfg <=> s \in enabled)
      BY <2>1, <2>3 DEF WorkInv, RestartDebts
    <2>5. \A s \in Services : /\ owed'["deploy"][s] = owed["deploy"][s]
                           /\ owed'["restart"][s] # "owed"
      BY <2>2, <2>4, DoneIs DEF BaseInv, Kinds
    <2>6. OwedWorkPending' /\ DeployDebts(p)' /\ RestartDebts(p)'
      BY <2>1, <2>2, <2>5 DEF WorkInv, OwedWorkPending, DeployDebts, RestartDebts
    <2> QED
      BY <2>1, <2>2, <2>5, <2>6, WorkFrame DEF Kinds
  <1>15. ASSUME NEW p \in Sessions, LoadUnlocked(p) PROVE WorkInv'
    <2>1. /\ BaseMove(p) /\ pc[p] = "tail" /\ loc'[p].cmd # "force"
          /\ \/ pc'[p] = "idle"
             \/ pc'[p] = "tailSave" /\ loc'[p].mem = disk
          /\ UNCHANGED <<enabled, disk, owed>>
      BY <1>15, LoadUnlockedIs, UnforcedNone DEF LoadUnlocked, ghosts, WorkInv, Unforced
    <2>2. OwedWorkPending' /\ DeployDebts(p)' /\ RestartDebts(p)'
      BY <2>1 DEF WorkInv, OwedWorkPending, DeployDebts, RestartDebts
    <2> QED
      BY <2>1, <2>2, WorkFrame
  <1>16. ASSUME NEW p \in Sessions, SaveUnlocked(p) PROVE WorkInv'
    <2>1. /\ BaseMove(p) /\ pc[p] = "tailSave" /\ pc'[p] = "idle" /\ loc'[p] = NoCommand
          /\ disk'.pending.deploy = loc[p].mem.pending.deploy
          /\ UNCHANGED <<enabled, owed>>
      BY <1>16, SaveUnlockedIs DEF SaveUnlocked, ghosts
    <2>2. OwedWorkPending'
      BY <2>1 DEF WorkInv, OwedWorkPending, DeployDebts, RestartDebts
    <2> QED
      BY <2>1, <2>2, NoDebts, UnforcedNone, WorkFrame
  <1>17. ASSUME NEW p \in Sessions, NEW s \in Services, ResetService(p, s) PROVE WorkInv'
    <2>1. /\ BaseMove(p) /\ pc'[p] = pc[p] /\ loc'[p] = loc[p] /\ pc[p] = "idle"
          /\ disk'.pending.restart = disk.pending.restart
          /\ disk'.pending.deploy = disk.pending.deploy \cup {s}
          /\ enabled' = enabled
          /\ owed' = [owed EXCEPT !["deploy"] = OweDeploy(p, {s})]
      BY <1>17, ResetServiceIs DEF ResetService
    <2>2. \A t \in Services :
              /\ owed'["restart"][t] = owed["restart"][t]
              /\ owed'["deploy"][t] = "owed" =>
                    IF t = s THEN \A q \in Sessions \ {p} : ~PastDeploy(q, t)
                    ELSE owed["deploy"][t] = "owed"
      BY <2>1, OweDeployIs DEF BaseInv, TypeInv, Kinds
    <2>3. \A q \in Sessions : pc'[q] = pc[q] /\ loc'[q] = loc[q]
      BY <2>1 DEF BaseMove, Moves
    <2>4. \A q \in Sessions : pc[q] # "deploying"
      BY <1>17, ToggleAssumption, Alone DEF ResetService
    <2>5. OwedWorkPending'
      BY <2>1, <2>2 DEF WorkInv, OwedWorkPending
    <2>6. ASSUME NEW q \in Sessions PROVE DeployDebts(q)' /\ RestartDebts(q)'
      <3>1. DeployDebts(q)'
        <4>1. CASE q = p
          BY <2>1, <4>1 DEF DeployDebts
        <4>2. CASE q # p
          BY <2>2, <2>3, <2>4, <4>2 DEF WorkInv, DeployDebts, PastDeploy
        <4> QED
          BY <4>1, <4>2
      <3>2. RestartDebts(q)'
        BY <2>1, <2>2, <2>3 DEF WorkInv, RestartDebts
      <3> QED
        BY <3>1, <3>2
    <2> QED
      BY <2>3, <2>5, <2>6 DEF WorkInv, Unforced
  <1>18. ASSUME NEW p \in Sessions, GiveUp(p) PROVE WorkInv'
    <2>1. BaseMove(p) /\ loc'[p].cmd # "force" /\ pc[p] # "pend"
          /\ pc'[p] \in {"idle", "mutate", "deployLock"}
      BY <1>18, GiveUpIs, UnforcedNone DEF GiveUp
    <2>2. OwedWorkPending' /\ DeployDebts(p)' /\ RestartDebts(p)'
      BY <1>18, <2>1, NoDebts DEF GiveUp, ghosts, WorkInv, OwedWorkPending
    <2> QED
      BY <1>18, <2>1, <2>2, WorkFrame DEF GiveUp, ghosts
  <1>19. ASSUME NEW p \in Sessions, Crash(p) PROVE WorkInv'
    <2>1. CASE pc[p] = "pend"
      <3>1. BaseMove(p) /\ pc'[p] = "idle" /\ loc'[p] = NoCommand
        BY <1>19, CrashIs
      <3>2. /\ owed' = [owed EXCEPT !["restart"] = OweRestart(p, {})] /\ disk' = disk
            /\ pc[p] = "pend"
        BY <1>19, <2>1 DEF Crash
      <3>3. \A s \in Services : s \notin loc[p].svcs => (s \in enabled' <=> s \in enabled)
        BY <1>19, <3>2 DEF Crash
      <3>4. \A s \in Services :
                /\ owed'["deploy"][s] = owed["deploy"][s]
                /\ owed'["restart"][s] = OweRestart(p, {})[s]
                /\ owed'["restart"][s] = "owed" => owed["restart"][s] = "owed"
        BY <3>2, OweRestartIs DEF BaseInv, TypeInv, Kinds
      <3>5. OwedWorkPending'
        BY <3>2, <3>4 DEF WorkInv, OwedWorkPending
      <3>6. \A q \in Sessions : DeployDebts(q)' /\ RestartDebts(q)'
        BY <3>1, <3>2, <3>3, <3>4, PendLeaves
      <3> QED
        BY <3>1, <3>5, <3>6, UnforcedNone DEF WorkInv, Unforced, BaseMove, Moves
    <2>2. CASE pc[p] # "pend"
      <3>1. BaseMove(p) /\ pc'[p] = "idle" /\ loc'[p] = NoCommand
        BY <1>19, CrashIs
      <3>2. UNCHANGED <<enabled, disk, owed>>
        BY <1>19, <2>2 DEF Crash, ghosts
      <3>3. OwedWorkPending' /\ DeployDebts(p)' /\ RestartDebts(p)'
        BY <3>1, <3>2, NoDebts DEF WorkInv, OwedWorkPending
      <3> QED
        BY <2>2, <3>1, <3>2, <3>3, UnforcedNone, WorkFrame
    <2> QED
      BY <2>1, <2>2
  <1> QED
    BY <1>0, <1>1, <1>2, <1>3, <1>4, <1>5, <1>6, <1>7, <1>8, <1>9, <1>10, <1>11, <1>12,
       <1>13, <1>14, <1>15, <1>16, <1>17, <1>18, <1>19 DEF Next

-----------------------------------------------------------------------------
LEMMA InitFacts == Init => BaseInv /\ ToggleInv /\ WorkInv
PROOF
  <1> SUFFICES ASSUME Init PROVE BaseInv /\ ToggleInv /\ WorkInv
    OBVIOUS
  <1>1. TypeInv
    <2>1. disk \in Journals
      BY EmptyType, DeployedJournalType DEF Init
    <2>2. owed \in [Kinds -> [Services -> Debts]]
      BY DEF Init, NothingOwed, Kinds, Debts
    <2> QED
      BY <2>1, <2>2, NoCommandType DEF Init, TypeInv, Places
  <1>2. LockInv /\ LeftInv /\ ToggleInv
    BY NoCommandIs, ToggleAssumption DEF Init, LockInv, LeftInv, ToggleInv
  <1>3. WorkInv
    BY NoCommandIs DEF Init, NothingOwed, WorkInv, Unforced, OwedWorkPending,
       DeployDebts, RestartDebts
  <1> QED
    BY <1>1, <1>2, <1>3 DEF BaseInv

LEMMA Invariance == Spec => [](BaseInv /\ ToggleInv)
PROOF
  <1>1. BaseInv /\ ToggleInv /\ [Next]_vars => (BaseInv /\ ToggleInv)'
    BY BaseStep, ToggleStep
  <1> QED
    BY InitFacts, <1>1, PTL DEF Spec

(* The variables, and the locals of every command, have their types, and the *)
(* locks are held where the code holds them across a step.                   *)
THEOREM TypeCorrect == Spec => []TypeOK
PROOF
  <1>1. BaseInv => TypeOK
    <2> SUFFICES ASSUME BaseInv PROVE TypeOK
      OBVIOUS
    <2>1. ASSUME NEW p \in Sessions
          PROVE  /\ loc[p].cmd \in {"none", "toggle", "deploy", "force", "run", "stop",
                                    "restart"}
                 /\ loc[p].on \subseteq loc[p].svcs
                 /\ UNION {loc[p].svcs, loc[p].deployed, loc[p].before, loc[p].deploys,
                           loc[p].cfg} \subseteq Services
                 /\ {loc[p].ever, loc[p].restart} \subseteq BOOLEAN
                 /\ loc[p].left \in {<<>>, <<"deploy">>, <<"restart">>,
                                     <<"deploy", "restart">>}
                 /\ loc[p].mem \in Journals
                 /\ lock = p <=> pc[p] \in {"pend", "deploying"}
      <3>1. loc[p] \in Locals
        BY DEF BaseInv, TypeInv
      <3> QED
        BY <3>1 DEF BaseInv, LockInv, Locals
    <2>2. \A kind \in {"deploy", "restart"} :
              owed[kind] \in [Services -> {"no", "owed", "raced"}]
      BY DEF BaseInv, TypeInv, Kinds, Debts
    <2> QED
      BY <2>1, <2>2 DEF BaseInv, TypeInv, TypeOK
  <1> QED
    BY <1>1, Invariance, PTL

(* Toggles of several sessions add up: outside the locks local.yml is what   *)
(* the toggles that succeeded made it, whatever failed and was rolled back.  *)
THEOREM TogglesAddUp == Spec => []TogglesKept
PROOF
  <1>1. BaseInv /\ ToggleInv => TogglesKept
    BY ToggleAssumption DEF BaseInv, LockInv, ToggleInv, TogglesKept
  <1> QED
    BY <1>1, Invariance, PTL

(* What a toggle or a reset left to be done is pending until it is done,     *)
(* whatever the other sessions do: where no session forces a deploy.         *)
THEOREM OwedIsPending == ASSUME NoForce PROVE Spec => []OwedWorkPending
PROOF
  <1>1. BaseInv /\ ToggleInv /\ WorkInv /\ [Next]_vars => (BaseInv /\ ToggleInv /\ WorkInv)'
    BY BaseStep, ToggleStep, WorkStep
  <1>2. WorkInv => OwedWorkPending
    BY DEF WorkInv
  <1> QED
    BY <1>1, <1>2, InitFacts, PTL DEF Spec

-----------------------------------------------------------------------------
(***************************************************************************)
(* The locks                                                               *)
(***************************************************************************)
Section ==
    INSTANCE ExclusiveSection WITH Procs <- Sessions, NoProc <- NoSession, owner <- lock

\* A step takes the free locks, gives its own back, or leaves them.
LEMMA SectionMove ==
    ASSUME BaseInv, NEW p \in Sessions, BaseMove(p)
    PROVE  [Section!Next]_lock
PROOF
  <1>1. \/ lock = NoSession /\ lock' = p
        \/ lock = p /\ lock' = NoSession
        \/ lock' = lock
    BY DEF BaseMove
  <1> QED
    BY <1>1 DEF Section!Next, Section!Enter, Section!Leave

(* What this module takes for granted of the project locks is what           *)
(* ProjectLocks is proved to give: lock implements ExclusiveSection.         *)
THEOREM LocksAsPromised == Spec => Section!Spec
PROOF
  <1>1. Init => Section!Init
    BY DEF Init, Section!Init
  <1>2. BaseInv /\ [Next]_vars => [Section!Next]_lock
    <2> SUFFICES ASSUME BaseInv, [Next]_vars PROVE [Section!Next]_lock
      OBVIOUS
    <2>0. CASE UNCHANGED vars
      BY <2>0 DEF vars
    <2>1. ASSUME NEW p \in Sessions, NEW svcs \in SUBSET Services, BeginToggle(p, svcs)
          PROVE  [Section!Next]_lock
      BY <2>1, BeginToggleIs, SectionMove
    <2>2. ASSUME NEW p \in Sessions, WriteLocal(p) PROVE [Section!Next]_lock
      BY <2>2, WriteLocalIs, SectionMove
    <2>3. ASSUME NEW p \in Sessions, CommitToggle(p) PROVE [Section!Next]_lock
      BY <2>3, CommitToggleIs, SectionMove
    <2>4. ASSUME NEW p \in Sessions, RollBack(p) PROVE [Section!Next]_lock
      BY <2>4, RollBackIs, SectionMove
    <2>5. ASSUME NEW p \in Sessions, ClearApplied(p) PROVE [Section!Next]_lock
      BY <2>5, ClearAppliedIs, SectionMove
    <2>6. ASSUME NEW p \in Sessions, NEW cmd \in {"deploy", "force"},
                 NEW svcs \in SUBSET Services, BeginDeploy(p, cmd, svcs)
          PROVE  [Section!Next]_lock
      BY <2>6, BeginDeployIs, SectionMove
    <2>7. ASSUME NEW p \in Sessions, DeployUpToDate(p) PROVE [Section!Next]_lock
      BY <2>7, DeployUpToDateIs, OnwardIs, SectionMove
    <2>8. ASSUME NEW p \in Sessions, StartDeploy(p) PROVE [Section!Next]_lock
      BY <2>8, StartDeployIs, SectionMove
    <2>9. ASSUME NEW p \in Sessions, FinishDeploy(p) PROVE [Section!Next]_lock
      BY <2>9, FinishDeployIs, OnwardIs, SectionMove
    <2>10. ASSUME NEW p \in Sessions, FailDeploy(p) PROVE [Section!Next]_lock
      BY <2>10, FailDeployIs, SectionMove
    <2>11. ASSUME NEW p \in Sessions, NEW cmd \in {"run", "stop", "restart"},
                  BeginLifecycle(p, cmd)
           PROVE  [Section!Next]_lock
      BY <2>11, BeginLifecycleIs, SectionMove
    <2>12. ASSUME NEW p \in Sessions, RunStop(p) PROVE [Section!Next]_lock
      BY <2>12, RunStopIs, SectionMove
    <2>13. ASSUME NEW p \in Sessions, LoadForRun(p) PROVE [Section!Next]_lock
      BY <2>13, LoadForRunIs, SectionMove
    <2>14. ASSUME NEW p \in Sessions, RunUp(p) PROVE [Section!Next]_lock
      BY <2>14, RunUpIs, OnwardIs, SectionMove
    <2>15. ASSUME NEW p \in Sessions, LoadUnlocked(p) PROVE [Section!Next]_lock
      BY <2>15, LoadUnlockedIs, SectionMove
    <2>16. ASSUME NEW p \in Sessions, SaveUnlocked(p) PROVE [Section!Next]_lock
      BY <2>16, SaveUnlockedIs, SectionMove
    <2>17. ASSUME NEW p \in Sessions, NEW s \in Services, ResetService(p, s)
           PROVE  [Section!Next]_lock
      BY <2>17, ResetServiceIs, SectionMove
    <2>18. ASSUME NEW p \in Sessions, GiveUp(p) PROVE [Section!Next]_lock
      BY <2>18, GiveUpIs, SectionMove
    <2>19. ASSUME NEW p \in Sessions, Crash(p) PROVE [Section!Next]_lock
      BY <2>19, CrashIs, SectionMove
    <2> QED
      BY <2>0, <2>1, <2>2, <2>3, <2>4, <2>5, <2>6, <2>7, <2>8, <2>9, <2>10, <2>11,
         <2>12, <2>13, <2>14, <2>15, <2>16, <2>17, <2>18, <2>19 DEF Next
  <1> QED
    BY <1>1, <1>2, Invariance, PTL DEF Spec, Section!Spec
=============================================================================
