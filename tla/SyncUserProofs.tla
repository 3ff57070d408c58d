--------------------------- MODULE SyncUserProofs ---------------------------
(***************************************************************************)
(* What Sync promises its user, proved from Consistent and more            *)
(* invariants: tasks stay in the clouds they belong to, the view tells the *)
(* truth, edits and conflicts are given up by nobody else; and with them   *)
(* that the engine keeps the contract of the module Contract.              *)
(***************************************************************************)
EXTENDS SyncProofs, MCSync

USE DEF Consistent, serverVars, auxVars

\* The tasks that may be in the cloud of account a.
Mine(a) == OwnItems(a) \cup agreed[a]

\* The store of an account holds its tasks, and undo brings back no others; a
\* store that could be claimed for another account has no history to undo.
StoreOwned ==
  /\ core.owner # None => core.items \cup recall \subseteq Mine(core.owner)
  /\ core.owner # session /\ ~core.dirty => recall = {}

CloudOwned == \A a \in Accounts : \A v \in 1 .. Version(a) : cloud[a][v] \subseteq Mine(a)

Owned == StoreOwned /\ CloudOwned /\ NoForeignUpload

-----------------------------------------------------------------------------
(* Whose tasks travel where *)

\* Tasks of a snapshot that exists may be in that cloud.
LEMMA SnapshotOwned ==
  ASSUME CloudOwned, NEW a \in Accounts, NEW v \in Nat, v <= Version(a)
  PROVE  Snapshot(a, v) \subseteq Mine(a)
BY DEF CloudOwned, Snapshot

\* What was agreed stays agreed.
LEMMA AgreedStays ==
  ASSUME \A a \in Accounts : agreed[a] \subseteq agreed'[a], NEW a \in Accounts
  PROVE  Mine(a) \subseteq Mine(a)'
BY DEF Mine, OwnItems

\* A cloud that rests, or gains a snapshot of allowed tasks, stays allowed.
LEMMA CloudStays ==
  ASSUME Consistent, CloudOwned, UNCHANGED cloud,
         \A a \in Accounts : agreed[a] \subseteq agreed'[a]
  PROVE  CloudOwned'
BY AgreedStays DEF CloudOwned, Version

\* A cloud that gains a snapshot of tasks that belong there stays allowed.
LEMMA CloudGrows ==
  ASSUME Consistent, CloudOwned, UNCHANGED agreed,
         NEW a \in Accounts, NEW items \in SUBSET Items, items \subseteq Mine(a),
         Write(a, items)
  PROVE  CloudOwned'
<1> SUFFICES ASSUME NEW b \in Accounts, NEW v \in 1 .. Len(cloud'[b])
             PROVE  cloud'[b][v] \subseteq Mine(b)'
  BY DEF CloudOwned, Version
<1>1. Mine(b)' = Mine(b) /\ cloud[b] \in Seq(SUBSET Items)
  BY DEF Mine, OwnItems, TypeOK
<1>2. CASE b = a
  <2>1. cloud'[a] = Append(cloud[a], items)
    BY DEF Write, TypeOK
  <2>2. CASE v = Len(cloud[a]) + 1
    BY <1>1, <1>2, <2>1, <2>2
  <2>3. CASE v # Len(cloud[a]) + 1
    <3>1. v \in 1 .. Len(cloud[a]) /\ cloud'[a][v] = cloud[a][v]
      BY <1>1, <1>2, <2>1, <2>3
    <3>2. QED
      BY <1>1, <1>2, <3>1 DEF CloudOwned, Version
  <2>4. QED
    BY <2>2, <2>3
<1>3. CASE b # a
  BY <1>1, <1>3 DEF Write, TypeOK, CloudOwned, Version
<1>4. QED
  BY <1>2, <1>3

\* PUTs that were out before, or carry what was out before, are allowed.
LEMMA PutsStay ==
  ASSUME Consistent, NoForeignUpload, Outstanding' \subseteq Outstanding,
         \A a \in Accounts : agreed[a] \subseteq agreed'[a]
  PROVE  NoForeignUpload'
<1>1. \A m \in Outstanding : m.acct \in Accounts
  BY DEF TypeOK, FlowStates, FlowOK, Outstanding, Unanswered, Request, Puts
<1>2. QED
  BY <1>1, AgreedStays DEF NoForeignUpload, Mine
\* A store that keeps its tasks, its owner and what can be undone keeps its right to them.
LEMMA StoreStays ==
  ASSUME TypeOK, StoreOwned, UNCHANGED <<recall, session>>,
         core'.items = core.items, core'.owner = core.owner,
         core'.owner = session \/ core'.dirty \/ core'.dirty = core.dirty,
         \A a \in Accounts : agreed[a] \subseteq agreed'[a]
  PROVE  StoreOwned'
<1>1. core.owner \in Accounts \cup {None}
  BY DEF TypeOK, Cores
<1>2. QED
  BY <1>1, AgreedStays DEF StoreOwned

\* A cloud copy that replaces the store leaves nothing to undo.
LEMMA StoreReplaced ==
  ASSUME TypeOK, CloudOwned, UNCHANGED agreed, recall' = {},
         NEW a \in Accounts, NEW v \in Nat, v <= Version(a),
         core'.items = Snapshot(a, v), core'.owner = a
  PROVE  StoreOwned'
<1>1. Mine(a)' = Mine(a)
  BY DEF Mine, OwnItems
<1>2. QED
  BY <1>1, SnapshotOwned DEF StoreOwned

\* Steps that commit nothing; the session changes only with an empty history.
LEMMA OwnedFrame ==
  ASSUME Consistent, Owned, UNCHANGED <<core, cloud, agreed>>,
         recall' = {} \/ UNCHANGED <<recall, session>>,
         Outstanding' \subseteq Outstanding
  PROVE  Owned'
<1>1. StoreOwned'
  <2>1. core.owner # None => Mine(core.owner)' = Mine(core.owner)
    BY DEF Mine, OwnItems
  <2>2. QED
    BY <2>1 DEF Owned, StoreOwned
<1>2. QED
  BY <1>1, CloudStays, PutsStay DEF Owned

\* What is out stays what it was while the flow keeps its request.
LEMMA SameRequest ==
  ASSUME UNCHANGED <<wire, flow.phase, flow.acct, flow.base, flow.items, flow.reply>>
  PROVE  Outstanding' = Outstanding
BY DEF Outstanding, Unanswered, Request

\* A flow that ends leaves at most its request.
LEMMA EndedRequest ==
  ASSUME flow' = Idle, wire' = wire \/ \E late \in BOOLEAN : Abandon(late)
  PROVE  Outstanding' \subseteq Outstanding
<1>1. ~Unanswered'
  BY DEF Idle, Unanswered
<1>2. QED
  BY <1>1 DEF Outstanding, Abandon

\* An edit adds tasks of the owner, or brings back tasks the store had; a store is
\* claimed only when there is nothing to bring back.
LEMMA EditOwned ==
  ASSUME Consistent, Owned, NEW new \in SUBSET Items, NEW ok \in BOOLEAN, Edit(new, ok)
  PROVE  Owned'
<1>1. Outstanding' = Outstanding
  <2>1. /\ flow' = flow \/ flow' = [flow EXCEPT !.same = flow.same /\ flow.phase # "get"]
        /\ UNCHANGED wire
    BY DEF Edit
  <2>2. UNCHANGED <<wire, flow.phase, flow.acct, flow.base, flow.items, flow.reply>>
    BY <2>1 DEF TypeOK, FlowStates
  <2>3. QED
    BY <2>2, SameRequest
<1>2. CloudOwned' /\ NoForeignUpload'
  BY <1>1, CloudStays, PutsStay DEF Edit, Owned
<1>3. CASE ~ok
  BY <1>1, <1>3, OwnedFrame DEF Edit, Commit
<1>4. CASE ok
  <2>1. /\ core' = Edited(new) /\ recall' = recall \cup (core.items \ OwnItems(session))
        /\ UNCHANGED <<session, agreed>> /\ session \in Accounts
    BY <1>4 DEF Edit, Commit, Active, TypeOK
  <2>2. core'.items = new /\ core'.dirty = TRUE
    BY <2>1 DEF Edited, TypeOK, Cores
  <2>3. \A a \in Accounts : OwnItems(a) \subseteq Mine(a) /\ Mine(a)' = Mine(a)
    BY <2>1 DEF Mine, OwnItems
  <2>4. new \subseteq core.items \cup recall \cup OwnItems(core'.owner)
    BY <2>1 DEF Edit
  <2>5. CASE Claims
    <3>1. core'.owner = session /\ core.items = {} /\ recall = {}
      BY <2>1, <2>5 DEF Claims, Edited, TypeOK, Cores, Owned, StoreOwned
    <3>2. QED
      BY <1>2, <2>1, <2>2, <2>3, <2>4, <3>1 DEF Owned, StoreOwned
  <2>6. CASE ~Claims
    <3>1. core'.owner = core.owner /\ core.owner \in Accounts \cup {None}
      BY <2>1, <2>6 DEF Edited, TypeOK, Cores
    <3>2. QED
      BY <1>2, <2>1, <2>2, <2>3, <2>4, <3>1 DEF Owned, StoreOwned
  <2>7. QED
    BY <2>5, <2>6
<1>5. QED
  BY <1>3, <1>4

\* Choosing the local copy agrees to its tasks and to those undo can bring back.
LEMMA ChoiceOwned ==
  ASSUME Consistent, Owned, NEW ok \in BOOLEAN, ChooseLocal(ok) \/ ChooseCloud(ok)
  PROVE  Owned'
<1>1. Outstanding' = Outstanding
  BY SameRequest DEF ChooseLocal, ChooseCloud, AfterChoice, TypeOK, FlowStates
<1>2. CASE ~ok
  BY <1>1, <1>2, OwnedFrame DEF ChooseLocal, ChooseCloud, Commit
<1>3. CASE ok
  <2>1. /\ session \in Accounts /\ session' = session /\ cloud' = cloud
        /\ core.pending # None /\ core.pending.owner = session
        /\ core.pending.cloud \in Nat /\ core.pending.cloud <= Version(session)
    <3>1. ReadyConflict(core, session) /\ session # None
      BY DEF ChooseLocal, ChooseCloud, VerifyChoice, Active
    <3>2. core.pending \in Pendings
      BY <3>1 DEF ReadyConflict, PendingFor, TypeOK, Cores
    <3>3. QED
      BY <3>1, <3>2 DEF ReadyConflict, PendingFor, BaselineOK, TypeOK, Pendings,
                        ChooseLocal, ChooseCloud
  <2>2. CASE ChooseLocal(ok)
    <3>1. /\ core' = Resolved(core.items, TRUE) /\ recall' = recall
          /\ agreed' = [agreed EXCEPT ![session] = @ \cup core.items \cup recall]
      BY <1>3, <2>2 DEF ChooseLocal, Commit
    <3>2. /\ core'.items = core.items /\ core'.owner = session
          /\ core.items \cup recall \subseteq Mine(session)'
          /\ \A a \in Accounts : agreed[a] \subseteq agreed'[a]
      BY <2>1, <3>1 DEF Resolved, TypeOK, Cores, Mine
    <3>3. StoreOwned'
      BY <2>1, <3>1, <3>2 DEF StoreOwned
    <3>4. QED
      BY <1>1, <2>1, <3>2, <3>3, CloudStays, PutsStay DEF Owned
  <2>3. CASE ChooseCloud(ok)
    <3>1. /\ core' = Resolved(Snapshot(session, core.pending.cloud), FALSE)
          /\ recall' = {} /\ agreed' = agreed
      BY <1>3, <2>3 DEF ChooseCloud, Commit
    <3>2. core'.items = Snapshot(session, core.pending.cloud) /\ core'.owner = session
      BY <3>1 DEF Resolved, TypeOK, Cores
    <3>3. StoreOwned'
      BY <2>1, <3>1, <3>2, StoreReplaced DEF Owned
    <3>4. QED
      BY <1>1, <2>1, <3>1, <3>3, CloudStays, PutsStay DEF Owned
  <2>4. QED
    BY <2>2, <2>3
<1>4. QED
  BY <1>2, <1>3

\* The user's other steps, sessions, and flows that commit nothing.
LEMMA QuietOwned ==
  ASSUME Consistent, Owned,
         \/ \E ok \in BOOLEAN : MarkNotified(ok) \/ SaveNow(ok)
         \/ \E on \in BOOLEAN : SetAutomatic(on)
         \/ Flush \/ RestoreFromCloud \/ RetryTick \/ DeferConflict
         \/ Sessions
         \/ \E intent \in Intents : StartFlow(intent)
         \/ ArchiveFails
         \/ \E late \in BOOLEAN : DropFlow(late)
         \/ AnswerGet
         \/ UNCHANGED vars
  PROVE  Owned'
<1>1. CASE \/ \E ok \in BOOLEAN : MarkNotified(ok) \/ SaveNow(ok)
           \/ \E on \in BOOLEAN : SetAutomatic(on)
           \/ Flush \/ RestoreFromCloud \/ RetryTick \/ DeferConflict \/ UNCHANGED vars
  <2>1. UNCHANGED <<core, cloud, agreed, recall, session>>
    BY <1>1 DEF MarkNotified, SaveNow, Commit, SetAutomatic, Flush, RestoreFromCloud,
                RetryTick, DeferConflict, vars
  <2>2. Outstanding' = Outstanding
    BY <1>1, SameRequest
       DEF MarkNotified, SaveNow, SetAutomatic, Flush, RestoreFromCloud,
           RetryTick, DeferConflict, vars, TypeOK, FlowStates
  <2>3. QED
    BY <2>1, <2>2, OwnedFrame
<1>2. CASE Sessions
  <2>1. CASE \E a \in Accounts : Login(a)
    <3>1. Outstanding' = Outstanding
      BY <2>1, SameRequest DEF Login
    <3>2. QED
      BY <2>1, <3>1, OwnedFrame DEF Login
  <2>2. CASE Logout
    <3>1. Outstanding' = Outstanding
      BY <2>2, SameRequest DEF Logout, EndSession, TypeOK, FlowStates
    <3>2. QED
      BY <2>2, <3>1, OwnedFrame DEF Logout, EndSession
  <2>3. CASE AuthRejected
    <3>1. Outstanding' \subseteq Outstanding
      BY <2>3 DEF AuthRejected, TypeOK, FlowStates, Outstanding, Unanswered, Request
    <3>2. QED
      BY <2>3, <3>1, OwnedFrame DEF AuthRejected
  <2>4. CASE LoseSession
    BY <2>4, EndedRequest, OwnedFrame DEF LoseSession, EndSession
  <2>5. CASE \E keep, late \in BOOLEAN : Restart(keep, late)
    BY <2>5, EndedRequest, OwnedFrame DEF Restart
  <2>6. QED
    BY <1>2, <2>1, <2>2, <2>3, <2>4, <2>5 DEF Sessions
<1>3. CASE \E intent \in Intents : StartFlow(intent)
  <2>1. PICK intent \in Intents : StartFlow(intent)
    BY <1>3
  <2>2. ~Unanswered'
    BY <2>1 DEF StartFlow, Idle, Unanswered
  <2>3. Outstanding' \subseteq Outstanding
    BY <2>1, <2>2 DEF StartFlow, Outstanding
  <2>4. QED
    BY <2>1, <2>3, OwnedFrame DEF StartFlow
<1>4. CASE ArchiveFails
  BY <1>4, EndedRequest, OwnedFrame DEF ArchiveFails, EndFlow
<1>5. CASE \E late \in BOOLEAN : DropFlow(late)
  BY <1>5, EndedRequest, OwnedFrame DEF DropFlow, EndFlow
<1>6. CASE AnswerGet
  <2>1. Outstanding' \subseteq Outstanding
    BY <1>6 DEF AnswerGet, Answer, Outstanding, Unanswered, TypeOK, FlowStates
  <2>2. QED
    BY <1>6, <2>1, OwnedFrame DEF AnswerGet
<1>7. QED
  BY <1>1, <1>2, <1>3, <1>4, <1>5, <1>6

\* Flows that commit a conflict, a marker or a baseline keep the tasks.
LEMMA FlowOwned ==
  ASSUME Consistent, Owned,
         \/ \E ok \in BOOLEAN : Acknowledge(ok) \/ MarkNeedsCandidate(ok) \/ StoreCandidate(ok)
         \/ \E ok, late \in BOOLEAN : RequestFails(ok, late)
  PROVE  Owned'
<1>1. flow.acct = session /\ session \in Accounts
  BY NoneAssumption
     DEF Acknowledge, MarkNeedsCandidate, StoreCandidate, RequestFails, Live, FlowOK,
         TypeOK, FlowStates
<1>2. /\ UNCHANGED <<recall, session, cloud, agreed>>
      /\ core'.items = core.items /\ core'.owner = core.owner
      /\ core'.owner = session \/ core'.dirty = core.dirty
  <2>1. core \in Cores
    BY DEF TypeOK
  <2>2. CASE \E ok \in BOOLEAN : Acknowledge(ok)
    <3>1. /\ core'.items = core.items /\ core'.owner = core.owner
          /\ core'.owner = session \/ core'.dirty = core.dirty
      BY <1>1, <2>1, <2>2 DEF Acknowledge, Commit, Cores
    <3>2. QED
      BY <2>2, <3>1 DEF Acknowledge
  <2>3. CASE \/ \E ok \in BOOLEAN : MarkNeedsCandidate(ok) \/ StoreCandidate(ok)
             \/ \E ok, late \in BOOLEAN : RequestFails(ok, late)
    <3>1. core' = core \/ \E v : core' = PendingWith(v)
      BY <2>3 DEF MarkNeedsCandidate, StoreCandidate, RequestFails, Commit, Blind
    <3>2. core'.items = core.items /\ core'.owner = core.owner /\ core'.dirty = core.dirty
      BY <2>1, <3>1 DEF PendingWith, Cores
    <3>3. QED
      BY <2>3, <3>2 DEF MarkNeedsCandidate, StoreCandidate, RequestFails
  <2>4. QED
    BY <2>2, <2>3
<1>3. Outstanding' \subseteq Outstanding
  <2>1. CASE flow' = Idle
    BY <2>1, EndedRequest DEF Acknowledge, MarkNeedsCandidate, StoreCandidate, RequestFails
  <2>2. CASE flow' # Idle
    <3>1. flow'.phase = "fetch" /\ wire' = wire
      BY <2>2 DEF Acknowledge, MarkNeedsCandidate, StoreCandidate, RequestFails, EndFlow,
                  TypeOK, FlowStates
    <3>2. QED
      BY <3>1 DEF Outstanding, Unanswered
  <2>3. QED
    BY <2>1, <2>2
<1>4. StoreOwned'
  BY <1>2, StoreStays DEF Owned
<1>5. QED
  BY <1>2, <1>3, <1>4, CloudStays, PutsStay DEF Owned

\* A decision keeps the tasks, or replaces them with those of the cloud.
LEMMA ArbitrateOwned ==
  ASSUME Consistent, Owned, NEW ok \in BOOLEAN, Arbitrate(ok)
  PROVE  Owned'
<1> DEFINE v == flow.reply.version
<1>1. /\ flow.acct = session /\ session \in Accounts
      /\ v \in Nat /\ v <= Version(flow.acct)
  BY NoneAssumption DEF Arbitrate, Live, FlowOK, ReplyOK, TypeOK, FlowStates, Replies
<1>2. UNCHANGED <<session, cloud, agreed, wire>>
  BY DEF Arbitrate
<1>3. Outstanding' \subseteq Outstanding
  <2>1. flow'.phase # "put"
    <3>1. CASE flow' = Idle
      BY <3>1 DEF Idle
    <3>2. CASE flow' # Idle
      BY <3>2 DEF Arbitrate, EndFlow, TypeOK, FlowStates
    <3>3. QED
      BY <3>1, <3>2
  <2>2. QED
    BY <1>2, <2>1 DEF Outstanding, Unanswered
<1>4. StoreOwned'
  <2>1. CASE ok /\ Decision(v) = "Restore"
    <3>1. /\ core'.items = Snapshot(flow.acct, v) /\ core'.owner = flow.acct
          /\ recall' = {}
      BY <2>1 DEF Arbitrate, Commit, Arbitrated, TypeOK, Cores
    <3>2. QED
      BY <1>1, <1>2, <3>1, StoreReplaced DEF Owned
  <2>2. CASE ~(ok /\ Decision(v) = "Restore")
    <3>1. recall' = recall
      BY <2>2 DEF Arbitrate
    <3>2. CASE ~ok
      BY <1>2, <3>1, <3>2, StoreStays DEF Arbitrate, Commit, Owned
    <3>3. CASE ok
      <4>1. core' = Arbitrated(Decision(v), v) /\ Decision(v) \in {"Mark", "Upload", "Conflict"}
        BY <2>2, <3>3, DecisionCases DEF Arbitrate, Commit
      <4>2. /\ core'.items = core.items /\ core'.owner = core.owner
            /\ core'.dirty \/ core'.dirty = core.dirty
        BY <4>1 DEF Arbitrated, PendingWith, TypeOK, Cores
      <4>3. QED
        BY <1>2, <3>1, <4>2, StoreStays DEF Owned
    <3>4. QED
      BY <3>2, <3>3
  <2>3. QED
    BY <2>1, <2>2
<1>5. QED
  BY <1>2, <1>3, <1>4, CloudStays, PutsStay DEF Owned

\* The tasks that an upload sends are those of the account it sends them to.
LEMMA UploadOwned ==
  ASSUME Consistent, Owned, NEW ok \in BOOLEAN, Upload(ok)
  PROVE  Owned'
<1>1. /\ UNCHANGED <<recall, session, cloud, agreed, wire>>
      /\ core'.items = core.items /\ core'.owner = core.owner /\ core'.dirty = core.dirty
  BY DEF Upload, Commit, TypeOK, Cores
<1>2. StoreOwned' /\ CloudOwned'
  BY <1>1, StoreStays, CloudStays DEF Owned
<1>3. CASE flow' = Idle
  BY <1>1, <1>2, <1>3, EndedRequest, PutsStay DEF Owned
<1>4. CASE flow' # Idle
  <2>1. /\ core.owner = flow.acct /\ core.owner # None
        /\ flow'.items = core.items /\ flow'.acct = flow.acct
    BY <1>4 DEF Upload, EndFlow, Unconfirmed, FlowOK, Live, TypeOK, FlowStates
  <2>2. \A m \in Outstanding' : m \in wire \/ (m.acct = core.owner /\ m.items = core.items)
    BY <1>1, <2>1 DEF Outstanding, Request
  <2>3. core.items \subseteq Mine(core.owner)
    BY <2>1 DEF Owned, StoreOwned
  <2>4. \A m \in wire : m.items \subseteq Mine(m.acct)
    BY DEF Owned, NoForeignUpload, Outstanding, Mine
  <2>5. NoForeignUpload'
    BY <1>1, <2>2, <2>3, <2>4 DEF NoForeignUpload, Mine, OwnItems
  <2>6. QED
    BY <1>2, <2>5 DEF Owned
<1>5. QED
  BY <1>3, <1>4

\* The server stores what was sent, or what another device of the account may send.
LEMMA ServerOwned ==
  ASSUME Consistent, Owned,
         \/ AnswerPut
         \/ \E m \in wire : LatePut(m)
         \/ \E a \in Accounts, items \in SUBSET Items : RemoteWrite(a, items)
  PROVE  Owned'
<1>1. UNCHANGED <<core, recall, session, agreed>>
  BY DEF AnswerPut, LatePut, RemoteWrite
<1>2. StoreOwned'
  BY <1>1, StoreStays DEF Owned
<1>3. Outstanding' \subseteq Outstanding
  <2>1. CASE AnswerPut
    <3>1. flow'.reply = [ok |-> Request.base = Version(flow.acct),
                         version |-> Version(flow.acct) + 1]
      BY <2>1 DEF AnswerPut, Answer, TypeOK, FlowStates
    <3>2. Version(flow.acct) + 1 \in Nat
      BY <2>1 DEF AnswerPut, Unanswered, FlowOK, Version, TypeOK, FlowStates
    <3>3. flow'.reply # None
      <4>1. (Request.base = Version(flow.acct)) \in BOOLEAN
        OBVIOUS
      <4>2. flow'.reply \in Replies
        BY <3>1, <3>2, <4>1 DEF Replies
      <4>3. QED
        BY <4>2, NoneAssumption
    <3>4. QED
      BY <2>1, <3>3 DEF AnswerPut, Outstanding, Unanswered
  <2>2. CASE \E m \in wire : LatePut(m)
    BY <2>2 DEF LatePut, Outstanding, Unanswered, Request
  <2>3. CASE \E a \in Accounts, items \in SUBSET Items : RemoteWrite(a, items)
    BY <2>3 DEF RemoteWrite, Outstanding, Unanswered, Request
  <2>4. QED
    BY <2>1, <2>2, <2>3
<1>4. CloudOwned'
  <2>1. ASSUME NEW m \in Outstanding, Apply(m)
        PROVE  CloudOwned'
    <3>1. m.acct \in Accounts /\ m.items \in SUBSET Items
      BY DEF Outstanding, Unanswered, Request, TypeOK, FlowStates, FlowOK, Puts
    <3>2. m.items \subseteq Mine(m.acct)
      BY DEF Owned, NoForeignUpload, Mine
    <3>3. QED
      BY <1>1, <2>1, <3>1, <3>2, CloudGrows, CloudStays DEF Apply, Owned
  <2>2. CASE AnswerPut
    BY <2>1, <2>2 DEF AnswerPut, Outstanding
  <2>3. CASE \E m \in wire : LatePut(m)
    BY <2>1, <2>3 DEF LatePut, Outstanding
  <2>4. CASE \E a \in Accounts, items \in SUBSET Items : RemoteWrite(a, items)
    <3>1. PICK a \in Accounts, items \in SUBSET Items : RemoteWrite(a, items)
      BY <2>4
    <3>2. Version(a) \in Nat /\ Snapshot(a, Version(a)) \subseteq Mine(a)
      <4>1. Version(a) \in Nat
        BY DEF Version, TypeOK
      <4>2. QED
        BY <4>1, SnapshotOwned DEF Owned
    <3>3. items \subseteq Mine(a)
      BY <3>1, <3>2 DEF RemoteWrite, Mine
    <3>4. QED
      BY <1>1, <3>1, <3>3, CloudGrows DEF RemoteWrite, Owned
  <2>5. QED
    BY <2>2, <2>3, <2>4
<1>5. QED
  BY <1>1, <1>2, <1>3, <1>4, PutsStay DEF Owned

\* At the start nobody owns the store and nothing is out.
LEMMA InitOwned == Init => Owned
<1> SUFFICES ASSUME Init PROVE Owned
  OBVIOUS
<1>1. core.owner = None /\ recall = {}
  BY DEF Init
<1>2. \A a \in Accounts : Version(a) = 0
  BY DEF Init, Version
<1>3. Outstanding = {}
  BY DEF Init, Idle, Outstanding, Unanswered
<1>4. QED
  BY <1>1, <1>2, <1>3 DEF Owned, StoreOwned, CloudOwned, NoForeignUpload

\* Every step leaves the tasks where they belong.
LEMMA NextOwned == Consistent /\ Owned /\ [Next]_vars => Owned'
<1> SUFFICES ASSUME Consistent, Owned, [Next]_vars PROVE Owned'
  OBVIOUS
<1>1. CASE Local
  BY <1>1, EditOwned, ChoiceOwned, QuietOwned DEF Local
<1>2. CASE Sessions
  BY <1>2, QuietOwned
<1>3. CASE Flows
  BY <1>3, QuietOwned, FlowOwned, ArbitrateOwned, UploadOwned DEF Flows
<1>4. CASE Server
  BY <1>4, QuietOwned, ServerOwned DEF Server
<1>5. CASE UNCHANGED vars
  BY <1>5, QuietOwned
<1>6. QED
  BY <1>1, <1>2, <1>3, <1>4, <1>5 DEF Next

\* Tasks reach another account's cloud only after the user chose the local copy there.
THEOREM NothingForeignUploaded == Spec => []NoForeignUpload
<1>1. Owned => NoForeignUpload
  BY DEF Owned
<1>2. QED
  BY <1>1, InitOwned, NextOwned, Invariance, PTL DEF Spec

-----------------------------------------------------------------------------
(* What the view says *)

\* What the committed state has to be for "synced" to be true.
InSync(c, s) == /\ s # None /\ c.owner = s /\ c.known # None
                /\ ~c.dirty /\ ~PendingFor(c, s)

Told == view = "synced" => InSync(core, session)

\* refresh_view says "synced" only of a state that is.
LEMMA DerivedTold ==
  ASSUME NEW c, NEW failed \in BOOLEAN, NEW s, Derived(c, failed, s) = "synced"
  PROVE  InSync(c, s)
BY DEF Derived, InSync

\* At the start nothing is said to be synced.
LEMMA InitTold == Init => Told
BY DEF Init, Told

\* No step shows "synced", or keeps it shown, without its being so.
LEMMA NextTold == Consistent /\ Told /\ [Next]_vars => Told'
<1> SUFFICES ASSUME Consistent, Told, [Next]_vars PROVE Told'
  OBVIOUS
<1>1. CASE \E new \in SUBSET Items, ok \in BOOLEAN : Edit(new, ok)
  BY <1>1, DerivedTold DEF Edit, Commit, Told
<1>2. CASE \/ \E ok \in BOOLEAN : MarkNotified(ok) \/ SaveNow(ok)
           \/ \E on \in BOOLEAN : SetAutomatic(on)
           \/ Flush \/ RestoreFromCloud \/ RetryTick \/ UNCHANGED vars
  BY <1>2 DEF MarkNotified, SaveNow, Commit, SetAutomatic, Flush, RestoreFromCloud,
              RetryTick, vars, Told
<1>3. CASE DeferConflict
  BY <1>3, DerivedTold DEF DeferConflict, TypeOK, Told
<1>4. CASE \E ok \in BOOLEAN : ChooseLocal(ok) \/ ChooseCloud(ok)
  BY <1>4, DerivedTold DEF ChooseLocal, ChooseCloud, AfterChoice, Commit, Told
<1>5. CASE Sessions
  BY <1>5, DerivedTold
     DEF Sessions, Login, Logout, AuthRejected, LoseSession, Restart, EndSession, TypeOK, Told
<1>6. CASE \E intent \in Intents : StartFlow(intent)
  BY <1>6, DerivedTold DEF StartFlow, TypeOK, Told
<1>7. CASE \E ok \in BOOLEAN : Arbitrate(ok)
  BY <1>7, DerivedTold DEF Arbitrate, Commit, Told
<1>8. CASE \E ok \in BOOLEAN : Upload(ok)
  BY <1>8, DerivedTold DEF Upload, Commit, EndFlow, TypeOK, Told
<1>9. CASE \E ok \in BOOLEAN : Acknowledge(ok) \/ MarkNeedsCandidate(ok) \/ StoreCandidate(ok)
  BY <1>9, DerivedTold DEF Acknowledge, MarkNeedsCandidate, StoreCandidate, Commit, Told
<1>10. CASE \/ \E ok, late \in BOOLEAN : RequestFails(ok, late)
            \/ ArchiveFails
            \/ \E late \in BOOLEAN : DropFlow(late)
  BY <1>10 DEF RequestFails, FailedView, ArchiveFails, DropFlow, Told
<1>11. CASE Server
  BY <1>11 DEF Server, AnswerGet, AnswerPut, LatePut, RemoteWrite, Told
<1>12. QED
  BY <1>1, <1>2, <1>3, <1>4, <1>5, <1>6, <1>7, <1>8, <1>9, <1>10, <1>11
     DEF Next, Local, Flows

\* The user is told "synced" only while the tasks on screen are the confirmed snapshot.
THEOREM SyncedIsAlwaysTrue == Spec => []SyncedIsTrue
<1>1. Consistent /\ Told => SyncedIsTrue
  BY DEF Told, InSync, CleanMeansSynced, SyncedIsTrue
<1>2. QED
  BY <1>1, InitTold, NextTold, Invariance, PTL DEF Spec

-----------------------------------------------------------------------------
(* What single steps may do *)

\* A Restore knows of the edits that overtook its request, and a flow that still
\* counts belongs to a session whose lease is active.
Watched ==
  /\ flow.phase = "idle" => flow.intent = None
  /\ overtaken = "running" =>
       flow.intent = "Restore" /\ (flow.phase = "get" => ~flow.same)
  /\ Live /\ flow.phase # "lost" => lease

\* At the start no flow runs and no Restore was asked for.
LEMMA InitWatched == Init => Watched
BY DEF Init, Idle, Live, Watched

\* When no flow runs there is little to watch.
LEMMA WatchedEnd ==
  ASSUME flow' = Idle, overtaken' # "running"
  PROVE  Watched'
BY DEF Idle, Live, Watched

\* A flow that ends forgets that its Restore was overtaken.
LEMMA EndIsWatched ==
  ASSUME Consistent, Watched, EndFlow
  PROVE  Watched'
BY WatchedEnd DEF EndFlow, ForgetOvertaken, Watched

\* Every step keeps watch: one case for each kind of action.
LEMMA NextWatched == Consistent /\ Watched /\ [Next]_vars => Watched'
<1> SUFFICES ASSUME Consistent, Watched, [Next]_vars PROVE Watched'
  OBVIOUS
<1>1. CASE \E new \in SUBSET Items, ok \in BOOLEAN : Edit(new, ok)
  <2>1. PICK new \in SUBSET Items, ok \in BOOLEAN : Edit(new, ok)
    BY <1>1
  <2>2. CASE ok
    <3>1. /\ flow'.phase = flow.phase /\ flow'.intent = flow.intent /\ flow'.ctx = flow.ctx
          /\ flow.phase = "get" => ~flow'.same
          /\ UNCHANGED lease
      BY <2>1, <2>2 DEF Edit, TypeOK, FlowStates
    <3>2. overtaken' = "running" => flow.intent = "Restore"
      BY <2>1, <2>2 DEF Edit, RestorePlace, Watched
    <3>3. QED
      BY <3>1, <3>2 DEF Watched, Live
  <2>3. CASE ~ok
    BY <2>1, <2>3 DEF Edit, Watched, Live
  <2>4. QED
    BY <2>2, <2>3
<1>2. CASE \E ok \in BOOLEAN : MarkNotified(ok)
  <2>1. PICK ok \in BOOLEAN : MarkNotified(ok)
    BY <1>2
  <2>2. /\ flow'.phase = flow.phase /\ flow'.intent = flow.intent /\ flow'.ctx = flow.ctx
        /\ ~flow.same => ~flow'.same
        /\ UNCHANGED <<lease, overtaken>>
    BY <2>1 DEF MarkNotified, TypeOK, FlowStates
  <2>3. QED
    BY <2>2 DEF Watched, Live
<1>3. CASE \/ \E ok \in BOOLEAN : SaveNow(ok)
           \/ \E on \in BOOLEAN : SetAutomatic(on)
           \/ Flush \/ RestoreFromCloud \/ RetryTick \/ DeferConflict \/ UNCHANGED vars
  <2>1. UNCHANGED <<flow, lease>> /\ overtaken' \in {overtaken, "none"}
    BY <1>3 DEF SaveNow, SetAutomatic, Flush, RestoreFromCloud, RetryTick, DeferConflict, vars
  <2>2. QED
    BY <2>1 DEF Watched, Live
<1>4. CASE \E ok \in BOOLEAN : ChooseLocal(ok) \/ ChooseCloud(ok)
  <2>1. /\ flow'.phase = flow.phase /\ flow'.intent = flow.intent /\ flow'.same = flow.same
        /\ flow'.ctx = "live" => flow.ctx = "live"
        /\ UNCHANGED <<lease, overtaken>>
    BY <1>4 DEF ChooseLocal, ChooseCloud, AfterChoice, TypeOK, FlowStates
  <2>2. QED
    BY <2>1 DEF Watched, Live
<1>5. CASE Sessions
  <2>1. CASE \E a \in Accounts : Login(a)
    BY <2>1 DEF Login, Watched, Live
  <2>2. CASE Logout
    <3>1. /\ flow'.phase = flow.phase /\ flow'.intent = flow.intent /\ flow'.ctx # "live"
          /\ overtaken' = "none"
      BY <2>2 DEF Logout, TypeOK, FlowStates
    <3>2. QED
      BY <3>1 DEF Watched, Live
  <2>3. CASE AuthRejected
    <3>1. flow'.phase = "lost" /\ flow'.intent = flow.intent /\ UNCHANGED overtaken
      BY <2>3 DEF AuthRejected, TypeOK, FlowStates
    <3>2. QED
      BY <3>1 DEF Watched
  <2>4. CASE LoseSession
    BY <2>4, WatchedEnd DEF LoseSession
  <2>5. CASE \E keep, late \in BOOLEAN : Restart(keep, late)
    BY <2>5, WatchedEnd DEF Restart
  <2>6. QED
    BY <1>5, <2>1, <2>2, <2>3, <2>4, <2>5 DEF Sessions
<1>6. CASE \E intent \in Intents : StartFlow(intent)
  <2>1. overtaken # "running" /\ overtaken' # "running"
    BY <1>6, NoneAssumption DEF StartFlow, ForgetOvertaken, Watched, Intents
  <2>2. PICK intent \in Intents : StartFlow(intent)
    BY <1>6
  <2>3. CASE flow' = flow
    BY <2>1, <2>2, <2>3 DEF StartFlow, Active, Watched, Live
  <2>4. CASE flow' # flow
    <3>1. flow'.phase \in {"get", "upload"} /\ lease'
      BY <2>2, <2>4 DEF StartFlow, Active, Idle
    <3>2. QED
      BY <2>1, <3>1 DEF Watched
  <2>5. QED
    BY <2>3, <2>4
<1>7. CASE Flows /\ ~\E intent \in Intents : StartFlow(intent)
  <2>1. CASE EndFlow
    BY <2>1, EndIsWatched
  <2>2. CASE ~EndFlow
    <3>1. /\ flow'.phase \in {"upload", "put", "fetch"} /\ flow'.intent = flow.intent
          /\ Live /\ flow.phase # "lost" /\ UNCHANGED <<lease, overtaken>>
      <4>1. CASE \E ok \in BOOLEAN : Arbitrate(ok)
        <5>1. flow' = [flow EXCEPT !.phase = "upload", !.reply = None, !.same = TRUE]
              /\ UNCHANGED overtaken
          BY <2>2, <4>1 DEF Arbitrate
        <5>2. flow'.phase = "upload" /\ flow'.intent = flow.intent
          BY <5>1 DEF TypeOK, FlowStates
        <5>3. QED
          BY <4>1, <5>1, <5>2 DEF Arbitrate
      <4>2. CASE \E ok \in BOOLEAN : Upload(ok) \/ Acknowledge(ok)
        BY <2>2, <4>2 DEF Upload, Acknowledge, TypeOK, FlowStates
      <4>3. CASE \E ok \in BOOLEAN : MarkNeedsCandidate(ok) \/ StoreCandidate(ok)
        BY <2>2, <4>3 DEF MarkNeedsCandidate, StoreCandidate, TypeOK, FlowStates
      <4>4. CASE \/ ArchiveFails
                 \/ \E ok, late \in BOOLEAN : RequestFails(ok, late)
                 \/ \E late \in BOOLEAN : DropFlow(late)
        BY <2>2, <4>4 DEF ArchiveFails, RequestFails, DropFlow
      <4>5. QED
        BY <1>7, <4>1, <4>2, <4>3, <4>4 DEF Flows
    <3>2. QED
      BY <3>1 DEF Watched
  <2>3. QED
    BY <2>1, <2>2
<1>8. CASE Server
  <2>1. /\ flow'.phase = flow.phase /\ flow'.intent = flow.intent
        /\ flow'.same = flow.same /\ flow'.ctx = flow.ctx
        /\ UNCHANGED <<lease, overtaken>>
    BY <1>8 DEF Server, AnswerGet, AnswerPut, Answer, LatePut, RemoteWrite, TypeOK, FlowStates
  <2>2. QED
    BY <2>1 DEF Watched, Live
<1>9. QED
  BY <1>1, <1>2, <1>3, <1>4, <1>5, <1>6, <1>7, <1>8 DEF Next, Local

\* A Restore or a cloud copy that replaces the store: who asked for it.
LEMMA ArbitrationAsked ==
  ASSUME Consistent, Watched, NEW ok \in BOOLEAN, Arbitrate(ok)
  PROVE  /\ core.dirty /\ ~core'.dirty => flow.intent = "Restore" /\ overtaken # "running"
         /\ core'.owner # core.owner => core'.owner = session
         /\ core'.pending # None => core'.pending = core.pending \/ core'.pending.owner = session
         /\ core.pending # None /\ core'.pending = None =>
              flow.intent = "Restore" \/ core.pending.owner # session
         /\ Active
<1> DEFINE v == flow.reply.version
<1>1. flow.acct = session /\ session \in Accounts /\ Active /\ flow.phase = "get"
  BY NoneAssumption DEF Arbitrate, Live, FlowOK, TypeOK, FlowStates, Watched, Active
<1>2. CASE core' = core
  BY <1>1, <1>2
<1>3. CASE core' = Arbitrated(Decision(v), v)
  <2>1. CASE Decision(v) = "Restore"
    <3>1. core' = [core EXCEPT !.items = Snapshot(flow.acct, v), !.owner = flow.acct,
                               !.known = v, !.dirty = FALSE, !.pending = None,
                               !.uncertain = "none"]
      BY <1>3, <2>1 DEF Arbitrated
    <3>2. core'.owner = session /\ core'.pending = None
      BY <1>1, <3>1 DEF TypeOK, Cores
    <3>3. flow.intent = "Restore" => overtaken # "running"
      BY <1>1, <2>1 DEF Decision, RestoreDecision, Watched
    <3>4. flow.intent # "Restore" => ~core.dirty /\ ~PendingFor(core, session)
      BY <1>1, <2>1 DEF Decision, Disputed, NoBase, OnBase, Blank
    <3>5. QED
      BY <1>1, <3>2, <3>3, <3>4 DEF PendingFor
  <2>2. CASE Decision(v) # "Restore"
    <3>1. Decision(v) \in {"Mark", "Upload", "Conflict"}
      BY <2>2, DecisionCases
    <3>2. /\ core'.owner = core.owner
          /\ core.dirty => core'.dirty
          /\ core'.pending = core.pending \/ core'.pending = [owner |-> flow.acct, cloud |-> v]
      BY <1>3, <3>1 DEF Arbitrated, PendingWith, TypeOK, Cores
    <3>3. [owner |-> flow.acct, cloud |-> v] # None
      <4>1. flow.acct \in Accounts /\ v \in Nat
        BY <1>1, NoneAssumption DEF Arbitrate, TypeOK, FlowStates, Replies
      <4>2. QED
        BY <4>1, NoneAssumption DEF Pendings
    <3>4. QED
      BY <1>1, <3>2, <3>3
  <2>3. QED
    BY <2>1, <2>2
<1>4. QED
  BY <1>2, <1>3 DEF Arbitrate, Commit

\* The other steps: what they do to the owner, the edits and the conflict.
LEMMA StepAsked ==
  ASSUME Consistent, Watched, [Next]_vars, core' # core,
         ~\E ok \in BOOLEAN : ChooseLocal(ok) \/ ChooseCloud(ok),
         ~\E ok \in BOOLEAN : Arbitrate(ok)
  PROVE  /\ core.dirty /\ ~core'.dirty => core'.items = core.items
         /\ core'.owner # core.owner => core'.owner = session
         /\ \/ core'.pending = core.pending
            \/ core'.pending \in Pendings /\ core'.pending.owner = session
         /\ Active
<1>1. CASE \E new \in SUBSET Items, ok \in BOOLEAN : Edit(new, ok)
  <2>1. PICK new \in SUBSET Items : core' = Edited(new)
    BY <1>1 DEF Edit, Commit
  <2>2. core'.dirty /\ core'.owner \in {core.owner, session} /\ core'.pending = core.pending
    BY <2>1 DEF Edited, TypeOK, Cores
  <2>3. QED
    BY <1>1, <2>2 DEF Edit
<1>2. CASE Flows
  <2>1. /\ flow.acct = session /\ session \in Accounts /\ Live /\ flow.phase # "lost"
        /\ flow.reply \in Replies \cup {None}
    <3>1. Live /\ flow.phase # "lost"
      BY <1>2 DEF Flows, StartFlow, Upload, Acknowledge, MarkNeedsCandidate,
                  StoreCandidate, ArchiveFails, RequestFails, DropFlow
    <3>2. QED
      BY <3>1, NoneAssumption DEF Live, FlowOK, TypeOK, FlowStates
  <2>2. Active
    BY <2>1, NoneAssumption DEF Watched, Active
  <2>3. CASE \E ok \in BOOLEAN : Upload(ok)
    <3>1. core' = [core EXCEPT !.uncertain = "exact"]
      BY <2>3 DEF Upload, Commit
    <3>2. QED
      BY <2>2, <3>1 DEF TypeOK, Cores
  <2>4. CASE \E ok \in BOOLEAN : Acknowledge(ok)
    <3>1. core'.items = core.items /\ core'.owner = core.owner /\ core'.pending = core.pending
      <4>1. core \in Cores
        BY DEF TypeOK
      <4>2. QED
        BY <2>4, <4>1 DEF Acknowledge, Commit, Cores
    <3>2. QED
      BY <2>2, <3>1
  <2>5. CASE \/ \E ok \in BOOLEAN : MarkNeedsCandidate(ok) \/ StoreCandidate(ok)
             \/ \E ok, late \in BOOLEAN : RequestFails(ok, late)
    <3>1. PICK v \in Nat \cup {None} : core' = PendingWith(v)
      <4>1. CASE \E ok \in BOOLEAN : StoreCandidate(ok)
        BY <2>1, <4>1 DEF StoreCandidate, Commit, Replies
      <4>2. CASE ~\E ok \in BOOLEAN : StoreCandidate(ok)
        BY <2>5, <4>2 DEF MarkNeedsCandidate, RequestFails, Commit, Blind
      <4>3. QED
        BY <4>1, <4>2
    <3>2. /\ core'.dirty = core.dirty /\ core'.owner = core.owner
          /\ core'.pending = [owner |-> flow.acct, cloud |-> v]
      BY <3>1 DEF PendingWith, TypeOK, Cores
    <3>3. QED
      BY <2>1, <2>2, <3>2 DEF Pendings
  <2>6. QED
    BY <1>2, <2>3, <2>4, <2>5 DEF Flows, StartFlow, ArchiveFails, DropFlow
<1>3. QED
  BY <1>1, <1>2
     DEF Next, Local, Sessions, Server, MarkNotified, SaveNow, Commit, SetAutomatic, Flush,
         RestoreFromCloud, RetryTick, DeferConflict, Login, Logout, AuthRejected, LoseSession,
         Restart, EndSession, AnswerGet, AnswerPut, LatePut, RemoteWrite, vars

\* A choice decides in the name of the account logged in.
LEMMA ChoiceAsked ==
  ASSUME Consistent, NEW ok \in BOOLEAN, ChooseLocal(ok) \/ ChooseCloud(ok), core' # core
  PROVE  /\ ok = TRUE /\ Active
         /\ core'.owner = session /\ core'.pending = None
         /\ ChooseLocal(ok) => core'.items = core.items
<1>1. /\ ok = TRUE /\ Active
      /\ \E items, dirty : core' = Resolved(items, dirty)
      /\ ChooseLocal(ok) => core' = Resolved(core.items, TRUE)
  BY DEF ChooseLocal, ChooseCloud, VerifyChoice, Commit
<1>2. QED
  BY <1>1 DEF Resolved, TypeOK, Cores

\* The watch is kept in every reachable state.
LEMMA Watching == Spec => []Watched
BY Invariance, InitWatched, NextWatched, PTL DEF Spec

\* Unsynced edits are given up only by their upload, a choice, or a Restore
\* that no edit overtook while its request was out.
THEOREM EditsAlwaysSurvive == Spec => EditsSurvive
<1>1. Consistent /\ Watched /\ [Next]_vars =>
        [core.dirty /\ ~core'.dirty =>
           \/ core'.items = core.items
           \/ ChooseCloud(TRUE)
           \/ flow.intent = "Restore" /\ overtaken # "running"]_vars
  BY ArbitrationAsked, StepAsked, ChoiceAsked
<1>2. QED
  BY <1>1, Invariance, Watching, PTL DEF Spec, EditsSurvive

\* What a task of an ended session brings back is never committed.
THEOREM SessionsCommit == Spec => CommitsFollowSession
<1>1. Consistent /\ Watched /\ [Next]_vars =>
        [/\ core'.owner # core.owner => Active /\ core'.owner = session
         /\ core'.pending \notin {core.pending, None} =>
              Active /\ core'.pending.owner = session]_vars
  BY ArbitrationAsked, StepAsked, ChoiceAsked
<1>2. QED
  BY <1>1, Invariance, Watching, PTL DEF Spec, CommitsFollowSession

\* A conflict of an account is settled by nobody but its user.
THEOREM ConflictsAsked == Spec => ConflictIsAsked
<1>1. Consistent /\ Watched /\ [Next]_vars =>
        [core.pending # None /\ core'.pending = None =>
           \/ ChooseLocal(TRUE) \/ ChooseCloud(TRUE)
           \/ flow.intent = "Restore"
           \/ core.pending.owner # session]_vars
  BY ArbitrationAsked, StepAsked, ChoiceAsked, NoneAssumption
<1>2. QED
  BY <1>1, Invariance, Watching, PTL DEF Spec, ConflictIsAsked

-----------------------------------------------------------------------------
(* The contract *)

\* As long as no account owned the store, it has held imported tasks only.
Unclaimed == core.owner = None => core.items \cup recall \subseteq OwnItems(None)

\* An import belongs to nobody.
LEMMA InitUnclaimed == Init => Unclaimed
BY DEF Init, Unclaimed

\* A store without an owner changes by edits only.
LEMMA NextUnclaimed == Consistent /\ Watched /\ Unclaimed /\ [Next]_vars => Unclaimed'
<1> SUFFICES ASSUME Consistent, Watched, Unclaimed, [Next]_vars, core'.owner = None
             PROVE  core'.items \cup recall' \subseteq OwnItems(None)'
  BY DEF Unclaimed
<1>1. OwnItems(None)' = OwnItems(None)
  BY DEF OwnItems
<1>2. CASE \E new \in SUBSET Items, ok \in BOOLEAN : Edit(new, ok)
  <2>1. PICK new \in SUBSET Items, ok \in BOOLEAN : Edit(new, ok)
    BY <1>2
  <2>2. CASE ~ok
    BY <1>1, <2>1, <2>2 DEF Edit, Commit, Unclaimed
  <2>3. CASE ok
    <3>1. core' = Edited(new) /\ recall' = recall \cup (core.items \ OwnItems(session))
          /\ new \subseteq core.items \cup recall \cup OwnItems(Edited(new).owner)
      BY <2>1, <2>3 DEF Edit, Commit
    <3>2. core'.items = new /\ core'.owner \in {core.owner, session} /\ session # None
      BY <2>1, <3>1 DEF Edited, TypeOK, Cores, Edit, Active
    <3>3. QED
      BY <1>1, <3>1, <3>2 DEF Unclaimed
  <2>4. QED
    BY <2>2, <2>3
<1>3. CASE \E ok \in BOOLEAN : ChooseLocal(ok) \/ ChooseCloud(ok)
  <2>1. core' = core
    BY <1>3, ChoiceAsked DEF Active
  <2>2. recall' \in {recall, {}}
    BY <1>3 DEF ChooseLocal, ChooseCloud
  <2>3. QED
    BY <1>1, <2>1, <2>2 DEF Unclaimed
<1>4. CASE \E ok \in BOOLEAN : Arbitrate(ok)
  <2>1. PICK ok \in BOOLEAN : Arbitrate(ok)
    BY <1>4
  <2>2. flow.acct \in Accounts
    BY <2>1 DEF Arbitrate, Live, FlowOK, TypeOK, FlowStates
  <2>3. CASE ok /\ Decision(flow.reply.version) = "Restore"
    <3>1. core'.owner = flow.acct
      BY <2>1, <2>3 DEF Arbitrate, Commit, Arbitrated, TypeOK, Cores
    <3>2. QED
      BY <2>2, <3>1, NoneAssumption
  <2>4. CASE ~(ok /\ Decision(flow.reply.version) = "Restore")
    <3>1. recall' = recall
      BY <2>1, <2>4 DEF Arbitrate
    <3>2. core'.items = core.items /\ core'.owner = core.owner
      <4>1. CASE ~ok
        BY <2>1, <4>1 DEF Arbitrate, Commit
      <4>2. CASE ok
        <5>1. core' = Arbitrated(Decision(flow.reply.version), flow.reply.version)
              /\ Decision(flow.reply.version) \in {"Mark", "Upload", "Conflict"}
          BY <2>1, <2>4, <4>2, DecisionCases DEF Arbitrate, Commit
        <5>2. QED
          BY <5>1 DEF Arbitrated, PendingWith, TypeOK, Cores
      <4>3. QED
        BY <4>1, <4>2
    <3>3. QED
      BY <1>1, <3>1, <3>2 DEF Unclaimed
  <2>5. QED
    BY <2>3, <2>4
<1>5. CASE \/ \E ok \in BOOLEAN : Upload(ok) \/ Acknowledge(ok)
           \/ \E ok \in BOOLEAN : MarkNeedsCandidate(ok) \/ StoreCandidate(ok)
           \/ \E ok, late \in BOOLEAN : RequestFails(ok, late)
  <2>1. recall' = recall
    BY <1>5 DEF Upload, Acknowledge, MarkNeedsCandidate, StoreCandidate, RequestFails
  <2>2. core'.items = core.items /\ core'.owner = core.owner
    <3>1. core \in Cores
      BY DEF TypeOK
    <3>2. CASE \E ok \in BOOLEAN : Upload(ok)
      BY <3>1, <3>2 DEF Upload, Commit, Cores
    <3>3. CASE \E ok \in BOOLEAN : Acknowledge(ok)
      BY <3>1, <3>3 DEF Acknowledge, Commit, Cores
    <3>4. CASE \/ \E ok \in BOOLEAN : MarkNeedsCandidate(ok) \/ StoreCandidate(ok)
               \/ \E ok, late \in BOOLEAN : RequestFails(ok, late)
      <4>1. core' = core \/ \E v : core' = PendingWith(v)
        BY <3>4 DEF MarkNeedsCandidate, StoreCandidate, RequestFails, Commit, Blind
      <4>2. QED
        BY <3>1, <4>1 DEF PendingWith, Cores
    <3>5. QED
      BY <1>5, <3>2, <3>3, <3>4
  <2>3. QED
    BY <1>1, <2>1, <2>2 DEF Unclaimed
<1>6. CASE \/ Sessions \/ Server
           \/ \E ok \in BOOLEAN : MarkNotified(ok) \/ SaveNow(ok)
           \/ \E on \in BOOLEAN : SetAutomatic(on)
           \/ Flush \/ RestoreFromCloud \/ RetryTick \/ DeferConflict
           \/ \E intent \in Intents : StartFlow(intent)
           \/ ArchiveFails
           \/ \E late \in BOOLEAN : DropFlow(late)
           \/ UNCHANGED vars
  <2>1. core' = core /\ (recall' = recall \/ recall' = {})
    BY <1>6
       DEF Sessions, Login, Logout, AuthRejected, LoseSession, Restart, EndSession,
           Server, AnswerGet, AnswerPut, LatePut, RemoteWrite, MarkNotified, SaveNow, Commit,
           SetAutomatic, Flush, RestoreFromCloud, RetryTick, DeferConflict, StartFlow,
           ArchiveFails, DropFlow, vars
  <2>2. QED
    BY <1>1, <2>1 DEF Unclaimed
<1>7. QED
  BY <1>2, <1>3, <1>4, <1>5, <1>6 DEF Next, Local, Flows

\* A step offers the server nothing new, unless an upload begins.
LEMMA OffersFade ==
  ASSUME Consistent, [Next]_vars, flow.phase = "upload" => flow'.phase # "put"
  PROVE  Outstanding' \subseteq Outstanding
<1>1. CASE \E new \in SUBSET Items, ok \in BOOLEAN : Edit(new, ok)
  <2>1. \/ flow' = flow
        \/ flow' = [flow EXCEPT !.same = flow.same /\ flow.phase # "get"]
    BY <1>1 DEF Edit
  <2>2. UNCHANGED <<flow.phase, flow.acct, flow.base, flow.items, flow.reply>>
    BY <2>1 DEF TypeOK, FlowStates
  <2>3. QED
    BY <1>1, <2>2, SameRequest DEF Edit
<1>2. CASE \/ \E ok \in BOOLEAN : MarkNotified(ok) \/ SaveNow(ok)
           \/ \E on \in BOOLEAN : SetAutomatic(on)
           \/ Flush \/ RestoreFromCloud \/ RetryTick \/ DeferConflict \/ UNCHANGED vars
  BY <1>2, SameRequest
     DEF MarkNotified, SaveNow, SetAutomatic, Flush, RestoreFromCloud, RetryTick,
         DeferConflict, vars, TypeOK, FlowStates
<1>3. CASE \E ok \in BOOLEAN : ChooseLocal(ok) \/ ChooseCloud(ok)
  BY <1>3, SameRequest DEF ChooseLocal, ChooseCloud, AfterChoice, TypeOK, FlowStates
<1>4. CASE Sessions
  <2>1. CASE \/ \E a \in Accounts : Login(a)
             \/ Logout
    BY <2>1, SameRequest DEF Login, Logout, EndSession, TypeOK, FlowStates
  <2>2. CASE AuthRejected
    BY <2>2 DEF AuthRejected, TypeOK, FlowStates, Outstanding, Unanswered, Request
  <2>3. CASE LoseSession
    BY <2>3, EndedRequest DEF LoseSession, EndSession
  <2>4. CASE \E keep, late \in BOOLEAN : Restart(keep, late)
    BY <2>4, EndedRequest DEF Restart
  <2>5. QED
    BY <1>4, <2>1, <2>2, <2>3, <2>4 DEF Sessions
<1>5. CASE Flows
  <2>1. CASE \E intent \in Intents : StartFlow(intent)
    <3>1. ~Unanswered' /\ wire' = wire
      BY <2>1 DEF StartFlow, Idle, Unanswered
    <3>2. QED
      BY <3>1 DEF Outstanding
  <2>2. CASE flow' = Idle /\ ~\E intent \in Intents : StartFlow(intent)
    <3>1. wire' = wire \/ \E late \in BOOLEAN : Abandon(late)
      BY <1>5, <2>2 DEF Flows, Arbitrate, Upload, Acknowledge, MarkNeedsCandidate,
                        StoreCandidate, ArchiveFails, RequestFails, DropFlow
    <3>2. QED
      BY <2>2, <3>1, EndedRequest
  <2>3. CASE flow' # Idle /\ ~\E intent \in Intents : StartFlow(intent)
    <3>1. flow'.phase # "put" /\ wire' = wire
      <4>1. CASE \E ok \in BOOLEAN : Arbitrate(ok) \/ Upload(ok)
        BY <2>3, <4>1 DEF Arbitrate, Upload, EndFlow, TypeOK, FlowStates
      <4>2. CASE ~\E ok \in BOOLEAN : Arbitrate(ok) \/ Upload(ok)
        BY <1>5, <2>3, <4>2 DEF Flows, Acknowledge, MarkNeedsCandidate,
           StoreCandidate, ArchiveFails, RequestFails, DropFlow, EndFlow, TypeOK, FlowStates
      <4>3. QED
        BY <4>1, <4>2
    <3>2. QED
      BY <3>1 DEF Outstanding, Unanswered
  <2>4. QED
    BY <2>1, <2>2, <2>3
<1>6. CASE Server
  <2>1. CASE AnswerGet
    BY <2>1 DEF AnswerGet, Answer, Outstanding, Unanswered, TypeOK, FlowStates
  <2>2. CASE AnswerPut
    <3>1. flow'.reply = [ok |-> Request.base = Version(flow.acct),
                         version |-> Version(flow.acct) + 1]
      BY <2>2 DEF AnswerPut, Answer, TypeOK, FlowStates
    <3>2. Version(flow.acct) + 1 \in Nat
      BY <2>2 DEF AnswerPut, Unanswered, FlowOK, Version, TypeOK, FlowStates
    <3>3. (Request.base = Version(flow.acct)) \in BOOLEAN
      OBVIOUS
    <3>4. flow'.reply \in Replies
      BY <3>1, <3>2, <3>3 DEF Replies
    <3>5. QED
      BY <2>2, <3>4, NoneAssumption DEF AnswerPut, Outstanding, Unanswered
  <2>3. CASE \/ \E m \in wire : LatePut(m)
             \/ \E a \in Accounts, items \in SUBSET Items : RemoteWrite(a, items)
    BY <2>3 DEF LatePut, RemoteWrite, Outstanding, Unanswered, Request
  <2>4. QED
    BY <1>6, <2>1, <2>2, <2>3 DEF Server
<1>7. QED
  BY <1>1, <1>2, <1>3, <1>4, <1>5, <1>6 DEF Next, Local

\* A wish comes from the user only.
LEMMA WishesFade ==
  ASSUME Consistent, [Next]_vars, "Restore" \in queue' => "Restore" \in queue
  PROVE  Wished' => Wished
<1> SUFFICES ASSUME Wished' PROVE Wished
  OBVIOUS
<1> USE DEF Wished, Live
<1>1. CASE \E new \in SUBSET Items, ok \in BOOLEAN : Edit(new, ok)
  <2>1. PICK new \in SUBSET Items, ok \in BOOLEAN : Edit(new, ok)
    BY <1>1
  <2>2. flow'.intent = flow.intent /\ flow'.ctx = flow.ctx /\ UNCHANGED <<lease, queue>>
    BY <2>1 DEF Edit, TypeOK, FlowStates
  <2>3. overtaken' = "running" \/ overtaken' = overtaken \/ flow.intent # "Restore"
    BY <2>1 DEF Edit, RestorePlace
  <2>4. QED
    BY <2>2, <2>3
<1>0. CASE RestoreFromCloud
  BY <1>0 DEF RestoreFromCloud, Active
<1>2. CASE \/ \E ok \in BOOLEAN : MarkNotified(ok) \/ SaveNow(ok)
           \/ \E on \in BOOLEAN : SetAutomatic(on)
           \/ Flush \/ RetryTick \/ DeferConflict \/ UNCHANGED vars
  <2>1. /\ flow'.intent = flow.intent /\ flow'.ctx = flow.ctx
        /\ UNCHANGED <<lease, overtaken>> /\ queue' \in {queue, queue \cup {"Manual"}}
    BY <1>2 DEF MarkNotified, SaveNow, SetAutomatic, Flush, RetryTick, DeferConflict, vars,
                TypeOK, FlowStates
  <2>2. QED
    BY <2>1
<1>3. CASE \E ok \in BOOLEAN : ChooseLocal(ok) \/ ChooseCloud(ok)
  <2>1. /\ flow'.intent = flow.intent /\ (flow'.ctx = "live" => flow.ctx = "live")
        /\ UNCHANGED <<lease, overtaken>>
        /\ queue' \in {queue, queue \cup {"ConfirmLocal"}, queue \cup {}}
    BY <1>3 DEF ChooseLocal, ChooseCloud, AfterChoice, TypeOK, FlowStates
  <2>2. QED
    BY <2>1
<1>4. CASE Sessions
  <2>1. CASE \E a \in Accounts : Login(a)
    BY <2>1, NoneAssumption DEF Login, FlowOK, TypeOK, FlowStates
  <2>2. CASE Logout \/ AuthRejected \/ LoseSession
    BY <2>2 DEF Logout, AuthRejected, LoseSession, EndSession
  <2>3. CASE \E keep, late \in BOOLEAN : Restart(keep, late)
    BY <2>3 DEF Restart, Idle
  <2>4. QED
    BY <1>4, <2>1, <2>2, <2>3 DEF Sessions
<1>5. CASE \E intent \in Intents : StartFlow(intent)
  <2>1. PICK intent \in Intents : StartFlow(intent)
    BY <1>5
  <2>2. lease /\ flow.ctx # "live" /\ queue' \subseteq queue
    BY <2>1 DEF StartFlow, Active, Takes, FlowOK, TypeOK, FlowStates
  <2>3. CASE flow' = flow
    BY <2>2, <2>3
  <2>4. CASE flow' # flow
    <3>1. flow'.intent = intent
      BY <2>1, <2>4 DEF StartFlow, Idle
    <3>2. intent = "Restore" => "Restore" \in queue
      BY <2>1, NoneAssumption DEF StartFlow, Takes, TypeOK, Intents
    <3>3. QED
      BY <2>2, <3>1, <3>2
  <2>5. QED
    BY <2>3, <2>4
<1>6. CASE Flows /\ ~\E intent \in Intents : StartFlow(intent)
  <2>1. UNCHANGED <<lease, queue>>
    BY <1>6 DEF Flows, Arbitrate, Upload, Acknowledge, MarkNeedsCandidate, StoreCandidate,
                ArchiveFails, RequestFails, DropFlow
  <2>2. CASE flow' = Idle
    BY <2>1, <2>2 DEF Idle
  <2>3. CASE flow' # Idle
    <3>1. UNCHANGED overtaken /\ flow'.intent = flow.intent /\ flow'.ctx = flow.ctx
      <4>1. CASE \E ok \in BOOLEAN : Arbitrate(ok)
        BY <2>3, <4>1 DEF Arbitrate, EndFlow, TypeOK, FlowStates
      <4>2. CASE \E ok \in BOOLEAN : Upload(ok)
        BY <2>3, <4>2 DEF Upload, EndFlow, TypeOK, FlowStates
      <4>3. CASE \/ ArchiveFails
                 \/ \E ok \in BOOLEAN : Acknowledge(ok) \/ MarkNeedsCandidate(ok) \/ StoreCandidate(ok)
                 \/ \E ok, late \in BOOLEAN : RequestFails(ok, late)
                 \/ \E late \in BOOLEAN : DropFlow(late)
        BY <2>3, <4>3 DEF Acknowledge, MarkNeedsCandidate, StoreCandidate, ArchiveFails,
                          RequestFails, DropFlow, EndFlow, TypeOK, FlowStates
      <4>4. QED
        BY <1>6, <4>1, <4>2, <4>3 DEF Flows
    <3>2. QED
      BY <2>1, <3>1
  <2>4. QED
    BY <2>2, <2>3
<1>7. CASE Server
  <2>1. /\ flow'.intent = flow.intent /\ flow'.ctx = flow.ctx
        /\ UNCHANGED <<lease, queue, overtaken>>
    BY <1>7 DEF Server, AnswerGet, AnswerPut, Answer, LatePut, RemoteWrite, TypeOK, FlowStates
  <2>2. QED
    BY <2>1
<1>8. QED
  BY <1>0, <1>1, <1>2, <1>3, <1>4, <1>5, <1>6, <1>7 DEF Next, Local

\* Steps that keep the store and what is known of the clouds, and log nobody in.
LEMMA FadeMaps ==
  ASSUME Consistent, [Next]_vars, flow.phase = "upload" => flow'.phase # "put",
         "Restore" \in queue' => "Restore" \in queue,
         UNCHANGED <<core, User, agreed, cloud, approved>>
  PROVE  [Shared!Next]_(Shared!vars)
<1>1. Shared!Fade
  BY OffersFade, WishesFade DEF Shared!Fade, Shared!Fading, Shared!device
<1>2. QED
  BY <1>1 DEF Shared!Next

\* Logging in enters, every end of a session leaves.
LEMMA SessionsMap ==
  ASSUME Consistent, Sessions
  PROVE  [Shared!Next]_(Shared!vars)
<1>1. /\ flow.phase = "upload" => flow'.phase # "put"
      /\ "Restore" \in queue' => "Restore" \in queue
  <2>1. CASE \E a \in Accounts : Login(a)
    BY <2>1 DEF Login
  <2>2. CASE Logout \/ AuthRejected
    BY <2>2 DEF Logout, AuthRejected, EndSession, TypeOK, FlowStates
  <2>3. CASE LoseSession
    BY <2>3 DEF LoseSession, EndSession, Idle
  <2>4. CASE \E keep, late \in BOOLEAN : Restart(keep, late)
    BY <2>4 DEF Restart, Idle
  <2>5. QED
    BY <2>1, <2>2, <2>3, <2>4 DEF Sessions
<1>2. UNCHANGED <<core, agreed, cloud, approved>>
  BY DEF Sessions, Login, Logout, AuthRejected, LoseSession, Restart, EndSession
<1>3. Shared!Fading
  BY <1>1, OffersFade, WishesFade DEF Shared!Fading, Next
<1>4. CASE User' = User
  BY <1>1, <1>2, <1>4, FadeMaps DEF Next
<1>5. CASE User' # User /\ User' = None
  <2>1. ~lease'
    BY <1>5 DEF Sessions, Login, Logout, AuthRejected, LoseSession, Restart, EndSession,
                Active, User, TypeOK
  <2>2. Shared!Leave
    BY <1>2, <1>3, <1>5, <2>1 DEF Shared!Leave, Shared!device, Wished
  <2>3. QED
    BY <2>2 DEF Shared!Next
<1>6. CASE User' # User /\ User' # None
  <2>1. User = None /\ User' \in Accounts
    BY <1>6 DEF Sessions, Login, Logout, AuthRejected, LoseSession, Restart, EndSession,
                Active, User, TypeOK
  <2>2. Shared!Enter(User')
    BY <1>2, <1>3, <2>1 DEF Shared!Enter, Shared!device
  <2>3. QED
    BY <2>1, <2>2 DEF Shared!Next
<1>7. QED
  BY <1>4, <1>5, <1>6

\* What the user and the retry driver ask for keeps the store.
LEMMA RequestsMap ==
  ASSUME Consistent,
         \/ \E ok \in BOOLEAN : MarkNotified(ok) \/ SaveNow(ok)
         \/ \E on \in BOOLEAN : SetAutomatic(on)
         \/ Flush \/ RestoreFromCloud \/ RetryTick \/ DeferConflict
  PROVE  [Shared!Next]_(Shared!vars)
<1>1. /\ UNCHANGED <<core, session, lease, agreed, cloud, approved, flow.phase>>
      /\ [Next]_vars
  <2>1. UNCHANGED <<core, session, lease, agreed, cloud, approved, flow.phase>>
    BY DEF MarkNotified, SaveNow, Commit, SetAutomatic, Flush, RestoreFromCloud,
           RetryTick, DeferConflict, TypeOK, FlowStates
  <2>2. QED
    BY <2>1 DEF Next, Local
<1>2. CASE RestoreFromCloud
  <2>1. UNCHANGED Outstanding
    BY <1>2, SameRequest DEF RestoreFromCloud
  <2>2. Wished' /\ User # None
    BY <1>2 DEF RestoreFromCloud, Wished, User, Active
  <2>3. Shared!Wish
    BY <1>1, <2>1, <2>2 DEF Shared!Wish, Shared!device, User
  <2>4. QED
    BY <2>3 DEF Shared!Next
<1>3. CASE ~RestoreFromCloud
  <2>1. "Restore" \in queue' => "Restore" \in queue
    BY <1>3 DEF MarkNotified, SaveNow, SetAutomatic, Flush, RetryTick, DeferConflict
  <2>2. QED
    BY <1>1, <2>1, FadeMaps DEF User
<1>4. QED
  BY <1>2, <1>3

\* An edit adds tasks the owner may have, or brings back what the store had.
LEMMA EditMaps ==
  ASSUME Consistent, Owned, Unclaimed, NEW new \in SUBSET Items, NEW ok \in BOOLEAN, Edit(new, ok)
  PROVE  [Shared!Next]_(Shared!vars)
<1>1. /\ [Next]_vars
      /\ UNCHANGED <<session, lease, queue, agreed, cloud, approved>>
      /\ flow.phase = "upload" => flow'.phase # "put"
      /\ Active
  <2>1. flow.phase = "upload" => flow'.phase # "put"
    BY DEF Edit, TypeOK, FlowStates
  <2>2. QED
    BY <2>1 DEF Edit, Next, Local
<1>2. CASE ~ok
  BY <1>1, <1>2, FadeMaps DEF Edit, Commit, User
<1>3. CASE ok
  <2>1. /\ core' = Edited(new) /\ new \subseteq core.items \cup recall \cup OwnItems(core'.owner)
    BY <1>3 DEF Edit, Commit
  <2>2. /\ core'.items = new /\ core'.dirty = TRUE /\ core'.pending = core.pending
        /\ IF Claims THEN core'.owner = session /\ core'.known = None
                     ELSE core'.owner = core.owner /\ core'.known = core.known
    BY <2>1 DEF Edited, TypeOK, Cores
  <2>3. User = session /\ User' = session /\ session \in Accounts
    BY <1>1 DEF User, Active, TypeOK
  <2>4. recall \subseteq core.items \cup Shared!Permitted(core'.owner)
    <3>1. CASE Claims
      BY <3>1 DEF Claims, Owned, StoreOwned
    <3>2. CASE ~Claims
      BY <2>2, <3>2 DEF Unclaimed, Owned, StoreOwned, Mine, OwnItems, Shared!Permitted
    <3>3. QED
      BY <3>1, <3>2
  <2>5. OwnItems(core'.owner) \subseteq Shared!Permitted(core'.owner)
    BY DEF OwnItems, Shared!Permitted
  <2>6. core'.items \subseteq core.items \cup Shared!Permitted(core'.owner)
    BY <2>1, <2>2, <2>4, <2>5
  <2>7. Shared!Permitted(core.owner') = Shared!Permitted(core'.owner)
    OBVIOUS
  <2>8. Shared!Fading
    BY <1>1, OffersFade, WishesFade DEF Shared!Fading
  <2>9. Shared!Edit
    BY <1>1, <2>2, <2>3, <2>6, <2>8, NoneAssumption DEF Shared!Edit, Claims, TypeOK
  <2>10. QED
    BY <2>9 DEF Shared!Next
<1>4. QED
  BY <1>2, <1>3

\* A choice is the user's answer to the candidate, and a failed one is no step.
LEMMA ChoicesMap ==
  ASSUME Consistent, Owned, Unclaimed,
         NEW ok \in BOOLEAN, ChooseLocal(ok) \/ ChooseCloud(ok)
  PROVE  [Shared!Next]_(Shared!vars)
<1> DEFINE v == core.pending.cloud
<1>1. /\ [Next]_vars
      /\ UNCHANGED <<session, lease, cloud>>
      /\ flow.phase = "upload" => flow'.phase # "put"
      /\ "Restore" \in queue' => "Restore" \in queue
  <2>1. flow.phase = "upload" => flow'.phase # "put"
    BY DEF ChooseLocal, ChooseCloud, AfterChoice, TypeOK, FlowStates
  <2>2. queue' \in {queue, queue \cup {"ConfirmLocal"}, queue \cup {}}
    BY DEF ChooseLocal, ChooseCloud, AfterChoice
  <2>3. QED
    BY <2>1, <2>2 DEF ChooseLocal, ChooseCloud, Next, Local
<1>2. /\ User = session /\ User' = session /\ session \in Accounts
      /\ core.pending = [owner |-> session, cloud |-> v]
      /\ v \in Nat /\ v <= Version(session)
  <2>1. ReadyConflict(core, session) /\ session # None /\ lease
    BY DEF ChooseLocal, ChooseCloud, VerifyChoice, Active
  <2>2. core.pending \in Pendings
    BY <2>1 DEF ReadyConflict, PendingFor, TypeOK, Cores
  <2>3. QED
    BY <1>1, <2>1, <2>2 DEF ReadyConflict, PendingFor, BaselineOK, TypeOK, Pendings, User
<1>3. CASE ~ok
  BY <1>1, <1>2, <1>3, FadeMaps DEF ChooseLocal, ChooseCloud, AfterChoice, Commit
<1>4. CASE ok
  <2>1. Shared!Fading
    BY <1>1, OffersFade, WishesFade DEF Shared!Fading
  <2>2. Shared!Knows(session, v)
    BY <1>4, <1>2 DEF ChooseLocal, ChooseCloud, AfterChoice, Approve, Version,
                Shared!Knows, Shared!Newest
  <2>3. v \in Shared!Versions(User)
    BY <1>2 DEF Shared!Versions, Shared!Newest, Version, TypeOK
  <2>4. CASE ChooseLocal(ok)
    <3>1. core' = Resolved(core.items, TRUE)
          /\ agreed' = [agreed EXCEPT ![session] = @ \cup core.items \cup recall]
      BY <1>4, <2>4 DEF ChooseLocal, Commit
    <3>2. /\ core'.items = core.items /\ core'.owner = session /\ core'.known = v
          /\ core'.dirty = TRUE /\ core'.pending = None
      BY <3>1 DEF Resolved, TypeOK, Cores
    <3>3. recall \subseteq Shared!Permitted(core.owner)
      BY DEF Unclaimed, Owned, StoreOwned, Mine, OwnItems, Shared!Permitted
    <3>4. Shared!Keep(v)
      BY <1>1, <1>2, <2>1, <2>2, <3>1, <3>2, <3>3, NoneAssumption DEF Shared!Keep
    <3>5. QED
      BY <1>2, <2>3, <3>4, NoneAssumption DEF Shared!Next
  <2>5. CASE ChooseCloud(ok)
    <3>1. core' = Resolved(Snapshot(session, v), FALSE) /\ agreed' = agreed
      BY <1>4, <2>5 DEF ChooseCloud, Commit
    <3>2. /\ core'.items = Snapshot(session, v) /\ core'.owner = session /\ core'.known = v
          /\ core'.dirty = FALSE /\ core'.pending = None
      BY <3>1 DEF Resolved, TypeOK, Cores
    <3>3. Shared!Take(v)
      BY <1>1, <1>2, <2>1, <2>2, <3>1, <3>2, NoneAssumption
         DEF Shared!Take, Shared!Held, Snapshot
    <3>4. QED
      BY <1>2, <2>3, <3>3, NoneAssumption DEF Shared!Next
  <2>6. QED
    BY <2>4, <2>5
<1>5. QED
  BY <1>3, <1>4

\* A live flow acts for the account logged in.
LEMMA FlowUser ==
  ASSUME Consistent, Watched, Live, flow.phase # "lost"
  PROVE  flow.acct = session /\ session \in Accounts /\ User = session /\ User # None /\ lease
BY NoneAssumption DEF Live, FlowOK, TypeOK, FlowStates, Watched, User

\* What a decision makes of the store: a wish, a blank store or a conflict comes first.
LEMMA ArbitrateMaps ==
  ASSUME Consistent, Watched, NEW ok \in BOOLEAN, Arbitrate(ok)
  PROVE  [Shared!Next]_(Shared!vars)
<1> DEFINE v == flow.reply.version
<1>1. /\ flow.acct = session /\ session \in Accounts /\ User = session /\ User # None
      /\ v \in Nat /\ v <= Version(session) /\ flow.phase = "get" /\ lease
  BY FlowUser DEF Arbitrate, ReplyOK, FlowOK, Live, TypeOK, FlowStates, Replies
<1>2. /\ [Next]_vars
      /\ UNCHANGED <<session, lease, queue, cloud, agreed>> /\ User' = User
      /\ flow.phase = "upload" => flow'.phase # "put"
  BY <1>1 DEF Arbitrate, Next, Flows, User
<1>3. Shared!Fading
  BY <1>2, OffersFade, WishesFade DEF Shared!Fading
<1>4. v \in Shared!Versions(User)
  BY <1>1 DEF Shared!Versions, Shared!Newest, Version, TypeOK
<1>5. CASE core' = core /\ UNCHANGED approved
  BY <1>2, <1>5, FadeMaps
<1>6. CASE ok /\ Decision(v) = "Restore"
  <2>1. /\ core'.items = Snapshot(session, v) /\ core'.owner = session /\ core'.known = v
        /\ core'.dirty = FALSE /\ core'.pending = None
    BY <1>1, <1>6 DEF Arbitrate, Commit, Arbitrated, TypeOK, Cores
  <2>2. Shared!Knows(session, v)
    BY <1>1, <1>6 DEF Arbitrate, Approve, Version, Shared!Knows, Shared!Newest
  <2>3. Wished \/ (core.items = {} /\ ~core.dirty /\ ~PendingFor(core, session))
    <3>1. CASE flow.intent = "Restore"
      BY <1>1, <1>6, <3>1 DEF Decision, RestoreDecision, Watched, Wished, Arbitrate
    <3>2. CASE flow.intent # "Restore"
      BY <1>1, <1>6, <3>2 DEF Decision, Disputed, NoBase, OnBase, Blank
    <3>3. QED
      BY <3>1, <3>2
  <2>4. Shared!Take(v)
    BY <1>1, <1>2, <1>3, <2>1, <2>2, <2>3
       DEF Shared!Take, Shared!Held, Snapshot, PendingFor
  <2>5. QED
    BY <1>1, <1>4, <2>4 DEF Shared!Next
<1>7. CASE ok /\ Decision(v) = "Conflict"
  <2>1. /\ core'.items = core.items /\ core'.owner = core.owner /\ core'.known = core.known
        /\ core'.dirty = core.dirty /\ core'.pending = [owner |-> session, cloud |-> v]
        /\ UNCHANGED approved
    BY <1>1, <1>7 DEF Arbitrate, Commit, Arbitrated, PendingWith, TypeOK, Cores
  <2>2. Shared!Dispute(v)
    BY <1>1, <1>2, <1>3, <2>1 DEF Shared!Dispute
  <2>3. QED
    BY <1>1, <1>4, <2>2 DEF Shared!Next
<1>8. CASE ok /\ Decision(v) \in {"Mark", "Upload"}
  <2>1. /\ core'.items = core.items /\ core'.owner = core.owner /\ core'.known = v
        /\ core'.dirty \in {core.dirty, TRUE} /\ core'.pending = core.pending
        /\ UNCHANGED approved
    BY <1>8 DEF Arbitrate, Commit, Arbitrated, TypeOK, Cores
  <2>2. core.owner = session /\ (core.known = v \/ Snapshot(session, v) = {})
    BY <1>1, <1>8, DecisionCases
  <2>3. core.pending # None => core.pending.owner # session
    BY <1>1, <1>8 DEF Decision, RestoreDecision, Disputed, PendingFor
  <2>4. Shared!Replaceable(session, v)
    BY <1>1, <2>2, NoneAssumption
       DEF BaselineOK, MayReplace, Shared!Replaceable, Shared!Newest, Shared!Held, Version, Snapshot
  <2>5. Shared!Rebase(v)
    BY <1>1, <1>2, <1>3, <2>1, <2>2, <2>3, <2>4 DEF Shared!Rebase, Shared!Undisputed
  <2>6. QED
    BY <1>1, <1>4, <2>5 DEF Shared!Next
<1>9. QED
  <2>1. ~ok => core' = core /\ UNCHANGED approved
    BY DEF Arbitrate, Commit
  <2>2. QED
    BY <1>5, <1>6, <1>7, <1>8, <2>1, DecisionCases

\* An upload begins with an offer over the confirmed baseline, or not at all.
LEMMA UploadMaps ==
  ASSUME Consistent, Watched, NEW ok \in BOOLEAN, Upload(ok)
  PROVE  [Shared!Next]_(Shared!vars)
<1>1. /\ flow.acct = session /\ User = session /\ User # None /\ flow.phase = "upload"
  BY FlowUser DEF Upload
<1>2. /\ [Next]_vars
      /\ UNCHANGED <<session, lease, queue, cloud, agreed, approved, wire>> /\ User' = User
      /\ core'.items = core.items /\ core'.owner = core.owner /\ core'.known = core.known
      /\ core'.dirty = core.dirty /\ core'.pending = core.pending
  <2>1. /\ core'.items = core.items /\ core'.owner = core.owner /\ core'.known = core.known
        /\ core'.dirty = core.dirty /\ core'.pending = core.pending
    BY DEF Upload, Commit, TypeOK, Cores
  <2>2. QED
    BY <2>1 DEF Upload, Next, Flows, User
<1>3. CASE flow'.phase # "put"
  <2>1. Shared!Fading
    BY <1>2, <1>3, OffersFade, WishesFade DEF Shared!Fading
  <2>2. Shared!Fade
    BY <1>2, <2>1 DEF Shared!Fade, Shared!device
  <2>3. QED
    BY <2>2 DEF Shared!Next
<1>4. CASE flow'.phase = "put"
  <2>1. /\ ~Unconfirmed /\ core.dirty /\ core.known # None
        /\ flow' = [flow EXCEPT !.phase = "put", !.base = core.known, !.items = core.items]
        /\ UNCHANGED overtaken
    <3>1. flow' # Idle
      BY <1>4 DEF Idle
    <3>2. QED
      BY <3>1 DEF Upload, EndFlow
  <2>2. Outstanding' = Outstanding \cup {[acct |-> core.owner, base |-> core.known,
                                          items |-> core.items]}
    <3>1. Outstanding = wire
      BY <1>1 DEF Outstanding, Unanswered
    <3>2. /\ flow'.acct = session /\ flow'.base = core.known /\ flow'.items = core.items
          /\ flow'.phase = "put" /\ flow'.reply = flow.reply /\ flow.reply = None
      BY <1>1, <2>1 DEF TypeOK, FlowStates, FlowOK
    <3>3. QED
      BY <1>1, <1>2, <2>1, <3>1, <3>2 DEF Outstanding, Unanswered, Request, Unconfirmed
  <2>3. Wished' = Wished
    BY <1>2, <2>1 DEF Wished, Live, TypeOK, FlowStates
  <2>4. Shared!Offer
    BY <1>1, <1>2, <2>1, <2>2, <2>3 DEF Shared!Offer, Shared!device, Unconfirmed
  <2>5. QED
    BY <2>4 DEF Shared!Next
<1>5. QED
  BY <1>3, <1>4

\* A reply confirms exactly what was sent, or only that the device wrote it.
LEMMA AcknowledgeMaps ==
  ASSUME Consistent, Watched, NEW ok \in BOOLEAN, Acknowledge(ok)
  PROVE  [Shared!Next]_(Shared!vars)
<1> DEFINE v == flow.reply.version
<1>1. /\ flow.acct = session /\ session \in Accounts /\ User = session /\ User # None
      /\ v \in Nat /\ v <= Version(session) /\ Snapshot(session, v) = flow.items
      /\ MayReplace(session, v) /\ flow.phase = "put"
  <2>1. /\ flow.acct = session /\ session \in Accounts /\ User = session /\ User # None
    BY FlowUser DEF Acknowledge
  <2>2. flow.reply \in Replies /\ flow.ctx # "none" /\ flow.phase = "put" /\ flow.reply.ok
    BY DEF Acknowledge, Live, TypeOK, FlowStates
  <2>3. QED
    BY <2>1, <2>2, NoneAssumption DEF ReplyOK, Replies
<1>2. /\ [Next]_vars
      /\ UNCHANGED <<session, lease, queue, cloud, agreed, approved>> /\ User' = User
      /\ flow.phase # "upload"
  BY <1>1 DEF Acknowledge, Next, Flows, User
<1>3. Shared!Fading
  BY <1>2, OffersFade, WishesFade DEF Shared!Fading
<1>4. CASE core' = core
  BY <1>2, <1>4, FadeMaps
<1>5. CASE core' # core
  <2>1. /\ core.owner = session /\ core.pending = None
        /\ core.uncertain = "exact" => core.items = flow.items
    BY <1>1 DEF UploadIsMarked, Acknowledge
  <2>2. core' = [core EXCEPT !.known = v, !.uncertain = "none",
                             !.dirty = core.dirty /\ core.uncertain = "outdated"]
        /\ core.uncertain # "none"
    BY <1>5 DEF Acknowledge, Commit
  <2>3. /\ core'.items = core.items /\ core'.owner = core.owner /\ core'.known = v
        /\ core'.pending = core.pending
        /\ core'.dirty = (core.dirty /\ core.uncertain = "outdated")
    BY <2>2 DEF TypeOK, Cores
  <2>4. v \in Shared!Versions(User) /\ Shared!Replaceable(User, v)
    BY <1>1 DEF Shared!Versions, Shared!Newest, Version, TypeOK,
                MayReplace, Shared!Replaceable, Shared!Held, Snapshot
  <2>5. CASE core.uncertain = "outdated"
    <3>1. core'.dirty = core.dirty
      BY <2>3, <2>5 DEF TypeOK, Cores
    <3>2. Shared!Rebase(v)
      BY <1>1, <1>2, <1>3, <2>1, <2>3, <2>4, <3>1 DEF Shared!Rebase, Shared!Undisputed
    <3>3. QED
      BY <1>1, <2>4, <3>2 DEF Shared!Next
  <2>6. CASE core.uncertain = "exact"
    <3>1. core'.dirty = FALSE
      BY <2>3, <2>6
    <3>2. core.items = Shared!Held(User, v)
      BY <1>1, <2>1, <2>6 DEF Shared!Held, Snapshot
    <3>3. Shared!Confirm(v)
      BY <1>1, <1>2, <1>3, <2>1, <2>3, <2>4, <3>1, <3>2 DEF Shared!Confirm, Shared!Undisputed
    <3>4. QED
      BY <1>1, <2>4, <3>3 DEF Shared!Next
  <2>7. QED
    BY <2>2, <2>5, <2>6 DEF TypeOK, Cores
<1>6. QED
  BY <1>4, <1>5

\* Refused uploads and failed Restores record a conflict of the account logged in.
LEMMA ConflictsMap ==
  ASSUME Consistent, Watched,
         \/ \E ok \in BOOLEAN : MarkNeedsCandidate(ok) \/ StoreCandidate(ok)
         \/ \E ok, late \in BOOLEAN : RequestFails(ok, late)
  PROVE  [Shared!Next]_(Shared!vars)
<1>1. /\ flow.acct = session /\ session \in Accounts /\ User = session /\ User # None
      /\ flow.phase \in {"get", "put", "fetch"} /\ Live
  BY FlowUser DEF MarkNeedsCandidate, StoreCandidate, RequestFails
<1>2. /\ [Next]_vars
      /\ UNCHANGED <<session, lease, queue, cloud, agreed, approved>> /\ User' = User
  <2>1. Next
    BY DEF Next, Flows
  <2>2. UNCHANGED <<session, lease, queue, cloud, agreed, approved>>
    BY DEF MarkNeedsCandidate, StoreCandidate, RequestFails
  <2>3. QED
    BY <2>1, <2>2 DEF User
<1>3. Shared!Fading
  BY <1>1, <1>2, OffersFade, WishesFade DEF Shared!Fading
<1>4. CASE core' = core
  BY <1>1, <1>2, <1>4, FadeMaps
<1>5. CASE core' # core
  <2>1. PICK v \in Shared!Versions(User) \cup {None} : core' = PendingWith(v)
    <3>1. CASE \E ok \in BOOLEAN : StoreCandidate(ok)
      <4>1. flow.reply \in Replies /\ flow.reply.version <= Version(session)
        BY <1>1, <3>1 DEF StoreCandidate, ReplyOK, Live, TypeOK, FlowStates
      <4>2. flow.reply.version \in Shared!Versions(User)
        BY <1>1, <4>1 DEF Replies, Shared!Versions, Shared!Newest, Version, TypeOK
      <4>3. QED
        BY <1>5, <3>1, <4>2 DEF StoreCandidate, Commit
    <3>2. CASE ~\E ok \in BOOLEAN : StoreCandidate(ok)
      BY <1>5, <3>2 DEF MarkNeedsCandidate, RequestFails, Commit, Blind
    <3>3. QED
      BY <3>1, <3>2
  <2>2. /\ core'.items = core.items /\ core'.owner = core.owner /\ core'.known = core.known
        /\ core'.dirty = core.dirty /\ core'.pending = [owner |-> session, cloud |-> v]
    BY <1>1, <2>1 DEF PendingWith, TypeOK, Cores
  <2>3. Shared!Dispute(v)
    BY <1>1, <1>2, <1>3, <2>2 DEF Shared!Dispute
  <2>4. QED
    BY <1>1, <2>1, <2>3 DEF Shared!Next
<1>6. QED
  BY <1>4, <1>5

\* Flows that begin or end without a commit.
LEMMA QuietFlowsMap ==
  ASSUME Consistent,
         \/ \E intent \in Intents : StartFlow(intent)
         \/ ArchiveFails
         \/ \E late \in BOOLEAN : DropFlow(late)
         \/ AnswerGet
         \/ UNCHANGED vars
  PROVE  [Shared!Next]_(Shared!vars)
<1>1. UNCHANGED <<core, session, lease, agreed, cloud, approved>> /\ [Next]_vars
  BY DEF StartFlow, ArchiveFails, DropFlow, AnswerGet, Next, Flows, Server, vars
<1>2. flow.phase = "upload" => flow'.phase # "put"
  <2>1. flow.phase # "upload" \/ flow' = flow \/ flow' = Idle
    BY DEF StartFlow, ArchiveFails, DropFlow, EndFlow, AnswerGet, vars
  <2>2. QED
    BY <2>1 DEF Idle
<1>3. queue' \subseteq queue
  BY DEF StartFlow, Takes, ArchiveFails, DropFlow, AnswerGet, vars
<1>4. QED
  BY <1>1, <1>2, <1>3, FadeMaps DEF User

\* The server accepts what was offered under its newest version, or refuses.
LEMMA ServerMaps ==
  ASSUME Consistent,
         \/ AnswerPut
         \/ \E m \in wire : LatePut(m)
         \/ \E a \in Accounts, items \in SUBSET Items : RemoteWrite(a, items)
  PROVE  [Shared!Next]_(Shared!vars)
<1>1. UNCHANGED <<core, session, lease, queue, agreed>> /\ [Next]_vars
  BY DEF AnswerPut, LatePut, RemoteWrite, Next, Server
<1>2. flow'.phase = flow.phase
  BY DEF AnswerPut, Answer, LatePut, RemoteWrite, TypeOK, FlowStates
<1>3. Shared!Fading
  <2>1. flow.phase = "upload" => flow'.phase # "put"
    BY <1>2
  <2>2. QED
    BY <1>1, <2>1, OffersFade, WishesFade DEF Shared!Fading
<1>4. ASSUME NEW m \in Outstanding, Apply(m)
      PROVE  [Shared!Next]_(Shared!vars)
  <2>1. CASE m.base = Version(m.acct)
    <3>1. Shared!Accept(m)
      BY <1>1, <1>3, <1>4, <2>1
         DEF Apply, Write, Version, Shared!Accept, Shared!Newest, Shared!device, User
    <3>2. QED
      BY <3>1 DEF Shared!Next
  <2>2. CASE m.base # Version(m.acct)
    <3>1. Shared!Fade
      BY <1>1, <1>3, <1>4, <2>2 DEF Apply, Shared!Fade, Shared!device, User
    <3>2. QED
      BY <3>1 DEF Shared!Next
  <2>3. QED
    BY <2>1, <2>2
<1>5. CASE AnswerPut
  BY <1>4, <1>5 DEF AnswerPut, Outstanding
<1>6. CASE \E m \in wire : LatePut(m)
  BY <1>4, <1>6 DEF LatePut, Outstanding
<1>7. CASE \E a \in Accounts, items \in SUBSET Items : RemoteWrite(a, items)
  <2>1. PICK a \in Accounts, items \in SUBSET Items : RemoteWrite(a, items)
    BY <1>7
  <2>2. Shared!Elsewhere(a, items)
    BY <1>1, <1>3, <2>1 DEF RemoteWrite, Write, OwnItems, Version, Snapshot, User,
       Shared!Elsewhere, Shared!Newest, Shared!Held, Shared!device
  <2>3. QED
    BY <2>2 DEF Shared!Next
<1>8. QED
  BY <1>5, <1>6, <1>7

\* The contract begins with an installation or an import.
LEMMA InitMaps == Init => Shared!Init
<1> SUFFICES ASSUME Init PROVE Shared!Init
  OBVIOUS
<1>1. Outstanding = {} /\ ~Wished /\ User = None
  BY DEF Init, Idle, Outstanding, Unanswered, Wished, User
<1>2. /\ core.items \subseteq OwnItems(None) /\ core.dirty = (core.items # {})
      /\ core.owner = None /\ core.known = None /\ core.pending = None
  BY DEF Init
<1>3. QED
  BY <1>1, <1>2 DEF Init, OwnItems, Shared!Init, Shared!Permitted

\* Every step is one of the contract or none.
LEMMA StepMaps ==
  Consistent /\ Watched /\ Owned /\ Unclaimed /\ [Next]_vars => [Shared!Next]_(Shared!vars)
<1> SUFFICES ASSUME Consistent, Watched, Owned, Unclaimed, [Next]_vars
             PROVE  [Shared!Next]_(Shared!vars)
  OBVIOUS
<1>1. CASE Local
  BY <1>1, EditMaps, RequestsMap, ChoicesMap DEF Local
<1>2. CASE Sessions
  BY <1>2, SessionsMap
<1>3. CASE Flows
  BY <1>3, QuietFlowsMap, ArbitrateMaps, UploadMaps, AcknowledgeMaps, ConflictsMap DEF Flows
<1>4. CASE Server
  BY <1>4, QuietFlowsMap, ServerMaps DEF Server
<1>5. CASE UNCHANGED vars
  BY <1>5, QuietFlowsMap
<1>6. QED
  BY <1>1, <1>2, <1>3, <1>4, <1>5 DEF Next

\* KeepsContract: whatever requests, answers, choices, restarts and hand-overs do,
\* edits leave the device only by an upload of just them, a choice or a Restore, in
\* the name of the account logged in, over snapshots that the device knows.
THEOREM ContractKept == Spec => KeepsContract
<1>1. Spec => []Owned
  BY InitOwned, NextOwned, Invariance, PTL DEF Spec
<1>2. Spec => []Unclaimed
  BY InitUnclaimed, NextUnclaimed, Invariance, Watching, PTL DEF Spec
<1>3. QED
  BY <1>1, <1>2, InitMaps, StepMaps, Invariance, Watching, PTL
     DEF Spec, KeepsContract, Shared!Spec

-----------------------------------------------------------------------------
(* Saves that do not fail *)

\* "syncing" is shown for a flow that counts; one that is about to upload then has
\* nothing that would stop it.
Running ==
  /\ ~saveFailed
  /\ view = "syncing" =>
       /\ Live
       /\ flow.phase = "upload" => ~Unconfirmed /\ core.known # None

\* refresh_view never says "syncing".
LEMMA NeverDerived == \A c, failed, s : Derived(c, failed, s) # "syncing"
BY DEF Derived

\* As long as no save fails, every step that ends a flow shows something else.
LEMMA NextRunning == Consistent /\ Running /\ [NoFailedSave]_vars => Running'
<1> SUFFICES ASSUME Consistent, Running, [NoFailedSave]_vars PROVE Running'
  OBVIOUS
<1>1. ~saveFailed'
  BY DEF NoFailedSave, Running, vars
<1> SUFFICES ASSUME view' = "syncing"
             PROVE  Live' /\ (flow'.phase = "upload" => ~Unconfirmed' /\ core'.known # None)
  BY <1>1 DEF Running
<1>2. CASE \E intent \in Intents : StartFlow(intent)
  <2>1. PICK intent \in Intents : StartFlow(intent)
    BY <1>2
  <2>2. view # "syncing"
    BY <2>1 DEF StartFlow, Running, FlowOK, Live
  <2>3. /\ flow' = [Idle EXCEPT !.phase = IF GetFirst(intent) THEN "get" ELSE "upload",
                                  !.intent = intent, !.acct = session, !.ctx = "live"]
        /\ core' = core
    BY <2>1, <2>2, NeverDerived DEF StartFlow
  <2>4. flow'.ctx = "live" /\ flow'.acct = session
        /\ (flow'.phase = "upload" => ~GetFirst(intent))
    BY <2>3 DEF Idle
  <2>5. CASE flow'.phase = "upload"
    <3>1. core.owner = session /\ core.known # None /\ core.pending = None /\ core.uncertain = "none"
      BY <2>4, <2>5 DEF GetFirst
    <3>2. QED
      BY <2>3, <2>4, <3>1 DEF Unconfirmed, Live
  <2>6. QED
    BY <2>4, <2>5 DEF Live
<1>3. CASE \E ok \in BOOLEAN : Upload(ok)
  <2>1. PICK ok \in BOOLEAN : Upload(ok)
    BY <1>3
  <2>2. flow.phase = "upload" /\ Live /\ ~saveFailed
    BY <2>1 DEF Upload, Running
  <2>3. flow'.phase = "put" /\ flow'.ctx = flow.ctx
    BY <2>1, <2>2, NeverDerived DEF Upload, Running, TypeOK, FlowStates
  <2>4. QED
    BY <2>2, <2>3 DEF Live
<1>4. CASE \/ \E on \in BOOLEAN : SetAutomatic(on)
           \/ Flush \/ RestoreFromCloud \/ RetryTick \/ UNCHANGED vars
  BY <1>4 DEF SetAutomatic, Flush, RestoreFromCloud, RetryTick, vars, Running, Live, Unconfirmed
<1>5. CASE AuthRejected
  <2>1. flow'.phase = "lost" /\ flow'.ctx = flow.ctx /\ view' = view
    BY <1>5 DEF AuthRejected, TypeOK, FlowStates
  <2>2. QED
    BY <2>1 DEF Running, Live
<1>6. CASE Server
  <2>1. /\ flow'.phase = flow.phase /\ flow'.ctx = flow.ctx /\ flow'.acct = flow.acct
        /\ core' = core /\ view' = view
    BY <1>6 DEF Server, AnswerGet, AnswerPut, Answer, LatePut, RemoteWrite, TypeOK, FlowStates
  <2>2. QED
    BY <2>1 DEF Running, Live, Unconfirmed
<1>7. CASE \E late \in BOOLEAN : DropFlow(late)
  BY <1>7 DEF DropFlow, Running, Live
<1>8. CASE \E new \in SUBSET Items, ok \in BOOLEAN : Edit(new, ok)
  <2>1. PICK new \in SUBSET Items, ok \in BOOLEAN : Edit(new, ok)
    BY <1>8
  <2>2. ok
    BY <1>1, <2>1 DEF Edit, Commit
  <2>3. view' = Derived(core', FALSE, session)
    BY <2>1, <2>2 DEF Edit
  <2>4. QED
    BY <2>3, NeverDerived
<1>9. CASE \/ \E ok \in BOOLEAN : Arbitrate(ok) \/ StoreCandidate(ok) \/ MarkNeedsCandidate(ok)
           \/ ArchiveFails
           \/ \E ok, late \in BOOLEAN : RequestFails(ok, late)
  BY <1>9, NeverDerived
     DEF Arbitrate, StoreCandidate, MarkNeedsCandidate, ArchiveFails, RequestFails, FailedView
<1>10. CASE \E ok \in BOOLEAN : ChooseLocal(ok) \/ ChooseCloud(ok)
  <2>1. PICK ok \in BOOLEAN : ChooseLocal(ok) \/ ChooseCloud(ok)
    BY <1>10
  <2>2. ok
    BY <1>1, <2>1 DEF ChooseLocal, ChooseCloud, Commit
  <2>3. view' = Derived(core', FALSE, session)
    BY <2>1, <2>2 DEF ChooseLocal, ChooseCloud, AfterChoice
  <2>4. QED
    BY <2>3, NeverDerived
<1>11. CASE (\E a \in Accounts : Login(a)) \/ Logout \/ LoseSession \/ DeferConflict
  BY <1>11, NeverDerived DEF Login, Logout, LoseSession, EndSession, DeferConflict
<1>12. CASE \E keep, late \in BOOLEAN : Restart(keep, late)
  BY <1>12, NeverDerived DEF Restart
<1>13. CASE \E ok \in BOOLEAN : Acknowledge(ok)
  \* The marker is there (UploadIsMarked), so the reply is committed and shown.
  BY <1>13, NeverDerived DEF Acknowledge, UploadIsMarked, Live
<1>14. CASE \E ok \in BOOLEAN : MarkNotified(ok) \/ SaveNow(ok)
  <2>1. /\ flow'.phase = flow.phase /\ flow'.ctx = flow.ctx /\ flow'.acct = flow.acct
        /\ core' = core /\ view' = view
    BY <1>14 DEF MarkNotified, SaveNow, Commit, TypeOK, FlowStates
  <2>2. QED
    BY <2>1 DEF Running, Live, Unconfirmed
<1>15. QED
  BY <1>2, <1>3, <1>4, <1>5, <1>6, <1>7, <1>8, <1>9, <1>10, <1>11, <1>12, <1>13, <1>14
     DEF NoFailedSave, Next, Local, Sessions, Flows

\* As long as no save fails, "syncing" is shown only while a flow is running.
THEOREM SyncingRuns == NoFailedSaveSpec => []SyncingIsRunning
<1>1. Init => Running
  BY DEF Init, Running
<1>2. Consistent /\ Running => SyncingIsRunning
  BY DEF Running, SyncingIsRunning, FlowOK, Live
<1>3. Consistent /\ [NoFailedSave]_vars => Consistent'
  BY NextConsistent DEF NoFailedSave
<1>4. QED
  BY <1>1, <1>2, <1>3, InitConsistent, NextRunning, PTL DEF NoFailedSaveSpec

-----------------------------------------------------------------------------
(* Nobody waits for nothing *)

\* A flow about to upload has nothing of its own account in its way.
UploadIsFree ==
  Live /\ flow.phase = "upload" =>
    /\ core.owner = flow.acct /\ core.known # None /\ core.uncertain = "none"
    /\ ~PendingFor(core, flow.acct) /\ flow.intent # "Restore"

\* Edits that overtook a PUT have asked for another flow.
OvertakenAsked ==
  Live /\ flow.phase = "put" /\ core.uncertain = "outdated" /\ Active /\ auto =>
    queue # {} \/ waiter # None

Awaited == ~saveFailed /\ EditsAreScheduled /\ UploadIsFree /\ OvertakenAsked

\* An edit asks for a flow, unless there is a reason not to.
LEMMA EditAwaited ==
  ASSUME Consistent, Awaited, NEW new \in SUBSET Items, Edit(new, TRUE)
  PROVE  Awaited'
<1>1. /\ core' = Edited(new) /\ ~saveFailed' /\ core'.dirty
      /\ UNCHANGED <<session, lease, auto, queue, retry>>
      /\ waiter' = IF Schedulable(core', FALSE, auto) THEN "Automatic" ELSE None
  BY DEF Edit, Commit, Edited, TypeOK, Cores
<1>2. flow'.phase = flow.phase /\ flow'.ctx = flow.ctx /\ flow'.acct = flow.acct
      /\ flow'.intent = flow.intent
  BY DEF Edit, TypeOK, FlowStates
<1>3. auto /\ ~ReadyConflict(core', session) => waiter' # None
  BY <1>1, NoneAssumption DEF Schedulable, Intents
<1>4. EditsAreScheduled'
  BY <1>1, <1>3 DEF EditsAreScheduled, Scheduled, ReadyConflict, PendingFor
<1>5. UploadIsFree'
  <2>1. Live /\ flow.phase = "upload" => core.owner = session
    BY DEF Awaited, UploadIsFree, FlowOK, Live
  <2>2. core.owner = session => core'.owner = core.owner /\ core'.known = core.known
    BY <1>1 DEF Edited, Claims, TypeOK, Cores
  <2>3. core'.pending = core.pending /\ (core.uncertain = "none" => core'.uncertain = "none")
    BY <1>1 DEF Edited, TypeOK, Cores
  <2>4. QED
    BY <1>2, <2>1, <2>2, <2>3 DEF Awaited, UploadIsFree, Live, PendingFor
<1>6. OvertakenAsked'
  <2>1. Live /\ flow.phase = "put" => core'.pending = None
    BY <1>1 DEF UploadIsMarked, Edited, TypeOK, Cores
  <2>2. QED
    BY <1>1, <1>2, <1>3, <2>1 DEF OvertakenAsked, Live, ReadyConflict, PendingFor
<1>7. QED
  BY <1>1, <1>4, <1>5, <1>6 DEF Awaited

\* What leaves the store, the session and the flow's phase alone, and asks for a
\* flow or keeps what was asked, changes nothing.
LEMMA AskedStays ==
  ASSUME Awaited, ~saveFailed', UNCHANGED <<core, session, lease, auto>>,
         flow'.ctx = flow.ctx, flow'.phase = flow.phase, flow'.acct = flow.acct,
         flow'.intent = flow.intent,
         waiter' # None \/ queue' # {} \/ UNCHANGED <<waiter, queue, retry>>
  PROVE  Awaited'
<1>1. EditsAreScheduled'
  BY DEF Awaited, EditsAreScheduled, Scheduled, Live, Active, ReadyConflict, PendingFor
<1>2. UploadIsFree'
  BY DEF Awaited, UploadIsFree, Live, PendingFor
<1>3. OvertakenAsked'
  BY DEF Awaited, OvertakenAsked, Live, Active
<1>4. QED
  BY <1>1, <1>2, <1>3 DEF Awaited

\* Requests, reminders and saves.
LEMMA RequestsAwaited ==
  ASSUME Consistent, Awaited, ~saveFailed',
         \/ \E ok \in BOOLEAN : MarkNotified(ok) \/ SaveNow(ok)
         \/ Flush \/ RestoreFromCloud \/ RetryTick \/ DeferConflict
  PROVE  Awaited'
<1>1. UNCHANGED <<core, session, lease, auto>>
  BY DEF MarkNotified, SaveNow, Commit, Flush, RestoreFromCloud, RetryTick, DeferConflict
<1>2. flow'.ctx = flow.ctx /\ flow'.phase = flow.phase /\ flow'.acct = flow.acct
      /\ flow'.intent = flow.intent
  BY DEF MarkNotified, SaveNow, Flush, RestoreFromCloud, RetryTick, DeferConflict,
     TypeOK, FlowStates
<1>3. waiter' # None \/ queue' # {} \/ UNCHANGED <<waiter, queue, retry>>
  BY DEF MarkNotified, SaveNow, Flush, RestoreFromCloud, RetryTick, DeferConflict
<1>4. QED
  BY <1>1, <1>2, <1>3, AskedStays

\* Switching automatic sync on asks for a flow.
LEMMA SwitchAwaited ==
  ASSUME Consistent, Awaited, NEW on \in BOOLEAN, SetAutomatic(on)
  PROVE  Awaited'
<1>1. /\ UNCHANGED <<core, saveFailed, session, lease, flow, queue, retry>> /\ auto' = on
      /\ on /\ Active /\ Schedulable(core, saveFailed, on) => waiter' # None
  BY NoneAssumption DEF SetAutomatic, Intents
<1>2. on /\ Active /\ core.dirty /\ ~ReadyConflict(core, session) => waiter' # None
  BY <1>1 DEF Schedulable, Awaited
<1>3. EditsAreScheduled'
  BY <1>1, <1>2 DEF EditsAreScheduled, Scheduled, Active, ReadyConflict, PendingFor
<1>4. UploadIsFree'
  BY <1>1 DEF Awaited, UploadIsFree, Live, PendingFor
<1>5. OvertakenAsked'
  BY <1>1, <1>2 DEF OvertakenAsked, UploadIsMarked, Live, Active, ReadyConflict, PendingFor
<1>6. QED
  BY <1>1, <1>3, <1>4, <1>5 DEF Awaited

\* A choice either leaves no edits or asks for their upload; it ends the flow.
LEMMA ChoiceAwaited ==
  ASSUME Consistent, Awaited, ChooseLocal(TRUE) \/ ChooseCloud(TRUE)
  PROVE  Awaited'
<1>1. flow'.ctx # "live" /\ ~saveFailed'
  BY DEF ChooseLocal, ChooseCloud, AfterChoice, Commit, TypeOK, FlowStates
<1>2. ChooseLocal(TRUE) => queue' # {}
  BY DEF ChooseLocal, AfterChoice
<1>3. ChooseCloud(TRUE) => ~core'.dirty
  BY DEF ChooseCloud, Commit, Resolved, TypeOK, Cores
<1>4. QED
  BY <1>1, <1>2, <1>3 DEF Awaited, EditsAreScheduled, Scheduled, UploadIsFree, OvertakenAsked, Live

\* A session begins with a flow; one that ends waits for the next.
LEMMA SessionsAwaited == Consistent /\ Awaited /\ Sessions => Awaited'
<1> SUFFICES ASSUME Consistent, Awaited, Sessions PROVE Awaited'
  OBVIOUS
<1>1. ~saveFailed'
  BY DEF Sessions, Login, Logout, AuthRejected, LoseSession, Restart, EndSession, Awaited
<1>2. Active' => queue' # {}
  BY DEF Sessions, Login, Logout, AuthRejected, LoseSession, Restart, EndSession, Active, TypeOK
<1>3. Live' => flow'.phase = "lost"
  <2>1. ASSUME NEW a \in Accounts, Login(a) PROVE ~Live'
    BY <2>1, NoneAssumption DEF Login, Live, FlowOK
  <2>2. Logout => ~Live'
    BY DEF Logout, Live, TypeOK, FlowStates
  <2>3. AuthRejected => flow'.phase = "lost"
    BY DEF AuthRejected, TypeOK, FlowStates
  <2>4. LoseSession \/ (\E keep, late \in BOOLEAN : Restart(keep, late)) => ~Live'
    <3>1. flow' = Idle => ~Live'
      BY DEF Idle, Live
    <3>2. QED
      BY <3>1 DEF LoseSession, Restart
  <2>5. QED
    BY <2>1, <2>2, <2>3, <2>4 DEF Sessions
<1>4. QED
  BY <1>1, <1>2, <1>3 DEF Awaited, EditsAreScheduled, Scheduled, UploadIsFree, OvertakenAsked

\* A flow starts, or there was a reason for it not to.
LEMMA StartAwaited ==
  ASSUME Consistent, Awaited, NEW intent \in Intents, StartFlow(intent)
  PROVE  Awaited'
<1>1. /\ UNCHANGED <<core, saveFailed, auto, session, lease>>
      /\ flow.phase = "idle" /\ Active
  BY DEF StartFlow
<1>2. CASE Refused(intent)
  <2>1. ~auto /\ UNCHANGED flow
    BY <1>2 DEF StartFlow, Refused, Awaited
  <2>2. QED
    BY <1>1, <2>1 DEF Awaited, EditsAreScheduled, UploadIsFree, OvertakenAsked, Live
<1>3. CASE ~Refused(intent) /\ Blocked(intent)
  <2>1. UNCHANGED flow /\ ReadyConflict(core, session)
    BY <1>3 DEF StartFlow, Blocked
  <2>2. QED
    BY <1>1, <2>1 DEF Awaited, EditsAreScheduled, UploadIsFree, OvertakenAsked, Live,
       ReadyConflict, PendingFor
<1>4. CASE ~Refused(intent) /\ ~Blocked(intent)
  <2>1. flow' = [Idle EXCEPT !.phase = IF GetFirst(intent) THEN "get" ELSE "upload",
                             !.intent = intent, !.acct = session, !.ctx = "live"]
    BY <1>4 DEF StartFlow
  <2>2. flow'.ctx = "live" /\ flow'.acct = session /\ flow'.intent = intent
        /\ flow'.phase = IF GetFirst(intent) THEN "get" ELSE "upload"
    BY <2>1 DEF Idle
  <2>3. QED
    BY <1>1, <2>2 DEF Awaited, EditsAreScheduled, Scheduled, UploadIsFree, OvertakenAsked, Live,
       GetFirst, PendingFor
<1>5. QED
  BY <1>2, <1>3, <1>4

\* What a flow leaves behind when it ends with an upload refused or done, a
\* conflict, or a retry.
LEMMA EndAwaited ==
  ASSUME ~saveFailed', flow' = Idle, EditsAreScheduled'
  PROVE  Awaited'
BY DEF Awaited, UploadIsFree, OvertakenAsked, Live, Idle

\* A GET decides for an upload, for the cloud, that all is well, or a conflict.
LEMMA ArbitrateAwaited ==
  ASSUME Consistent, Awaited, Arbitrate(TRUE)
  PROVE  Awaited'
<1> DEFINE v == flow.reply.version
           d == Decision(v)
<1>1. /\ core' = Arbitrated(d, v) /\ ~saveFailed' /\ UNCHANGED <<session, lease, auto>>
      /\ flow.phase = "get" /\ Live /\ session = flow.acct /\ v \in Nat
  BY DEF Arbitrate, Commit, FlowOK, Live, TypeOK, FlowStates, Replies
<1>2. d \in {"Conflict", "Restore", "Mark", "Upload"}
  BY DEF Decision, RestoreDecision, NoBase, OnBase
<1>3. CASE d = "Upload"
  <2>1. flow' = [flow EXCEPT !.phase = "upload", !.reply = None, !.same = TRUE]
    BY <1>3 DEF Arbitrate
  <2>2. flow'.ctx = "live" /\ flow'.acct = flow.acct /\ flow'.intent = flow.intent
        /\ flow'.phase = "upload"
    BY <1>1, <2>1 DEF Live, TypeOK, FlowStates
  <2>3. core.owner = flow.acct /\ ~PendingFor(core, flow.acct) /\ flow.intent # "Restore"
    BY <1>3 DEF Decision, RestoreDecision, Stranger, Disputed
  <2>4. /\ core'.owner = core.owner /\ core'.pending = core.pending
        /\ core'.known = v /\ core'.uncertain = "none"
    BY <1>1, <1>3 DEF Arbitrated, TypeOK, Cores
  <2>5. v # None
    BY <1>1, NoneAssumption
  <2>6. QED
    BY <1>1, <2>2, <2>3, <2>4, <2>5 DEF Awaited, EditsAreScheduled, Scheduled, UploadIsFree,
       OvertakenAsked, Live, PendingFor
<1>4. CASE d = "Conflict"
  <2>1. flow' = Idle /\ core'.pending = [owner |-> flow.acct, cloud |-> v]
    BY <1>1, <1>4 DEF Arbitrate, EndFlow, Arbitrated, PendingWith, TypeOK, Cores
  <2>2. core'.pending # None /\ v # None
    <3>1. [owner |-> flow.acct, cloud |-> v] \in Pendings
      BY <1>1 DEF Pendings, FlowOK, Live, TypeOK, FlowStates
    <3>2. QED
      BY <1>1, <2>1, <3>1, NoneAssumption
  <2>3. ReadyConflict(core', session')
    BY <1>1, <2>1, <2>2 DEF ReadyConflict, PendingFor
  <2>4. QED
    BY <1>1, <2>1, <2>3, EndAwaited DEF EditsAreScheduled, ReadyConflict, PendingFor
<1>5. CASE d = "Restore" \/ d = "Mark"
  <2>1. flow' = Idle
    BY <1>5 DEF Arbitrate, EndFlow
  <2>2. d = "Mark" => ~core.dirty
    BY DEF Decision, RestoreDecision, NoBase, OnBase
  <2>3. ~core'.dirty
    BY <1>1, <1>5, <2>2 DEF Arbitrated, TypeOK, Cores
  <2>4. QED
    BY <1>1, <2>1, <2>3, EndAwaited DEF EditsAreScheduled
<1>6. QED
  BY <1>2, <1>3, <1>4, <1>5

\* An upload ends without its PUT only if there is nothing to upload, automatic
\* sync is off, or another account has a conflict.
LEMMA UploadAwaited ==
  ASSUME Consistent, Awaited, NEW ok \in BOOLEAN, Upload(ok), ~saveFailed'
  PROVE  Awaited'
<1>1. /\ flow.phase = "upload" /\ Live /\ session = flow.acct
      /\ UNCHANGED <<session, lease, auto, queue, waiter, retry>>
  BY DEF Upload, FlowOK, Live
<1>2. /\ core.owner = flow.acct /\ core.known # None /\ core.uncertain = "none"
      /\ ~PendingFor(core, flow.acct) /\ flow.intent # "Restore" /\ ~saveFailed
  BY <1>1 DEF Awaited, UploadIsFree
<1>3. CASE Unconfirmed
  <2>1. core.pending # None /\ core.pending.owner # session
    BY <1>1, <1>2, <1>3 DEF Unconfirmed, PendingFor
  <2>2. flow' = Idle /\ UNCHANGED core
    BY <1>3 DEF Upload, EndFlow
  <2>3. QED
    BY <1>1, <2>1, <2>2, EndAwaited DEF EditsAreScheduled
<1>4. CASE ~Unconfirmed /\ (~CanUpload \/ ~core.dirty)
  <2>1. flow' = Idle /\ UNCHANGED core
    BY <1>2, <1>4 DEF Upload, EndFlow
  <2>2. ~auto \/ ~core.dirty
    BY <1>2, <1>4 DEF CanUpload
  <2>3. QED
    BY <1>1, <2>1, <2>2, EndAwaited DEF EditsAreScheduled
<1>5. CASE ~Unconfirmed /\ CanUpload /\ core.dirty
  <2>1. /\ Commit([core EXCEPT !.uncertain = "exact"], ok)
        /\ ok => flow' = [flow EXCEPT !.phase = "put", !.base = core.known, !.items = core.items]
    BY <1>2, <1>5 DEF Upload
  <2>2. ok
    BY <2>1 DEF Commit
  <2>3. flow'.ctx = "live" /\ flow'.phase = "put" /\ core'.uncertain = "exact"
    BY <1>1, <2>1, <2>2 DEF Commit, Live, TypeOK, Cores, FlowStates
  <2>4. QED
    BY <2>3 DEF Awaited, EditsAreScheduled, Scheduled, UploadIsFree, OvertakenAsked, Live
<1>6. QED
  BY <1>3, <1>4, <1>5

\* What an answer to a PUT leaves dirty has asked for the next flow, or is a conflict.
LEMMA AnswersAwaited ==
  ASSUME Consistent, Awaited, ~saveFailed',
         NEW ok \in BOOLEAN, Acknowledge(ok) \/ MarkNeedsCandidate(ok) \/ StoreCandidate(ok)
  PROVE  Awaited'
<1>1. /\ Live /\ session = flow.acct /\ flow.acct \in Accounts
      /\ UNCHANGED <<session, lease, auto, queue, waiter>>
  BY DEF Acknowledge, MarkNeedsCandidate, StoreCandidate, FlowOK, Live, TypeOK, FlowStates
<1>2. CASE Acknowledge(ok)
  <2>1. /\ flow' = Idle
        /\ Commit([core EXCEPT !.known = flow.reply.version, !.uncertain = "none",
                               !.dirty = @ /\ core.uncertain = "outdated"], ok)
    BY <1>1, <1>2 DEF Acknowledge, EndFlow, UploadIsMarked
  <2>2. ok
    BY <2>1 DEF Commit
  <2>3. core'.dirty => core.uncertain = "outdated"
    BY <2>1, <2>2 DEF Commit, TypeOK, Cores
  <2>4. core'.dirty /\ Active /\ auto => queue # {} \/ waiter # None
    BY <1>1, <1>2, <2>3 DEF Acknowledge, Awaited, OvertakenAsked
  <2>5. QED
    BY <1>1, <2>1, <2>4, EndAwaited DEF EditsAreScheduled, Scheduled, Active
<1>3. CASE MarkNeedsCandidate(ok)
  <2>1. Commit(Blind, ok) /\ (ok => flow' = [flow EXCEPT !.phase = "fetch", !.reply = None])
    BY <1>3 DEF MarkNeedsCandidate
  <2>2. flow'.ctx = "live" /\ flow'.phase = "fetch"
    BY <1>1, <2>1 DEF Commit, Live, TypeOK, FlowStates
  <2>3. QED
    BY <2>2 DEF Awaited, EditsAreScheduled, Scheduled, UploadIsFree, OvertakenAsked, Live
<1>4. CASE StoreCandidate(ok)
  <2>1. Commit(PendingWith(flow.reply.version), ok) /\ flow' = Idle
        /\ flow.reply.version \in Nat
    BY <1>4 DEF StoreCandidate, EndFlow, TypeOK, FlowStates, Replies
  <2>2. core'.pending = [owner |-> flow.acct, cloud |-> flow.reply.version]
    BY <2>1 DEF Commit, PendingWith, TypeOK, Cores
  <2>3. core'.pending # None /\ flow.reply.version # None
    BY <1>1, <2>1, <2>2, NoneAssumption DEF Pendings
  <2>4. QED
    BY <1>1, <2>1, <2>2, <2>3, EndAwaited DEF EditsAreScheduled, ReadyConflict, PendingFor
<1>5. QED
  BY <1>2, <1>3, <1>4

\* A flow that fails asks for a retry; one that nobody waits for leaves no gap.
LEMMA FailuresAwaited ==
  ASSUME Consistent, Awaited, ~saveFailed',
         \/ ArchiveFails
         \/ \E ok, late \in BOOLEAN : RequestFails(ok, late)
         \/ \E late \in BOOLEAN : DropFlow(late)
  PROVE  Awaited'
<1>1. flow' = Idle /\ UNCHANGED <<session, lease, auto, queue, waiter>>
  BY DEF ArchiveFails, RequestFails, DropFlow, EndFlow
<1>2. CASE ArchiveFails
  <2>1. core.owner # session /\ UNCHANGED core
    BY <1>2 DEF ArchiveFails, Foreign, FlowOK, Live
  <2>2. QED
    BY <1>1, <2>1, EndAwaited DEF EditsAreScheduled
<1>3. CASE \E ok, late \in BOOLEAN : RequestFails(ok, late)
  <2>1. retry' # None
    BY <1>3, NoneAssumption DEF RequestFails, RetryAction, Intents
  <2>2. QED
    BY <1>1, <2>1, EndAwaited DEF EditsAreScheduled, Scheduled
<1>4. CASE \E late \in BOOLEAN : DropFlow(late)
  <2>1. ~Live /\ UNCHANGED <<core, retry>>
    BY <1>4 DEF DropFlow, Live
  <2>2. QED
    BY <1>1, <2>1, EndAwaited DEF Awaited, EditsAreScheduled, Scheduled, Active, ReadyConflict,
       PendingFor
<1>5. QED
  BY <1>2, <1>3, <1>4

\* The server only answers.
LEMMA ServerAwaited == Consistent /\ Awaited /\ (Server \/ UNCHANGED vars) => Awaited'
<1> SUFFICES ASSUME Consistent, Awaited, Server \/ UNCHANGED vars PROVE Awaited'
  OBVIOUS
<1>1. UNCHANGED <<core, session, lease, auto, waiter, queue, retry, saveFailed>>
  BY DEF Server, AnswerGet, AnswerPut, LatePut, RemoteWrite, vars
<1>2. flow'.ctx = flow.ctx /\ flow'.phase = flow.phase /\ flow'.acct = flow.acct
      /\ flow'.intent = flow.intent
  BY DEF Server, AnswerGet, AnswerPut, Answer, LatePut, RemoteWrite, vars, TypeOK, FlowStates
<1>3. QED
  BY <1>1, <1>2, AskedStays DEF Awaited

\* No step but a failed save leaves edits without a flow.
LEMMA NextAwaited == Consistent /\ Awaited /\ [NoFailedSave]_vars => Awaited'
<1> SUFFICES ASSUME Consistent, Awaited, [NoFailedSave]_vars PROVE Awaited'
  OBVIOUS
<1>1. ~saveFailed'
  BY DEF NoFailedSave, Awaited, vars
<1>2. CASE Local
  <2>1. CASE \E new \in SUBSET Items, ok \in BOOLEAN : Edit(new, ok)
    <3>1. PICK new \in SUBSET Items, ok \in BOOLEAN : Edit(new, ok)
      BY <2>1
    <3>2. ok
      BY <1>1, <3>1 DEF Edit, Commit
    <3>3. QED
      BY <3>1, <3>2, EditAwaited
  <2>2. CASE \E on \in BOOLEAN : SetAutomatic(on)
    BY <2>2, SwitchAwaited
  <2>3. CASE \E ok \in BOOLEAN : ChooseLocal(ok) \/ ChooseCloud(ok)
    <3>1. ChooseLocal(TRUE) \/ ChooseCloud(TRUE)
      BY <1>1, <2>3 DEF ChooseLocal, ChooseCloud, Commit
    <3>2. QED
      BY <3>1, ChoiceAwaited
  <2>4. QED
    BY <1>1, <1>2, <2>1, <2>2, <2>3, RequestsAwaited DEF Local
<1>3. CASE Sessions
  BY <1>3, SessionsAwaited
<1>4. CASE Flows
  <2>1. CASE \E ok \in BOOLEAN : Arbitrate(ok)
    <3>1. Arbitrate(TRUE)
      BY <1>1, <2>1 DEF Arbitrate, Commit
    <3>2. QED
      BY <3>1, ArbitrateAwaited
  <2>2. QED
    BY <1>1, <1>4, <2>1, StartAwaited, UploadAwaited, AnswersAwaited, FailuresAwaited DEF Flows
<1>5. CASE Server \/ UNCHANGED vars
  BY <1>5, ServerAwaited
<1>6. QED
  BY <1>2, <1>3, <1>4, <1>5 DEF NoFailedSave, Next

\* As long as no save fails, edits of the account logged in are never left without a
\* flow, a debounce or a retry that will take them, whatever requests, choices,
\* switches, crashes and hand-overs did before.
THEOREM EditsScheduled == NoFailedSaveSpec => []EditsAreScheduled
<1>1. Init => Awaited
  BY DEF Init, Awaited, EditsAreScheduled, UploadIsFree, OvertakenAsked, Active, Live, Idle
<1>2. [NoFailedSave]_vars => [Next]_vars
  BY DEF NoFailedSave
<1>3. Awaited => EditsAreScheduled
  BY DEF Awaited
<1>4. QED
  BY <1>1, <1>2, <1>3, InitConsistent, NextConsistent, NextAwaited, PTL DEF NoFailedSaveSpec

=============================================================================
