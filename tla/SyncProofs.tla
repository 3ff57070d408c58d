---------------------------- MODULE SyncProofs ----------------------------
(***************************************************************************)
(* Proof that Consistent is an inductive invariant of Sync.                *)
(***************************************************************************)
EXTENDS Sync, TLAPS

USE DEF Consistent, serverVars, auxVars

\* What Consistent says of the committed data, the flow and the server depends
\* on these variables only.
LEMMA Frame ==
  ASSUME Consistent, TypeOK',
         UNCHANGED <<core, flow, cloud, wire, approved, session>>
  PROVE  Consistent'
BY DEF FlowOK, ReplyOK, BaselineOK, CleanMeansSynced, UploadIsMarked,
       PutsOK, MayReplace, Version, Snapshot, Idle, Live, Outstanding,
       Unanswered, Request

\* A version of the cloud is a set of tasks.
LEMMA SnapshotType ==
  ASSUME cloud \in [Accounts -> Seq(SUBSET Items)], NEW a \in Accounts,
         NEW v \in Nat, v <= Version(a)
  PROVE  Snapshot(a, v) \in SUBSET Items
BY DEF Snapshot, Version

\* Approving one version forgets no approval.
LEMMA ApproveMonotone ==
  ASSUME approved \subseteq Accounts, NEW a \in Accounts, NEW v, Approve(a, v)
  PROVE  /\ approved' \subseteq Accounts /\ approved \subseteq approved'
         /\ v = Version(a) => a \in approved'
BY DEF Approve

\* An edit makes the store dirty and outdates a request that is out.
LEMMA EditStep ==
  ASSUME Consistent, NEW new \in SUBSET Items, NEW ok \in BOOLEAN, Edit(new, ok)
  PROVE  Consistent'
<1>1. TypeOK'
  <2>1. core' \in Cores
    <3>1. Edited(new) \in Cores
      BY DEF TypeOK, Cores, Edit, Edited, Active
    <3>2. QED
      BY <3>1 DEF TypeOK, Edit, Commit
  <2>2. flow' \in FlowStates
    <3>1. (flow.same /\ flow.phase # "get") \in BOOLEAN
      OBVIOUS
    <3>2. flow' = flow \/ flow' = [flow EXCEPT !.same = (flow.same /\ flow.phase # "get")]
      BY DEF Edit
    <3>3. QED
      BY <3>1, <3>2 DEF TypeOK, FlowStates
  <2>3. faults' \in 0 .. MaxFaults
    BY BoundsAssumption DEF TypeOK, Edit, Spend
  <2>4. QED
    <3>1. saveFailed' \in BOOLEAN
      BY DEF Edit, Commit
    <3>2. view' \in Views
      BY DEF TypeOK, Edit, Derived, Views
    <3>3. recall' \subseteq Items /\ overtaken' \in {"none", "queued", "running"}
      BY DEF TypeOK, Cores, Edit, RestorePlace
    <3>4. QED
      BY <2>1, <2>2, <2>3, <3>1, <3>2, <3>3 DEF TypeOK, Edit, Active
<1>2. FlowOK'
  BY DEF TypeOK, FlowStates, Edit, FlowOK
<1>3. ReplyOK'
  BY ZenonT(60) DEF TypeOK, FlowStates, Edit, ReplyOK, MayReplace, Version, Snapshot
<1>4. BaselineOK'
  BY DEF TypeOK, Cores, Edit, Commit, Edited, Active, BaselineOK, MayReplace, Version, Snapshot
<1>5. CleanMeansSynced'
  BY DEF TypeOK, Cores, Edit, Commit, Edited, CleanMeansSynced, Version, Snapshot
<1>6. UploadIsMarked'
  BY DEF TypeOK, Cores, FlowStates, Edit, Commit, Edited, Claims, UploadIsMarked, Live
<1>7. PutsOK'
  BY ZenonT(60) DEF TypeOK, FlowStates, Edit, PutsOK, MayReplace, Version, Snapshot, Outstanding, Unanswered, Request
<1>8. QED
  BY <1>1, <1>2, <1>3, <1>4, <1>5, <1>6, <1>7

\* A reminder's commit changes no task and no baseline.
LEMMA MarkNotifiedStep ==
  ASSUME Consistent, NEW ok \in BOOLEAN, MarkNotified(ok)
  PROVE  Consistent'
<1>1. TypeOK'
  <2>1. flow' \in FlowStates
    <3>1. (flow.same /\ (ok => flow.phase # "get")) \in BOOLEAN
      OBVIOUS
    <3>2. QED
      BY <3>1 DEF TypeOK, FlowStates, MarkNotified
  <2>2. core' = core /\ saveFailed' \in BOOLEAN /\ faults' \in 0 .. MaxFaults
    BY BoundsAssumption DEF TypeOK, MarkNotified, Commit, Spend
  <2>3. QED
    BY <2>1, <2>2 DEF TypeOK, MarkNotified
<1>2. FlowOK'
  BY DEF TypeOK, Cores, FlowStates, MarkNotified, Commit, FlowOK
<1>3. ReplyOK'
  BY DEF TypeOK, Cores, FlowStates, MarkNotified, Commit, ReplyOK, MayReplace, Version, Snapshot
<1>4. BaselineOK'
  BY DEF TypeOK, Cores, FlowStates, MarkNotified, Commit, BaselineOK, MayReplace, Version, Snapshot
<1>5. CleanMeansSynced'
  BY DEF TypeOK, Cores, FlowStates, MarkNotified, Commit, CleanMeansSynced, Version, Snapshot
<1>6. UploadIsMarked'
  BY DEF TypeOK, Cores, FlowStates, MarkNotified, Commit, UploadIsMarked, Live
<1>7. PutsOK'
  BY DEF TypeOK, Cores, FlowStates, MarkNotified, Commit, PutsOK, MayReplace, Version, Snapshot, Outstanding, Unanswered, Request
<1>8. QED
  BY <1>1, <1>2, <1>3, <1>4, <1>5, <1>6, <1>7

\* Requests and settings leave the committed data and the flow alone.
LEMMA RequestStep ==
  ASSUME Consistent,
         \/ \E ok \in BOOLEAN : SaveNow(ok)
         \/ \E on \in BOOLEAN : SetAutomatic(on)
         \/ Flush \/ RestoreFromCloud \/ RetryTick \/ DeferConflict
  PROVE  Consistent'
<1>1. CASE \E ok \in BOOLEAN : SaveNow(ok)
  <2>1. core' = core /\ saveFailed' \in BOOLEAN /\ faults' \in 0 .. MaxFaults
    BY <1>1, BoundsAssumption DEF TypeOK, SaveNow, Commit, Spend
  <2>2. TypeOK'
    BY <1>1, <2>1 DEF TypeOK, SaveNow
  <2>3. QED
    BY <1>1, <2>1, <2>2, Frame DEF SaveNow
<1>2. CASE \E on \in BOOLEAN : SetAutomatic(on)
  <2>1. TypeOK'
    BY <1>2 DEF TypeOK, SetAutomatic, Active
  <2>2. QED
    BY <1>2, <2>1, Frame DEF SetAutomatic
<1>3. CASE Flush
  BY <1>3, Frame DEF TypeOK, Flush, Active, Intents
<1>4. CASE RestoreFromCloud
  BY <1>4, Frame DEF TypeOK, RestoreFromCloud, Active, Intents
<1>5. CASE RetryTick
  BY <1>5, Frame DEF TypeOK, RetryTick, Active
<1>6. CASE DeferConflict
  BY <1>6, Frame DEF TypeOK, DeferConflict, Derived, Views
<1>7. QED
  BY <1>1, <1>2, <1>3, <1>4, <1>5, <1>6

\* The flow keeps its request and its reply, and no approval is forgotten.
LEMMA FlowFrame ==
  ASSUME ReplyOK, PutsOK,
         UNCHANGED <<cloud, wire, flow.phase, flow.acct, flow.base, flow.items, flow.reply>>,
         flow.ctx = "none" => flow'.ctx = "none",
         approved \subseteq approved'
  PROVE  ReplyOK' /\ PutsOK'
<1>1. /\ \A a, v : (Snapshot(a, v))' = Snapshot(a, v)
      /\ \A a : (Version(a))' = Version(a)
  BY DEF Snapshot, Version
<1>2. \A a, v : MayReplace(a, v) => MayReplace(a, v)'
  BY <1>1 DEF MayReplace
<1>3. ReplyOK'
  BY <1>1, <1>2 DEF ReplyOK
<1>4. PutsOK'
  BY <1>1 DEF PutsOK, MayReplace, Outstanding, Unanswered, Request
<1>5. QED
  BY <1>3, <1>4

\* The local choice keeps the tasks and takes the candidate as baseline.
LEMMA ChooseLocalStep ==
  ASSUME Consistent, NEW ok \in BOOLEAN, ChooseLocal(ok)
  PROVE  Consistent'
<1> DEFINE chosen == core.items
<1>1. /\ session \in Accounts /\ core.pending # None
      /\ core.pending.cloud \in Nat /\ core.pending.cloud <= Version(session)
  BY DEF TypeOK, Cores, Pendings, BaselineOK, ChooseLocal, VerifyChoice,
     ReadyConflict, PendingFor, Active
<1>2. /\ core' = core \/ (ok /\ core' = Resolved(chosen, TRUE))
      /\ UNCHANGED <<cloud, wire, session, lease>>
  BY DEF ChooseLocal, Commit
<1>3. /\ flow' = flow \/ flow' = [flow EXCEPT !.ctx = IF @ = "live" THEN "superseded" ELSE @]
      /\ ok => flow' = [flow EXCEPT !.ctx = IF @ = "live" THEN "superseded" ELSE @]
  BY DEF ChooseLocal, AfterChoice
<1>4. approved' = approved \/ Approve(session, core.pending.cloud)
  BY DEF ChooseLocal, AfterChoice
<1>5. ok => Approve(session, core.pending.cloud)
  BY DEF ChooseLocal, AfterChoice
<1>6. approved \subseteq approved' /\ approved' \subseteq Accounts
  BY <1>1, <1>4, ApproveMonotone DEF TypeOK
<1>7. TypeOK'
  <2>1. chosen \in SUBSET Items
    BY DEF TypeOK, Cores
  <2>2. core' \in Cores
    BY <1>1, <1>2, <2>1 DEF TypeOK, Cores, Resolved
  <2>3. flow' \in FlowStates
    BY <1>3 DEF TypeOK, FlowStates
  <2>4. saveFailed' \in BOOLEAN /\ faults' \in 0 .. MaxFaults
    BY BoundsAssumption DEF TypeOK, ChooseLocal, Commit, Spend
  <2>5. view' \in Views
    BY DEF TypeOK, ChooseLocal, AfterChoice, Derived, Views
  <2>6. agreed' \in [Accounts -> SUBSET Items] /\ recall' \subseteq Items
    BY DEF TypeOK, Cores, ChooseLocal, AfterChoice
  <2>7. /\ queue' \subseteq Intents
        /\ waiter' \in {"Automatic", "Bootstrap", None}
        /\ retry' \in {"Automatic", "Bootstrap", None}
    BY DEF TypeOK, ChooseLocal, AfterChoice, Intents
  <2>8. QED
    BY <1>1, <1>2, <1>6, <2>2, <2>3, <2>4, <2>5, <2>6, <2>7, NoneAssumption
       DEF TypeOK, ChooseLocal
<1>8. FlowOK'
  BY <1>2, <1>3 DEF TypeOK, FlowStates, FlowOK
<1>9. ReplyOK' /\ PutsOK'
  BY <1>2, <1>3, <1>6, FlowFrame DEF TypeOK, FlowStates
<1>10. BaselineOK'
  <2>1. ok /\ core.pending.cloud = Version(session) => session \in approved'
    BY <1>1, <1>5, ApproveMonotone DEF TypeOK
  <2>2. CASE core' = core
    BY <1>2, <1>6, <2>2 DEF BaselineOK, MayReplace, Version, Snapshot
  <2>3. CASE ok /\ core' = Resolved(chosen, TRUE)
    <3>1. /\ core'.owner = session /\ core'.known = core.pending.cloud
          /\ core'.pending = None
      BY <2>3 DEF TypeOK, Cores, Resolved
    <3>2. QED
      BY <1>1, <1>2, <2>1, <2>3, <3>1, NoneAssumption DEF BaselineOK, MayReplace, Version
  <2>4. QED
    BY <1>2, <2>2, <2>3
<1>11. CleanMeansSynced'
  <2>1. CASE core' = core
    BY <1>2, <2>1 DEF CleanMeansSynced, Version, Snapshot
  <2>2. CASE ok /\ core' = Resolved(chosen, TRUE)
    <3>1. /\ core'.owner = session /\ core'.known = core.pending.cloud
          /\ core'.items = chosen /\ core'.dirty = TRUE
      BY <2>2 DEF TypeOK, Cores, Resolved
    <3>2. QED
      BY <1>1, <1>2, <2>2, <3>1, NoneAssumption DEF CleanMeansSynced, Version, Snapshot
  <2>3. QED
    BY <1>2, <2>1, <2>2
<1>12. UploadIsMarked'
  BY <1>2, <1>3 DEF TypeOK, Cores, FlowStates, UploadIsMarked, Live
<1>13. QED
  BY <1>7, <1>8, <1>9, <1>10, <1>11, <1>12

\* The cloud choice takes tasks and baseline from the candidate.
LEMMA ChooseCloudStep ==
  ASSUME Consistent, NEW ok \in BOOLEAN, ChooseCloud(ok)
  PROVE  Consistent'
<1> DEFINE chosen == Snapshot(session, core.pending.cloud)
<1>1. /\ session \in Accounts /\ core.pending # None
      /\ core.pending.cloud \in Nat /\ core.pending.cloud <= Version(session)
  BY DEF TypeOK, Cores, Pendings, BaselineOK, ChooseCloud, VerifyChoice,
     ReadyConflict, PendingFor, Active
<1>2. /\ core' = core \/ (ok /\ core' = Resolved(chosen, FALSE))
      /\ UNCHANGED <<cloud, wire, session, lease>>
  BY DEF ChooseCloud, Commit
<1>3. /\ flow' = flow \/ flow' = [flow EXCEPT !.ctx = IF @ = "live" THEN "superseded" ELSE @]
      /\ ok => flow' = [flow EXCEPT !.ctx = IF @ = "live" THEN "superseded" ELSE @]
  BY DEF ChooseCloud, AfterChoice
<1>4. approved' = approved \/ Approve(session, core.pending.cloud)
  BY DEF ChooseCloud, AfterChoice
<1>5. ok => Approve(session, core.pending.cloud)
  BY DEF ChooseCloud, AfterChoice
<1>6. approved \subseteq approved' /\ approved' \subseteq Accounts
  BY <1>1, <1>4, ApproveMonotone DEF TypeOK
<1>7. TypeOK'
  <2>1. chosen \in SUBSET Items
    BY <1>1, SnapshotType DEF TypeOK
  <2>2. core' \in Cores
    BY <1>1, <1>2, <2>1 DEF TypeOK, Cores, Resolved
  <2>3. flow' \in FlowStates
    BY <1>3 DEF TypeOK, FlowStates
  <2>4. saveFailed' \in BOOLEAN /\ faults' \in 0 .. MaxFaults
    BY BoundsAssumption DEF TypeOK, ChooseCloud, Commit, Spend
  <2>5. view' \in Views
    BY DEF TypeOK, ChooseCloud, AfterChoice, Derived, Views
  <2>6. agreed' \in [Accounts -> SUBSET Items] /\ recall' \subseteq Items
    BY DEF TypeOK, Cores, ChooseCloud, AfterChoice
  <2>7. /\ queue' \subseteq Intents
        /\ waiter' \in {"Automatic", "Bootstrap", None}
        /\ retry' \in {"Automatic", "Bootstrap", None}
    BY DEF TypeOK, ChooseCloud, AfterChoice, Intents
  <2>8. QED
    BY <1>1, <1>2, <1>6, <2>2, <2>3, <2>4, <2>5, <2>6, <2>7, NoneAssumption
       DEF TypeOK, ChooseCloud
<1>8. FlowOK'
  BY <1>2, <1>3 DEF TypeOK, FlowStates, FlowOK
<1>9. ReplyOK' /\ PutsOK'
  BY <1>2, <1>3, <1>6, FlowFrame DEF TypeOK, FlowStates
<1>10. BaselineOK'
  <2>1. ok /\ core.pending.cloud = Version(session) => session \in approved'
    BY <1>1, <1>5, ApproveMonotone DEF TypeOK
  <2>2. CASE core' = core
    BY <1>2, <1>6, <2>2 DEF BaselineOK, MayReplace, Version, Snapshot
  <2>3. CASE ok /\ core' = Resolved(chosen, FALSE)
    <3>1. /\ core'.owner = session /\ core'.known = core.pending.cloud
          /\ core'.pending = None
      BY <2>3 DEF TypeOK, Cores, Resolved
    <3>2. QED
      BY <1>1, <1>2, <2>1, <2>3, <3>1, NoneAssumption DEF BaselineOK, MayReplace, Version
  <2>4. QED
    BY <1>2, <2>2, <2>3
<1>11. CleanMeansSynced'
  <2>1. CASE core' = core
    BY <1>2, <2>1 DEF CleanMeansSynced, Version, Snapshot
  <2>2. CASE ok /\ core' = Resolved(chosen, FALSE)
    <3>1. /\ core'.owner = session /\ core'.known = core.pending.cloud
          /\ core'.items = chosen /\ core'.dirty = FALSE
      BY <2>2 DEF TypeOK, Cores, Resolved
    <3>2. QED
      BY <1>1, <1>2, <2>2, <3>1, NoneAssumption DEF CleanMeansSynced, Version, Snapshot
  <2>3. QED
    BY <1>2, <2>1, <2>2
<1>12. UploadIsMarked'
  BY <1>2, <1>3 DEF TypeOK, Cores, FlowStates, UploadIsMarked, Live
<1>13. QED
  BY <1>7, <1>8, <1>9, <1>10, <1>11, <1>12

\* The baseline stays right while the store and the cloud rest.
LEMMA CoreFrame ==
  ASSUME BaselineOK, CleanMeansSynced, UNCHANGED <<core, cloud>>,
         approved \subseteq approved'
  PROVE  BaselineOK' /\ CleanMeansSynced'
BY DEF BaselineOK, CleanMeansSynced, MayReplace, Version, Snapshot

\* A flow that ends leaves at most the PUT it had in flight.
LEMMA EndFrame ==
  ASSUME Consistent, NEW late \in BOOLEAN, Abandon(late), flow' = Idle,
         UNCHANGED <<cloud, approved>>
  PROVE  /\ FlowOK' /\ ReplyOK' /\ UploadIsMarked' /\ PutsOK'
         /\ flow' \in FlowStates /\ wire' \subseteq Puts
<1>1. /\ flow'.ctx = "none" /\ flow'.phase = "idle" /\ flow'.reply = None
      /\ flow' \in FlowStates
  BY DEF Idle, FlowStates
<1>2. FlowOK' /\ ReplyOK' /\ UploadIsMarked'
  BY <1>1 DEF FlowOK, ReplyOK, UploadIsMarked
<1>3. Outstanding' \subseteq Outstanding
  BY <1>1 DEF Abandon, Outstanding, Unanswered
<1>4. PutsOK'
  BY <1>3 DEF PutsOK, MayReplace, Version, Snapshot
<1>5. wire' \subseteq Puts
  BY DEF TypeOK, FlowStates, FlowOK, Abandon, Unanswered, Request, Puts
<1>6. QED
  BY <1>1, <1>2, <1>4, <1>5

\* The same without a PUT in flight.
LEMMA DoneFrame ==
  ASSUME Consistent, flow' = Idle, UNCHANGED wire, UNCHANGED cloud,
         approved \subseteq approved'
  PROVE  /\ FlowOK' /\ ReplyOK' /\ UploadIsMarked' /\ PutsOK'
         /\ flow' \in FlowStates
<1>1. /\ flow'.ctx = "none" /\ flow'.phase = "idle" /\ flow'.reply = None
      /\ flow' \in FlowStates
  BY DEF Idle, FlowStates
<1>2. FlowOK' /\ ReplyOK' /\ UploadIsMarked'
  BY <1>1 DEF FlowOK, ReplyOK, UploadIsMarked
<1>3. Outstanding' \subseteq Outstanding
  BY <1>1 DEF Outstanding, Unanswered
<1>4. PutsOK'
  BY <1>3 DEF PutsOK, MayReplace, Version, Snapshot
<1>5. QED
  BY <1>1, <1>2, <1>4

\* A login changes neither store nor baseline; a flow that is still out is an orphan.
LEMMA LoginStep ==
  ASSUME Consistent, NEW a \in Accounts, Login(a)
  PROVE  Consistent'
<1>1. TypeOK'
  <2>1. view' \in Views
    BY DEF Login, Derived, Views
  <2>2. QED
    BY <2>1, NoneAssumption DEF TypeOK, Login, Intents
<1>2. FlowOK'
  BY DEF TypeOK, FlowStates, Login, FlowOK
<1>3. ReplyOK' /\ PutsOK'
  BY FlowFrame DEF Login
<1>4. BaselineOK' /\ CleanMeansSynced'
  BY CoreFrame DEF Login
<1>5. UploadIsMarked'
  BY DEF Login, UploadIsMarked, Live
<1>6. QED
  BY <1>1, <1>2, <1>3, <1>4, <1>5

\* A logout leaves the flow without a session.
LEMMA LogoutStep ==
  ASSUME Consistent, Logout
  PROVE  Consistent'
<1>1. flow' = [flow EXCEPT !.ctx = IF @ = "none" THEN @ ELSE "orphan"]
  BY DEF Logout
<1>2. TypeOK'
  <2>1. flow' \in FlowStates
    BY <1>1 DEF TypeOK, FlowStates
  <2>2. QED
    BY <2>1 DEF TypeOK, Logout, EndSession, Views
<1>3. FlowOK'
  BY <1>1 DEF TypeOK, FlowStates, FlowOK
<1>4. ReplyOK' /\ PutsOK'
  BY <1>1, FlowFrame DEF TypeOK, FlowStates, Logout, EndSession
<1>5. BaselineOK' /\ CleanMeansSynced'
  BY CoreFrame DEF Logout, EndSession
<1>6. UploadIsMarked'
  BY <1>1 DEF TypeOK, FlowStates, UploadIsMarked, Live
<1>7. QED
  BY <1>2, <1>3, <1>4, <1>5, <1>6

\* A rejected token stops the request, not the session.
LEMMA AuthRejectedStep ==
  ASSUME Consistent, AuthRejected
  PROVE  Consistent'
<1>1. flow' = [flow EXCEPT !.phase = "lost"]
  BY DEF AuthRejected
<1>2. TypeOK'
  <2>1. flow' \in FlowStates
    BY <1>1 DEF TypeOK, FlowStates
  <2>2. faults' \in 0 .. MaxFaults
    BY BoundsAssumption DEF TypeOK, AuthRejected, Spend
  <2>3. QED
    BY <2>1, <2>2 DEF TypeOK, AuthRejected
<1>3. FlowOK'
  BY <1>1 DEF TypeOK, FlowStates, FlowOK, AuthRejected
<1>4. ReplyOK'
  BY <1>1 DEF TypeOK, FlowStates, ReplyOK, AuthRejected
<1>5. PutsOK'
  BY <1>1 DEF TypeOK, FlowStates, PutsOK, MayReplace, Outstanding, Unanswered,
              AuthRejected, Version, Snapshot
<1>6. BaselineOK' /\ CleanMeansSynced'
  BY CoreFrame DEF AuthRejected
<1>7. UploadIsMarked'
  BY <1>1 DEF TypeOK, FlowStates, UploadIsMarked
<1>8. QED
  BY <1>2, <1>3, <1>4, <1>5, <1>6, <1>7

\* The flow closes the session that its request lost.
LEMMA LoseSessionStep ==
  ASSUME Consistent, LoseSession
  PROVE  Consistent'
<1>1. /\ FlowOK' /\ ReplyOK' /\ UploadIsMarked' /\ PutsOK'
      /\ flow' \in FlowStates
  BY DoneFrame DEF LoseSession, EndSession
<1>2. TypeOK'
  BY <1>1 DEF TypeOK, LoseSession, EndSession, Views
<1>3. BaselineOK' /\ CleanMeansSynced'
  BY CoreFrame DEF LoseSession, EndSession
<1>4. QED
  BY <1>1, <1>2, <1>3

\* A restart keeps the committed store and nothing else.
LEMMA RestartStep ==
  ASSUME Consistent, NEW keep \in BOOLEAN, NEW late \in BOOLEAN, Restart(keep, late)
  PROVE  Consistent'
<1>1. /\ FlowOK' /\ ReplyOK' /\ UploadIsMarked' /\ PutsOK'
      /\ flow' \in FlowStates /\ wire' \subseteq Puts
  BY EndFrame DEF Restart
<1>2. TypeOK'
  <2>1. view' \in Views
    BY DEF Restart, Derived, Views
  <2>2. faults' \in 0 .. MaxFaults
    BY BoundsAssumption DEF TypeOK, Restart, Spend
  <2>3. /\ session' \in Accounts \cup {None} /\ lease' \in BOOLEAN
        /\ session' = None => ~lease' /\ queue' = {}
    BY DEF TypeOK, Restart, Active
  <2>4. QED
    BY <1>1, <2>1, <2>2, <2>3 DEF TypeOK, Restart, Intents
<1>3. BaselineOK' /\ CleanMeansSynced'
  BY CoreFrame DEF Restart
<1>4. QED
  BY <1>1, <1>2, <1>3

\* A flow starts in the session that is in use.
LEMMA StartFlowStep ==
  ASSUME Consistent, NEW intent \in Intents, StartFlow(intent)
  PROVE  Consistent'
<1>1. \/ flow' = flow
      \/ \E phase \in {"get", "upload"} :
           flow' = [Idle EXCEPT !.phase = phase, !.intent = intent,
                                !.acct = session, !.ctx = "live"]
  BY DEF StartFlow
<1>2. TypeOK'
  <2>1. flow' \in FlowStates
    <3>1. Idle \in FlowStates
      BY DEF Idle, FlowStates
    <3>2. QED
      BY ZenonT(60), <1>1, <3>1 DEF TypeOK, FlowStates
  <2>2. view' \in Views
    BY DEF TypeOK, StartFlow, Derived, Views
  <2>3. overtaken' \in {"none", "queued", "running"}
    BY DEF TypeOK, StartFlow, ForgetOvertaken
  <2>4. retry' \in {retry, None}
    BY DEF StartFlow
  <2>5. queue' \subseteq queue /\ waiter' \in {waiter, None}
    BY DEF StartFlow, Takes
  <2>6. QED
    BY <2>1, <2>2, <2>3, <2>4, <2>5 DEF TypeOK, StartFlow
<1>3. CASE flow' = flow
  BY <1>2, <1>3, Frame DEF StartFlow
<1>4. CASE flow' # flow
  <2>1. /\ flow'.phase \in {"get", "upload"} /\ flow'.ctx = "live"
        /\ flow'.acct = session /\ flow'.reply = None /\ session # None
    BY <1>1, <1>4 DEF Idle, StartFlow, Active
  <2>2. FlowOK' /\ ReplyOK' /\ UploadIsMarked'
    BY <2>1 DEF FlowOK, ReplyOK, UploadIsMarked, StartFlow
  <2>3. Outstanding' \subseteq Outstanding
    BY <2>1 DEF StartFlow, Outstanding, Unanswered
  <2>4. PutsOK'
    BY <2>3 DEF StartFlow, PutsOK, MayReplace, Version, Snapshot
  <2>5. BaselineOK' /\ CleanMeansSynced'
    BY CoreFrame DEF StartFlow
  <2>6. QED
    BY <1>2, <2>2, <2>4, <2>5
<1>5. QED
  BY <1>3, <1>4

\* An archive that fails leaves the store as it is.
LEMMA ArchiveFailsStep ==
  ASSUME Consistent, ArchiveFails
  PROVE  Consistent'
<1>1. /\ FlowOK' /\ ReplyOK' /\ UploadIsMarked' /\ PutsOK'
      /\ flow' \in FlowStates
  BY DoneFrame DEF ArchiveFails, EndFlow
<1>2. TypeOK'
  <2>1. overtaken' \in {"none", "queued", "running"}
    BY DEF TypeOK, ArchiveFails, EndFlow, ForgetOvertaken
  <2>2. faults' \in 0 .. MaxFaults
    BY BoundsAssumption DEF TypeOK, ArchiveFails, Spend
  <2>3. QED
    BY <1>1, <2>1, <2>2 DEF TypeOK, ArchiveFails, Views
<1>3. BaselineOK' /\ CleanMeansSynced'
  BY CoreFrame DEF ArchiveFails
<1>4. QED
  BY <1>1, <1>2, <1>3

\* A flow that gives up may leave its PUT on the wire.
LEMMA DropFlowStep ==
  ASSUME Consistent, NEW late \in BOOLEAN, DropFlow(late)
  PROVE  Consistent'
<1>1. /\ FlowOK' /\ ReplyOK' /\ UploadIsMarked' /\ PutsOK'
      /\ flow' \in FlowStates /\ wire' \subseteq Puts
  BY EndFrame DEF DropFlow, EndFlow
<1>2. TypeOK'
  <2>1. overtaken' \in {"none", "queued", "running"}
    BY DEF TypeOK, DropFlow, EndFlow, ForgetOvertaken
  <2>2. QED
    BY <1>1, <2>1 DEF TypeOK, DropFlow
<1>3. BaselineOK' /\ CleanMeansSynced'
  BY CoreFrame DEF DropFlow
<1>4. QED
  BY <1>1, <1>2, <1>3

\* Recording a conflict of the flow's account, with a candidate the server has
\* or none yet, keeps the baseline.
LEMMA RecordConflict ==
  ASSUME Consistent, NEW v \in Nat \cup {None}, flow.acct \in Accounts,
         v # None => v <= Version(flow.acct),
         core' = [core EXCEPT !.pending = [owner |-> flow.acct, cloud |-> v],
                              !.uncertain = "none"],
         UNCHANGED <<cloud, approved>>
  PROVE  core' \in Cores /\ BaselineOK' /\ CleanMeansSynced'
<1>1. core' \in Cores
  BY DEF TypeOK, Cores, Pendings
<1>2. /\ core'.items = core.items /\ core'.owner = core.owner
      /\ core'.known = core.known /\ core'.dirty = core.dirty
      /\ core'.pending.cloud = v /\ core'.pending.owner = flow.acct
  BY DEF TypeOK, Cores
<1>3. BaselineOK' /\ CleanMeansSynced'
  BY <1>2 DEF BaselineOK, CleanMeansSynced, MayReplace, Version, Snapshot
<1>4. QED
  BY <1>1, <1>3

\* A failed request ends its flow.
LEMMA RequestFailsStep ==
  ASSUME Consistent, NEW ok \in BOOLEAN, NEW late \in BOOLEAN, RequestFails(ok, late)
  PROVE  Consistent'
<1>1. /\ FlowOK' /\ ReplyOK' /\ UploadIsMarked' /\ PutsOK'
      /\ flow' \in FlowStates /\ wire' \subseteq Puts
  BY EndFrame DEF RequestFails, EndFlow
<1>2. flow.acct \in Accounts /\ session = flow.acct
  BY DEF TypeOK, FlowStates, FlowOK, RequestFails, Live
<1>3. core' \in Cores /\ BaselineOK' /\ CleanMeansSynced'
  <2>1. CASE core' = core
    BY <2>1, CoreFrame DEF TypeOK, RequestFails
  <2>2. CASE core' = Blind
    BY <1>2, <2>2, RecordConflict DEF Blind, PendingWith, RequestFails
  <2>3. QED
    BY <2>1, <2>2 DEF RequestFails, Commit
<1>4. TypeOK'
  <2>1. overtaken' \in {"none", "queued", "running"}
    BY DEF TypeOK, RequestFails, EndFlow, ForgetOvertaken
  <2>2. faults' \in 0 .. MaxFaults
    BY BoundsAssumption DEF TypeOK, RequestFails, Spend
  <2>3. view' \in Views
    BY DEF RequestFails, FailedView, Views
  <2>4. retry' \in {"Automatic", "Bootstrap"}
    BY DEF RequestFails, RetryAction
  <2>5. saveFailed' \in BOOLEAN
    BY DEF TypeOK, RequestFails, Commit
  <2>6. QED
    BY <1>1, <1>2, <1>3, <2>1, <2>2, <2>3, <2>4, <2>5, NoneAssumption
       DEF TypeOK, RequestFails
<1>5. QED
  BY <1>1, <1>3, <1>4

\* What decide may return, and what each answer presupposes.
LEMMA DecisionCases ==
  ASSUME NEW v
  PROVE  /\ Decision(v) \in {"Restore", "Mark", "Upload", "Conflict"}
         /\ Decision(v) = "Mark" => /\ core.owner = flow.acct /\ core.known = v
                                     /\ core.items = Snapshot(flow.acct, v)
         /\ Decision(v) = "Upload" =>
              /\ core.owner = flow.acct
              /\ core.known = v \/ Snapshot(flow.acct, v) = {}
BY DEF Decision, Stranger, RestoreDecision, NoBase, OnBase, SameSnapshot

\* The decision on a GET keeps the baseline among the owner's versions.
LEMMA ArbitrateStep ==
  ASSUME Consistent, NEW ok \in BOOLEAN, Arbitrate(ok)
  PROVE  Consistent'
<1> DEFINE v == flow.reply.version
           d == Decision(v)
<1>1. /\ flow.acct \in Accounts /\ v \in Nat /\ v <= Version(flow.acct)
      /\ session = flow.acct /\ flow.ctx = "live"
  BY DEF TypeOK, FlowStates, Replies, FlowOK, ReplyOK, Arbitrate, Live
<1>2. Snapshot(flow.acct, v) \in SUBSET Items
  BY <1>1, SnapshotType DEF TypeOK
<1>3. core' = core \/ (ok /\ core' = Arbitrated(d, v))
  BY DEF Arbitrate, Commit
<1>4. UNCHANGED <<cloud, wire, session>>
  BY DEF Arbitrate
<1>5. /\ approved \subseteq approved' /\ approved' \subseteq Accounts
      /\ ok /\ d = "Restore" /\ v = Version(flow.acct) => flow.acct \in approved'
  <2>1. CASE ok /\ d = "Restore"
    BY <1>1, <2>1, ApproveMonotone DEF TypeOK, Arbitrate
  <2>2. CASE ~(ok /\ d = "Restore")
    BY <2>2 DEF TypeOK, Arbitrate
  <2>3. QED
    BY <2>1, <2>2
<1>6. core' \in Cores /\ BaselineOK' /\ CleanMeansSynced'
  <2>1. CASE core' = core
    BY <1>4, <1>5, <2>1, CoreFrame DEF TypeOK
  <2>2. CASE ok /\ d = "Conflict" /\ core' = Arbitrated(d, v)
    <3>1. core' = [core EXCEPT !.pending = [owner |-> flow.acct, cloud |-> v],
                               !.uncertain = "none"]
      BY <2>2 DEF Arbitrated, PendingWith
    <3>2. UNCHANGED approved
      BY <2>2 DEF Arbitrate
    <3>3. QED
      BY <1>1, <1>4, <3>1, <3>2, RecordConflict
  <2>3. CASE ok /\ d = "Restore" /\ core' = Arbitrated(d, v)
    <3>1. /\ core'.items = Snapshot(flow.acct, v) /\ core'.owner = flow.acct
          /\ core'.known = v /\ core'.pending = None /\ core' \in Cores
      BY <1>1, <1>2, <2>3 DEF TypeOK, Cores, Arbitrated
    <3>2. BaselineOK'
      BY <1>1, <1>4, <1>5, <2>3, <3>1, NoneAssumption
         DEF BaselineOK, MayReplace, Version
    <3>3. CleanMeansSynced'
      BY <1>1, <1>4, <3>1, NoneAssumption DEF CleanMeansSynced, Version, Snapshot
    <3>4. QED
      BY <3>1, <3>2, <3>3
  <2>4. CASE ok /\ d = "Mark" /\ core' = Arbitrated(d, v)
    <3>1. /\ core'.items = core.items /\ core'.owner = flow.acct
          /\ core'.known = v /\ core'.pending = core.pending
          /\ core'.dirty = core.dirty /\ core' \in Cores
      BY <1>1, <2>4, DecisionCases DEF TypeOK, Cores, Arbitrated
    <3>2. MayReplace(flow.acct, v)
      BY <1>1, <2>4, DecisionCases, NoneAssumption DEF BaselineOK
    <3>3. BaselineOK'
      BY <1>1, <1>4, <1>5, <3>1, <3>2, NoneAssumption
         DEF BaselineOK, MayReplace, Version, Snapshot
    <3>4. CleanMeansSynced'
      BY <1>1, <1>4, <2>4, <3>1, DecisionCases, NoneAssumption
         DEF CleanMeansSynced, Version, Snapshot
    <3>5. QED
      BY <3>1, <3>3, <3>4
  <2>5. CASE ok /\ d = "Upload" /\ core' = Arbitrated(d, v)
    <3>1. /\ core'.owner = flow.acct /\ core'.known = v /\ core'.dirty
          /\ core'.pending = core.pending /\ core' \in Cores
      BY <1>1, <2>5, DecisionCases DEF TypeOK, Cores, Arbitrated
    <3>2. MayReplace(flow.acct, v)
      BY <1>1, <2>5, DecisionCases, NoneAssumption DEF BaselineOK, MayReplace
    <3>3. BaselineOK'
      BY <1>1, <1>4, <1>5, <3>1, <3>2, NoneAssumption
         DEF BaselineOK, MayReplace, Version, Snapshot
    <3>4. CleanMeansSynced'
      BY <3>1 DEF CleanMeansSynced
    <3>5. QED
      BY <3>1, <3>3, <3>4
  <2>6. QED
    BY <1>3, <2>1, <2>2, <2>3, <2>4, <2>5, DecisionCases
<1>7. \/ flow' = Idle
      \/ flow' = [flow EXCEPT !.phase = "upload", !.reply = None, !.same = TRUE]
  BY DEF Arbitrate, EndFlow
<1>8. FlowOK' /\ ReplyOK' /\ UploadIsMarked' /\ PutsOK' /\ flow' \in FlowStates
  <2>1. CASE flow' = Idle
    BY <1>4, <1>5, <2>1, DoneFrame
  <2>2. CASE flow' = [flow EXCEPT !.phase = "upload", !.reply = None, !.same = TRUE]
    <3>1. /\ flow'.phase = "upload" /\ flow'.reply = None /\ flow'.ctx = flow.ctx
          /\ flow'.acct = flow.acct /\ flow' \in FlowStates
      BY <2>2 DEF TypeOK, FlowStates
    <3>2. FlowOK' /\ ReplyOK' /\ UploadIsMarked'
      BY <1>1, <1>4, <3>1 DEF FlowOK, ReplyOK, UploadIsMarked
    <3>3. Outstanding' \subseteq Outstanding
      BY <1>4, <3>1 DEF Outstanding, Unanswered
    <3>4. PutsOK'
      BY <1>4, <1>5, <3>3 DEF PutsOK, MayReplace, Version, Snapshot
    <3>5. QED
      BY <3>1, <3>2, <3>4
  <2>3. QED
    BY <1>7, <2>1, <2>2
<1>9. TypeOK'
  <2>1. overtaken' \in {"none", "queued", "running"}
    BY DEF TypeOK, Arbitrate, EndFlow, ForgetOvertaken
  <2>2. faults' \in 0 .. MaxFaults
    BY BoundsAssumption DEF TypeOK, Arbitrate, Spend
  <2>3. view' \in Views
    BY DEF Arbitrate, Derived, Views
  <2>4. retry' \in {retry, None} /\ recall' \subseteq Items
    BY DEF TypeOK, Arbitrate
  <2>5. saveFailed' \in BOOLEAN
    BY DEF Arbitrate, Commit
  <2>6. QED
    BY <1>5, <1>6, <1>8, <2>1, <2>2, <2>3, <2>4, <2>5 DEF TypeOK, Arbitrate
<1>10. QED
  BY <1>6, <1>8, <1>9

\* A PUT names its base and is marked before it leaves.
LEMMA UploadStep ==
  ASSUME Consistent, NEW ok \in BOOLEAN, Upload(ok)
  PROVE  Consistent'
<1>1. /\ flow.acct \in Accounts /\ session = flow.acct /\ flow.ctx = "live"
      /\ flow.phase = "upload"
  BY DEF TypeOK, FlowStates, FlowOK, Upload, Live
<1>2. UNCHANGED <<cloud, wire, session, approved>>
  BY DEF Upload
<1>3. \/ flow' = Idle /\ core' = core
      \/ /\ flow' = [flow EXCEPT !.phase = "put", !.base = core.known, !.items = core.items]
         /\ core' = [core EXCEPT !.uncertain = "exact"]
         /\ core.owner = flow.acct /\ core.pending = None /\ core.dirty
         /\ core.known # None
  BY DEF Upload, Commit, EndFlow, Unconfirmed
<1>4. TypeOK'
  <2>1. core' \in Cores
    BY <1>3 DEF TypeOK, Cores
  <2>2. flow' \in FlowStates
    <3>1. Idle \in FlowStates
      BY DEF Idle, FlowStates
    <3>2. core.known # None => core.known \in Nat
      BY DEF TypeOK, Cores
    <3>3. core.items \in SUBSET Items
      BY DEF TypeOK, Cores
    <3>4. QED
      BY <1>3, <3>1, <3>2, <3>3 DEF TypeOK, FlowStates
  <2>3. overtaken' \in {"none", "queued", "running"}
    BY DEF TypeOK, Upload, EndFlow, ForgetOvertaken
  <2>4. faults' \in 0 .. MaxFaults
    BY BoundsAssumption DEF TypeOK, Upload, Spend
  <2>5. view' \in Views
    BY DEF TypeOK, Upload, Derived, Views
  <2>6. saveFailed' \in BOOLEAN
    BY DEF TypeOK, Upload, Commit
  <2>7. QED
    BY <2>1, <2>2, <2>3, <2>4, <2>5, <2>6 DEF TypeOK, Upload
<1>5. CASE flow' = Idle /\ core' = core
  <2>1. FlowOK' /\ ReplyOK' /\ UploadIsMarked' /\ PutsOK'
    BY <1>2, <1>5, DoneFrame
  <2>2. BaselineOK' /\ CleanMeansSynced'
    BY <1>2, <1>5, CoreFrame
  <2>3. QED
    BY <1>4, <2>1, <2>2
<1>6. CASE /\ flow' = [flow EXCEPT !.phase = "put", !.base = core.known,
                                    !.items = core.items]
           /\ core' = [core EXCEPT !.uncertain = "exact"]
           /\ core.owner = flow.acct /\ core.pending = None /\ core.dirty
           /\ core.known # None
  <2>1. /\ flow'.phase = "put" /\ flow'.base = core.known /\ flow'.items = core.items
        /\ flow'.ctx = "live" /\ flow'.acct = flow.acct /\ flow'.reply = flow.reply
    BY <1>1, <1>6 DEF TypeOK, FlowStates
  <2>2. /\ core'.items = core.items /\ core'.owner = core.owner /\ core'.dirty
        /\ core'.known = core.known /\ core'.pending = None
        /\ core'.uncertain = "exact"
    BY <1>6 DEF TypeOK, Cores
  <2>3. FlowOK' /\ UploadIsMarked'
    BY <1>1, <1>2, <1>6, <2>1, <2>2, NoneAssumption DEF FlowOK, UploadIsMarked
  <2>4. flow.reply = None
    BY <1>1 DEF FlowOK
  <2>5. ReplyOK'
    BY <2>1, <2>4 DEF ReplyOK
  <2>6. BaselineOK' /\ CleanMeansSynced'
    BY <1>2, <2>2 DEF BaselineOK, CleanMeansSynced, MayReplace, Version, Snapshot
  <2>7. PutsOK'
    <3>1. MayReplace(flow.acct, core.known) /\ core.known <= Version(flow.acct)
      BY <1>6 DEF BaselineOK
    <3>2. Outstanding' \subseteq Outstanding \cup
            {[acct |-> flow.acct, base |-> core.known, items |-> core.items]}
      BY <1>2, <2>1 DEF Outstanding, Unanswered, Request
    <3>3. QED
      BY SMTT(30), <1>2, <3>1, <3>2 DEF PutsOK, MayReplace, Version, Snapshot
  <2>8. QED
    BY <1>4, <2>3, <2>5, <2>6, <2>7
<1>7. QED
  BY <1>3, <1>5, <1>6

\* A store that did not change meanwhile is clean at the new version.
LEMMA AcknowledgeStep ==
  ASSUME Consistent, NEW ok \in BOOLEAN, Acknowledge(ok)
  PROVE  Consistent'
<1>1. /\ flow.acct \in Accounts /\ flow.phase = "put" /\ flow.ctx = "live"
      /\ session = flow.acct /\ flow.reply.version \in Nat
      /\ flow.reply.version <= Version(flow.acct)
      /\ Snapshot(flow.acct, flow.reply.version) = flow.items
      /\ MayReplace(flow.acct, flow.reply.version)
  BY DEF TypeOK, FlowStates, Replies, FlowOK, ReplyOK, Acknowledge, Live
<1>2. UNCHANGED <<cloud, wire, session, approved>> /\ flow' = Idle
  BY DEF Acknowledge, EndFlow
<1>3. FlowOK' /\ ReplyOK' /\ UploadIsMarked' /\ PutsOK' /\ flow' \in FlowStates
  BY <1>2, DoneFrame
<1>4. core' \in Cores /\ BaselineOK' /\ CleanMeansSynced'
  <2>1. CASE core' = core
    BY <1>2, <2>1, CoreFrame DEF TypeOK
  <2>2. CASE core' # core
    <3>1. core' = [core EXCEPT !.known = flow.reply.version, !.uncertain = "none",
                               !.dirty = @ /\ core.uncertain = "outdated"]
      BY <2>2 DEF Acknowledge, Commit
    <3>2. (core.dirty /\ core.uncertain = "outdated") \in BOOLEAN
      OBVIOUS
    <3>3. core' \in Cores
      BY <1>1, <3>1, <3>2 DEF TypeOK, Cores
    <3>4. /\ core'.items = core.items /\ core'.owner = core.owner
          /\ core'.known = flow.reply.version /\ core'.pending = core.pending
      BY <3>1 DEF TypeOK, Cores
    <3>5. core'.dirty <=> (core.dirty /\ core.uncertain = "outdated")
      BY <3>1 DEF TypeOK, Cores
    <3>6. core.owner = flow.acct /\ core.dirty
      BY <1>1 DEF UploadIsMarked, Live
    <3>7. core.uncertain = "exact" \/ core'.dirty
      BY <1>1, <3>5, <3>6 DEF TypeOK, Cores, UploadIsMarked, Live
    <3>8. core.uncertain = "exact" => core.items = flow.items
      BY <1>1 DEF UploadIsMarked, Live
    <3>9. BaselineOK'
      BY <1>1, <1>2, <3>4, <3>6, NoneAssumption
         DEF BaselineOK, MayReplace, Version, Snapshot
    <3>10. CleanMeansSynced'
      BY <1>1, <1>2, <3>4, <3>6, <3>7, <3>8, NoneAssumption
         DEF CleanMeansSynced, Version, Snapshot
    <3>11. QED
      BY <3>3, <3>9, <3>10
  <2>3. QED
    BY <2>1, <2>2
<1>5. TypeOK'
  <2>1. overtaken' \in {"none", "queued", "running"}
    BY DEF TypeOK, Acknowledge, EndFlow, ForgetOvertaken
  <2>2. faults' \in 0 .. MaxFaults
    BY BoundsAssumption DEF TypeOK, Acknowledge, Spend
  <2>3. view' \in Views
    BY DEF TypeOK, Acknowledge, Derived, Views
  <2>4. retry' \in {retry, None}
    BY DEF Acknowledge
  <2>5. saveFailed' \in BOOLEAN
    BY DEF TypeOK, Acknowledge, Commit
  <2>6. QED
    BY <1>3, <1>4, <2>1, <2>2, <2>3, <2>4, <2>5 DEF TypeOK, Acknowledge
<1>6. QED
  BY <1>3, <1>4, <1>5

\* A 409 is kept as a conflict without a candidate.
LEMMA MarkNeedsCandidateStep ==
  ASSUME Consistent, NEW ok \in BOOLEAN, MarkNeedsCandidate(ok)
  PROVE  Consistent'
<1>1. flow.acct \in Accounts /\ session = flow.acct /\ flow.ctx = "live"
  BY DEF TypeOK, FlowStates, FlowOK, MarkNeedsCandidate, Live
<1>2. UNCHANGED <<cloud, wire, session, approved>>
  BY DEF MarkNeedsCandidate
<1>3. core' \in Cores /\ BaselineOK' /\ CleanMeansSynced'
  <2>1. CASE core' = core
    BY <1>2, <2>1, CoreFrame DEF TypeOK
  <2>2. CASE core' = Blind
    BY <1>1, <1>2, <2>2, RecordConflict DEF Blind, PendingWith
  <2>3. QED
    BY <2>1, <2>2 DEF MarkNeedsCandidate, Commit
<1>4. FlowOK' /\ ReplyOK' /\ UploadIsMarked' /\ PutsOK' /\ flow' \in FlowStates
  <2>1. CASE flow' = Idle
    BY <1>2, <2>1, DoneFrame
  <2>2. CASE flow' = [flow EXCEPT !.phase = "fetch", !.reply = None]
    <3>1. /\ flow'.phase = "fetch" /\ flow'.reply = None /\ flow'.ctx = flow.ctx
          /\ flow'.acct = flow.acct /\ flow' \in FlowStates
      BY <2>2 DEF TypeOK, FlowStates
    <3>2. FlowOK' /\ ReplyOK' /\ UploadIsMarked'
      BY <1>1, <1>2, <3>1 DEF FlowOK, ReplyOK, UploadIsMarked
    <3>3. Outstanding' \subseteq Outstanding
      BY <1>2, <3>1 DEF Outstanding, Unanswered
    <3>4. PutsOK'
      BY <1>2, <3>3 DEF PutsOK, MayReplace, Version, Snapshot
    <3>5. QED
      BY <3>1, <3>2, <3>4
  <2>3. QED
    BY <2>1, <2>2 DEF MarkNeedsCandidate, EndFlow
<1>5. TypeOK'
  <2>1. overtaken' \in {"none", "queued", "running"}
    BY DEF TypeOK, MarkNeedsCandidate, EndFlow, ForgetOvertaken
  <2>2. faults' \in 0 .. MaxFaults
    BY BoundsAssumption DEF TypeOK, MarkNeedsCandidate, Spend
  <2>3. view' \in Views
    BY DEF MarkNeedsCandidate, Derived, Views
  <2>4. saveFailed' \in BOOLEAN
    BY DEF MarkNeedsCandidate, Commit
  <2>5. QED
    BY <1>3, <1>4, <2>1, <2>2, <2>3, <2>4 DEF TypeOK, MarkNeedsCandidate
<1>6. QED
  BY <1>3, <1>4, <1>5

\* The candidate of a conflict is a version of the owner's cloud.
LEMMA StoreCandidateStep ==
  ASSUME Consistent, NEW ok \in BOOLEAN, StoreCandidate(ok)
  PROVE  Consistent'
<1>1. /\ flow.acct \in Accounts /\ flow.reply.version \in Nat
      /\ flow.reply.version <= Version(flow.acct)
  BY DEF TypeOK, FlowStates, Replies, FlowOK, ReplyOK, StoreCandidate, Live
<1>2. UNCHANGED <<cloud, wire, session, approved>> /\ flow' = Idle
  BY DEF StoreCandidate, EndFlow
<1>3. FlowOK' /\ ReplyOK' /\ UploadIsMarked' /\ PutsOK' /\ flow' \in FlowStates
  BY <1>2, DoneFrame
<1>4. core' \in Cores /\ BaselineOK' /\ CleanMeansSynced'
  <2>1. CASE core' = core
    BY <1>2, <2>1, CoreFrame DEF TypeOK
  <2>2. CASE core' # core
    BY <1>1, <1>2, <2>2, RecordConflict DEF StoreCandidate, Commit, PendingWith
  <2>3. QED
    BY <2>1, <2>2
<1>5. TypeOK'
  <2>1. overtaken' \in {"none", "queued", "running"}
    BY DEF TypeOK, StoreCandidate, EndFlow, ForgetOvertaken
  <2>2. faults' \in 0 .. MaxFaults
    BY BoundsAssumption DEF TypeOK, StoreCandidate, Spend
  <2>3. view' \in Views
    BY DEF StoreCandidate, Derived, Views
  <2>4. retry' \in {retry, None}
    BY DEF StoreCandidate
  <2>5. saveFailed' \in BOOLEAN
    BY DEF StoreCandidate, Commit
  <2>6. QED
    BY <1>3, <1>4, <2>1, <2>2, <2>3, <2>4, <2>5 DEF TypeOK, StoreCandidate
<1>6. QED
  BY <1>3, <1>4, <1>5

\* A snapshot written to the server moves no earlier one.
LEMMA Grow ==
  ASSUME cloud \in [Accounts -> Seq(SUBSET Items)],
         NEW a \in Accounts, NEW items \in SUBSET Items, Write(a, items)
  PROVE  /\ cloud' \in [Accounts -> Seq(SUBSET Items)]
         /\ \A b \in Accounts :
              /\ Version(b) \in Nat
              /\ Version(b)' = IF b = a THEN Version(b) + 1 ELSE Version(b)
              /\ \A v \in Nat : v <= Version(b) => Snapshot(b, v)' = Snapshot(b, v)
         /\ \A v : v = Version(a) + 1 => Snapshot(a, v)' = items
<1>1. cloud' = [cloud EXCEPT ![a] = Append(@, items)]
  BY DEF Write
<1>2. cloud' \in [Accounts -> Seq(SUBSET Items)]
  BY <1>1
<1>3. \A b \in Accounts : b # a => cloud'[b] = cloud[b]
  BY <1>1
<1>4. /\ cloud'[a] = Append(cloud[a], items) /\ cloud[a] \in Seq(SUBSET Items)
  BY <1>1
<1>5. \A b \in Accounts : Len(cloud[b]) \in Nat
  OBVIOUS
<1>6. /\ Len(cloud'[a]) = Len(cloud[a]) + 1
      /\ cloud'[a][Len(cloud[a]) + 1] = items
      /\ \A i \in 1 .. Len(cloud[a]) : cloud'[a][i] = cloud[a][i]
  BY <1>4
<1>7. ASSUME NEW b \in Accounts
      PROVE  /\ Version(b) \in Nat
             /\ Version(b)' = IF b = a THEN Version(b) + 1 ELSE Version(b)
             /\ \A v \in Nat : v <= Version(b) => Snapshot(b, v)' = Snapshot(b, v)
  BY <1>3, <1>5, <1>6 DEF Version, Snapshot
<1>8. \A v : v = Version(a) + 1 => Snapshot(a, v)' = items
  BY <1>5, <1>6 DEF Snapshot, Version
<1>9. QED
  BY <1>2, <1>7, <1>8

\* Writing a snapshot of account a leaves the local promises as they were.  What
\* was replaceable stays so: an older version is no longer the newest one.
LEMMA GrowFrame ==
  ASSUME Consistent, NEW a \in Accounts, NEW items \in SUBSET Items,
         Write(a, items), UNCHANGED <<core, flow.phase, flow.ctx>>,
         approved \ {a} \subseteq approved'
  PROVE  /\ cloud' \in [Accounts -> Seq(SUBSET Items)]
         /\ \A b \in Accounts : Version(b) <= Version(b)'
         /\ \A b \in Accounts, v \in Nat :
              v <= Version(b) /\ MayReplace(b, v) => MayReplace(b, v)'
         /\ BaselineOK' /\ CleanMeansSynced'
<1>1. /\ cloud' \in [Accounts -> Seq(SUBSET Items)]
      /\ \A b \in Accounts :
           /\ Version(b) \in Nat
           /\ Version(b)' = IF b = a THEN Version(b) + 1 ELSE Version(b)
           /\ \A v \in Nat : v <= Version(b) => Snapshot(b, v)' = Snapshot(b, v)
  BY Grow DEF TypeOK
<1>2. \A b \in Accounts : Version(b) <= Version(b)'
  BY <1>1
<1>3. ASSUME NEW b \in Accounts, NEW v \in Nat, v <= Version(b), MayReplace(b, v)
      PROVE  v = Version(b)' => b \in approved' \/ Snapshot(b, v)' = {}
  <2>1. CASE b = a
    BY <1>1, <2>1, <1>3
  <2>2. CASE b # a
    BY <1>1, <2>2, <1>3 DEF MayReplace
  <2>3. QED
    BY <2>1, <2>2
<1>4. \A b \in Accounts, v \in Nat :
        v <= Version(b) /\ MayReplace(b, v) => MayReplace(b, v)'
  BY <1>3 DEF MayReplace
<1>5. \A b \in Accounts, v \in Nat : v <= Version(b) => v <= Version(b)'
  BY <1>1, <1>2
<1>6. BaselineOK'
  <2>1. CASE core.known # None
    <3>1. /\ core.known \in Nat /\ core.owner \in Accounts
          /\ core.known <= Version(core.owner) /\ MayReplace(core.owner, core.known)
      BY <2>1 DEF TypeOK, Cores, BaselineOK
    <3>2. PICK b \in Accounts, v \in Nat : b = core.owner /\ v = core.known
      BY <3>1
    <3>3. v <= Version(b)' /\ MayReplace(b, v)'
      BY <1>4, <1>5, <3>1, <3>2
    <3>4. core.known <= Version(core.owner)' /\ MayReplace(core.owner, core.known)'
      BY <3>2, <3>3 DEF MayReplace, Version, Snapshot
    <3>5. core.pending # None /\ core.pending.cloud # None =>
            core.pending.cloud <= Version(core.pending.owner)'
      BY <1>5 DEF TypeOK, Cores, Pendings, BaselineOK, Version
    <3>6. QED
      BY <3>1, <3>4, <3>5, NoneAssumption DEF BaselineOK
  <2>2. CASE core.known = None
    <3>1. core.pending # None /\ core.pending.cloud # None =>
            core.pending.cloud <= Version(core.pending.owner)'
      BY <1>5 DEF TypeOK, Cores, Pendings, BaselineOK, Version
    <3>2. QED
      BY <2>2, <3>1 DEF BaselineOK
  <2>3. QED
    BY <2>1, <2>2
<1>7. CleanMeansSynced'
  <2>1. CASE core.known # None /\ ~core.dirty
    <3>1. /\ core.known \in Nat /\ core.owner \in Accounts
          /\ core.known <= Version(core.owner)
          /\ core.items = Snapshot(core.owner, core.known)
      BY <2>1 DEF TypeOK, Cores, CleanMeansSynced
    <3>2. PICK b \in Accounts, v \in Nat : b = core.owner /\ v = core.known
      BY <3>1
    <3>3. v <= Version(b)' /\ Snapshot(b, v)' = Snapshot(b, v)
      BY <1>1, <1>5, <3>1, <3>2
    <3>4. /\ core.known <= Version(core.owner)'
          /\ core.items = Snapshot(core.owner, core.known)'
      BY <3>1, <3>2, <3>3 DEF Version, Snapshot
    <3>5. QED
      BY <3>1, <3>4, NoneAssumption DEF CleanMeansSynced
  <2>2. CASE ~(core.known # None /\ ~core.dirty)
    BY <2>2 DEF CleanMeansSynced
  <2>3. QED
    BY <2>1, <2>2
<1>8. QED
  BY <1>1, <1>2, <1>4, <1>6, <1>7

\* The reply to a GET is the newest version.
LEMMA AnswerGetStep ==
  ASSUME Consistent, AnswerGet
  PROVE  Consistent'
<1>1. /\ flow.acct \in Accounts /\ flow.ctx = "live" /\ Version(flow.acct) \in Nat
      /\ flow.phase \in {"get", "fetch"}
  BY DEF TypeOK, FlowStates, FlowOK, AnswerGet, Live, Version
<1>2. flow' = [flow EXCEPT !.reply = [ok |-> TRUE, version |-> Version(flow.acct)]]
  BY DEF AnswerGet, Answer
<1>3. UNCHANGED <<core, cloud, wire, approved, session>>
  BY DEF AnswerGet
<1>4. [ok |-> TRUE, version |-> Version(flow.acct)] \in Replies
  BY <1>1 DEF Replies
<1>5. /\ flow'.phase = flow.phase /\ flow'.ctx = flow.ctx /\ flow'.acct = flow.acct
      /\ flow'.reply = [ok |-> TRUE, version |-> Version(flow.acct)]
      /\ flow' \in FlowStates
  BY <1>2, <1>4 DEF TypeOK, FlowStates
<1>6. TypeOK'
  BY <1>5 DEF TypeOK, AnswerGet
<1>7. FlowOK' /\ UploadIsMarked'
  BY <1>1, <1>3, <1>5 DEF FlowOK, UploadIsMarked
<1>8. ReplyOK'
  BY <1>1, <1>3, <1>5 DEF ReplyOK, Version
<1>9. PutsOK'
  <2>1. Outstanding' \subseteq Outstanding
    BY <1>1, <1>3, <1>5 DEF Outstanding, Unanswered
  <2>2. QED
    BY <1>3, <2>1 DEF PutsOK, MayReplace, Version, Snapshot
<1>10. BaselineOK' /\ CleanMeansSynced'
  BY <1>3, CoreFrame
<1>11. QED
  BY <1>6, <1>7, <1>8, <1>9, <1>10

\* A write on the server leaves no PUT that could replace unseen tasks.
LEMMA PutsFrame ==
  ASSUME Consistent, NEW a \in Accounts, NEW items \in SUBSET Items,
         Write(a, items), UNCHANGED <<core, flow.phase, flow.ctx>>,
         approved \ {a} \subseteq approved', Outstanding' \subseteq Outstanding
  PROVE  PutsOK'
<1>1. ASSUME NEW m \in Outstanding
      PROVE  m.acct \in Accounts /\ m.base \in Nat
  BY DEF TypeOK, Puts, FlowStates, FlowOK, Outstanding, Unanswered, Request
<1>2. ASSUME NEW m \in Outstanding
      PROVE  m.base <= Version(m.acct)' /\ MayReplace(m.acct, m.base)'
  <2>1. PICK b \in Accounts, v \in Nat : b = m.acct /\ v = m.base
    BY <1>1
  <2>2. v <= Version(b) /\ MayReplace(b, v)
    BY <2>1 DEF PutsOK
  <2>3. v <= Version(b)' /\ MayReplace(b, v)'
    <3>1. Version(b) <= Version(b)' /\ MayReplace(b, v)'
      BY <2>2, GrowFrame
    <3>2. /\ Version(b) \in Nat
          /\ Version(b)' = IF b = a THEN Version(b) + 1 ELSE Version(b)
      BY Grow DEF TypeOK
    <3>3. QED
      BY <2>2, <3>1, <3>2
  <2>4. QED
    BY <2>1, <2>3 DEF MayReplace, Version, Snapshot
<1>3. QED
  BY <1>2 DEF PutsOK, MayReplace, Version, Snapshot

\* A write by somebody else while the flow keeps its reply.
LEMMA ForeignWriteFrame ==
  ASSUME Consistent, NEW a \in Accounts, NEW items \in SUBSET Items,
         Write(a, items), UNCHANGED <<core, flow, session>>,
         approved \ {a} \subseteq approved', wire' \subseteq wire
  PROVE  /\ cloud' \in [Accounts -> Seq(SUBSET Items)]
         /\ FlowOK' /\ ReplyOK' /\ BaselineOK' /\ CleanMeansSynced'
         /\ UploadIsMarked' /\ PutsOK'
<1>1. cloud' \in [Accounts -> Seq(SUBSET Items)] /\ BaselineOK' /\ CleanMeansSynced'
  BY GrowFrame
<1>2. FlowOK' /\ UploadIsMarked'
  BY DEF FlowOK, UploadIsMarked, Live
<1>3. PutsOK'
  <2>1. Outstanding' \subseteq Outstanding
    BY DEF Outstanding, Unanswered, Request
  <2>2. QED
    BY <2>1, PutsFrame
<1>4. ReplyOK'
  <2>1. SUFFICES ASSUME flow.ctx # "none", flow.reply # None,
                        flow.phase = "put" => flow.reply.ok
                 PROVE  /\ flow.reply.version <= Version(flow.acct)'
                        /\ flow.phase = "put" =>
                             /\ Snapshot(flow.acct, flow.reply.version)' = flow.items
                             /\ MayReplace(flow.acct, flow.reply.version)'
    BY DEF ReplyOK, Version, Snapshot, MayReplace
  <2>2. /\ flow.acct \in Accounts /\ flow.reply.version \in Nat
        /\ flow.reply.version <= Version(flow.acct)
        /\ flow.phase = "put" =>
             /\ Snapshot(flow.acct, flow.reply.version) = flow.items
             /\ MayReplace(flow.acct, flow.reply.version)
    BY <2>1 DEF TypeOK, FlowStates, Replies, FlowOK, ReplyOK
  <2>3. PICK b \in Accounts, v \in Nat : b = flow.acct /\ v = flow.reply.version
    BY <2>2
  <2>4. /\ Version(b) \in Nat /\ Version(b)' \in Nat
        /\ Version(b) <= Version(b)'
        /\ Snapshot(b, v)' = Snapshot(b, v)
        /\ MayReplace(b, v) => MayReplace(b, v)'
    <3>1. v <= Version(b)
      BY <2>2, <2>3
    <3>2. Version(b) \in Nat /\ Version(b)' \in Nat /\ Snapshot(b, v)' = Snapshot(b, v)
      BY SMTT(30), <3>1, Grow DEF TypeOK
    <3>3. Version(b) <= Version(b)' /\ (MayReplace(b, v) => MayReplace(b, v)')
      BY <3>1, GrowFrame
    <3>4. QED
      BY <3>2, <3>3
  <2>5. /\ v <= Version(b)'
        /\ flow.phase = "put" => Snapshot(b, v)' = flow.items /\ MayReplace(b, v)'
    BY <2>2, <2>3, <2>4
  <2>6. QED
    BY <2>3, <2>5 DEF Version, Snapshot, MayReplace
<1>5. QED
  BY <1>1, <1>2, <1>3, <1>4

\* Another device writes a new version.
LEMMA RemoteWriteStep ==
  ASSUME Consistent, NEW a \in Accounts, NEW items \in SUBSET Items,
         RemoteWrite(a, items)
  PROVE  Consistent'
<1>1. /\ cloud' \in [Accounts -> Seq(SUBSET Items)]
      /\ FlowOK' /\ ReplyOK' /\ BaselineOK' /\ CleanMeansSynced'
      /\ UploadIsMarked' /\ PutsOK'
  BY ForeignWriteFrame DEF RemoteWrite
<1>2. TypeOK'
  BY <1>1 DEF TypeOK, RemoteWrite
<1>3. QED
  BY <1>1, <1>2

\* A PUT that was given up arrives after all, under its old base.
LEMMA LatePutStep ==
  ASSUME Consistent, NEW m \in wire, LatePut(m)
  PROVE  Consistent'
<1>1. m.acct \in Accounts /\ m.items \in SUBSET Items
  BY DEF TypeOK, Puts
<1>2. /\ UNCHANGED <<core, flow, session>> /\ wire' \subseteq wire
      /\ approved' \subseteq Accounts /\ approved \subseteq approved'
  BY <1>1 DEF TypeOK, LatePut, Apply
<1>3. /\ cloud' \in [Accounts -> Seq(SUBSET Items)]
      /\ FlowOK' /\ ReplyOK' /\ BaselineOK' /\ CleanMeansSynced'
      /\ UploadIsMarked' /\ PutsOK'
  <2>1. CASE m.base = Version(m.acct)
    <3>1. PICK b \in Accounts, kept \in SUBSET Items : b = m.acct /\ kept = m.items
      BY <1>1
    <3>2. Write(b, kept)
      BY <2>1, <3>1 DEF LatePut, Apply
    <3>3. QED
      BY <1>2, <3>2, ForeignWriteFrame
  <2>2. CASE m.base # Version(m.acct)
    <3>1. UNCHANGED <<cloud, approved>>
      BY <2>2 DEF LatePut, Apply
    <3>2. FlowOK' /\ UploadIsMarked' /\ BaselineOK' /\ CleanMeansSynced' /\ ReplyOK'
      BY <1>2, <3>1, CoreFrame
         DEF FlowOK, UploadIsMarked, Live, ReplyOK, MayReplace, Version, Snapshot
    <3>3. Outstanding' \subseteq Outstanding
      BY <1>2 DEF Outstanding, Unanswered, Request
    <3>4. PutsOK'
      BY <3>1, <3>3 DEF PutsOK, MayReplace, Version, Snapshot
    <3>5. QED
      BY <3>1, <3>2, <3>4 DEF TypeOK
  <2>3. QED
    BY <2>1, <2>2
<1>4. TypeOK'
  BY <1>2, <1>3 DEF TypeOK, LatePut
<1>5. QED
  BY <1>3, <1>4

\* The reply to a PUT is the version it made, or a refusal.
LEMMA AnswerPutStep ==
  ASSUME Consistent, AnswerPut
  PROVE  Consistent'
<1> DEFINE a     == flow.acct
           reply == [ok |-> flow.base = Version(a), version |-> Version(a) + 1]
<1>1. /\ a \in Accounts /\ flow.items \in SUBSET Items /\ Version(a) \in Nat
      /\ flow.phase = "put" /\ flow.reply = None /\ flow.ctx # "none"
  BY DEF TypeOK, FlowStates, FlowOK, AnswerPut, Unanswered, Version
<1>2. flow' = [flow EXCEPT !.reply = reply]
  BY DEF AnswerPut, Answer, Request
<1>3. UNCHANGED <<core, session, wire>>
  BY DEF AnswerPut
<1>4. reply \in Replies
  <2>1. (flow.base = Version(a)) \in BOOLEAN
    OBVIOUS
  <2>2. QED
    BY <1>1, <2>1 DEF Replies
<1>5. /\ flow'.phase = "put" /\ flow'.ctx = flow.ctx /\ flow'.acct = a
      /\ flow'.items = flow.items /\ flow'.base = flow.base
      /\ flow'.reply = reply /\ flow' \in FlowStates
  BY <1>1, <1>2, <1>4 DEF TypeOK, FlowStates
<1>6. FlowOK' /\ UploadIsMarked'
  BY <1>1, <1>3, <1>5 DEF FlowOK, UploadIsMarked, Live
<1>7. Outstanding' \subseteq Outstanding
  BY <1>3, <1>4, <1>5, NoneAssumption DEF Outstanding, Unanswered
<1>8. /\ cloud' \in [Accounts -> Seq(SUBSET Items)] /\ approved' \subseteq Accounts
      /\ ReplyOK' /\ BaselineOK' /\ CleanMeansSynced' /\ PutsOK'
  <2>1. CASE flow.base = Version(a)
    <3>1. Write(a, flow.items) /\ approved' = approved \cup {a}
      BY <2>1 DEF AnswerPut, Apply, Request
    <3>2. PICK b \in Accounts, kept \in SUBSET Items, v \in Nat :
            b = a /\ kept = flow.items /\ v = Version(a) + 1
      BY <1>1
    <3>3. Write(b, kept)
      BY <3>1, <3>2
    <3>4. /\ cloud' \in [Accounts -> Seq(SUBSET Items)]
          /\ BaselineOK' /\ CleanMeansSynced' /\ PutsOK'
      BY <1>3, <1>5, <1>7, <3>1, <3>3, GrowFrame, PutsFrame, <1>1
    <3>5. v = Version(b)' /\ Snapshot(b, v)' = kept
      BY <3>2, <3>3, Grow DEF TypeOK
    <3>6. ReplyOK'
      <4>1. flow'.acct = b /\ flow'.items = kept /\ flow'.reply.version = v
        BY <1>5, <3>2
      <4>2. MayReplace(b, v)'
        BY <3>1, <3>2 DEF MayReplace
      <4>3. QED
        BY <3>5, <4>1, <4>2 DEF ReplyOK, MayReplace, Version, Snapshot
    <3>7. QED
      BY <1>1, <3>1, <3>4, <3>6 DEF TypeOK
  <2>2. CASE flow.base # Version(a)
    <3>1. UNCHANGED <<cloud, approved>>
      BY <2>2 DEF AnswerPut, Apply, Request
    <3>2. BaselineOK' /\ CleanMeansSynced'
      BY <1>3, <3>1, CoreFrame
    <3>3. ReplyOK'
      <4>1. reply.ok = (flow.base = Version(a))
        OBVIOUS
      <4>2. flow'.reply.ok = FALSE
        <5>1. flow'.reply.ok = reply.ok
          BY <1>5
        <5>2. (flow.base = Version(a)) = FALSE
          BY <2>2
        <5>3. QED
          BY <5>1, <5>2, <4>1
      <4>3. QED
        BY <1>5, <4>2 DEF ReplyOK
    <3>4. PutsOK'
      BY <1>7, <3>1 DEF PutsOK, MayReplace, Version, Snapshot
    <3>5. QED
      BY <3>1, <3>2, <3>3, <3>4 DEF TypeOK
  <2>3. QED
    BY <2>1, <2>2
<1>9. TypeOK'
  BY <1>5, <1>8 DEF TypeOK, AnswerPut
<1>10. QED
  BY <1>6, <1>8, <1>9

-----------------------------------------------------------------------------

\* The invariant holds at first.
LEMMA InitConsistent == Init => Consistent
<1> SUFFICES ASSUME Init PROVE Consistent
  OBVIOUS
<1>1. PICK imported \in SUBSET OwnItems(None) :
        core = [items |-> imported, owner |-> None, known |-> None,
                dirty |-> imported # {}, pending |-> None, uncertain |-> "none"]
  BY DEF Init
<1>2. core \in Cores
  <2>1. (imported # {}) \in BOOLEAN /\ imported \in SUBSET Items
    BY DEF OwnItems
  <2>2. QED
    BY <1>1, <2>1 DEF Cores
<1>3. /\ flow \in FlowStates /\ flow.ctx = "none" /\ flow.phase = "idle"
      /\ flow.reply = None
  BY DEF Init, Idle, FlowStates
<1>4. cloud \in [Accounts -> Seq(SUBSET Items)]
  <2>1. <<>> \in Seq(SUBSET Items)
    OBVIOUS
  <2>2. QED
    BY <2>1 DEF Init
<1>5. TypeOK
  <2>1. /\ saveFailed \in BOOLEAN /\ auto \in BOOLEAN /\ lease \in BOOLEAN
    BY DEF Init
  <2>2. view \in Views /\ faults \in 0 .. MaxFaults
    BY BoundsAssumption DEF Init, Views
  <2>3. agreed \in [Accounts -> SUBSET Items]
    BY DEF Init
  <2>4. QED
    BY <1>2, <1>3, <1>4, <2>1, <2>2, <2>3 DEF Init, TypeOK
<1>6. FlowOK /\ ReplyOK /\ UploadIsMarked
  BY <1>3 DEF FlowOK, ReplyOK, UploadIsMarked
<1>7. BaselineOK /\ CleanMeansSynced
  BY <1>1 DEF BaselineOK, CleanMeansSynced
<1>8. PutsOK
  BY <1>3 DEF Init, PutsOK, Outstanding, Unanswered
<1>9. QED
  BY <1>5, <1>6, <1>7, <1>8

\* Every step keeps the invariant: one case for each action of Next.
LEMMA NextConsistent == Consistent /\ [Next]_vars => Consistent'
<1> SUFFICES ASSUME Consistent, [Next]_vars PROVE Consistent'
  OBVIOUS
<1>1. CASE Local
  <2>1. CASE \E new \in SUBSET Items, ok \in BOOLEAN : Edit(new, ok)
    BY <2>1, EditStep
  <2>2. CASE \E ok \in BOOLEAN : MarkNotified(ok)
    BY <2>2, MarkNotifiedStep
  <2>3. CASE \/ \E ok \in BOOLEAN : SaveNow(ok)
             \/ \E on \in BOOLEAN : SetAutomatic(on)
             \/ Flush \/ RestoreFromCloud \/ RetryTick \/ DeferConflict
    BY <2>3, RequestStep
  <2>4. CASE \E ok \in BOOLEAN : ChooseLocal(ok)
    BY <2>4, ChooseLocalStep
  <2>5. CASE \E ok \in BOOLEAN : ChooseCloud(ok)
    BY <2>5, ChooseCloudStep
  <2>6. QED
    BY <1>1, <2>1, <2>2, <2>3, <2>4, <2>5 DEF Local
<1>2. CASE Sessions
  BY <1>2, LoginStep, LogoutStep, AuthRejectedStep, LoseSessionStep, RestartStep
     DEF Sessions
<1>3. CASE Flows
  <2>1. CASE \E intent \in Intents : StartFlow(intent)
    BY <2>1, StartFlowStep
  <2>2. CASE \E ok \in BOOLEAN : Arbitrate(ok) \/ Upload(ok) \/ Acknowledge(ok)
    BY <2>2, ArbitrateStep, UploadStep, AcknowledgeStep
  <2>3. CASE \E ok \in BOOLEAN : MarkNeedsCandidate(ok) \/ StoreCandidate(ok)
    BY <2>3, MarkNeedsCandidateStep, StoreCandidateStep
  <2>4. CASE ArchiveFails
    BY <2>4, ArchiveFailsStep
  <2>5. CASE \E ok, late \in BOOLEAN : RequestFails(ok, late)
    BY <2>5, RequestFailsStep
  <2>6. CASE \E late \in BOOLEAN : DropFlow(late)
    BY <2>6, DropFlowStep
  <2>7. QED
    BY <1>3, <2>1, <2>2, <2>3, <2>4, <2>5, <2>6 DEF Flows
<1>4. CASE Server
  BY <1>4, AnswerGetStep, AnswerPutStep, LatePutStep, RemoteWriteStep DEF Server
<1>5. CASE UNCHANGED vars
  <2>1. TypeOK'
    BY <1>5 DEF TypeOK, vars
  <2>2. QED
    BY <1>5, <2>1, Frame DEF vars
<1>6. QED
  BY <1>1, <1>2, <1>3, <1>4, <1>5 DEF Next

\* The strengthened invariant holds in every reachable state.
THEOREM Invariance == Spec => []Consistent
BY InitConsistent, NextConsistent, PTL DEF Spec

\* Type correctness, and nothing of a session outlives it.
THEOREM TypeCorrect == Spec => []TypeOK
<1>1. Consistent => TypeOK
  OBVIOUS
<1>2. QED
  BY <1>1, Invariance, PTL

\* A store without unsynced edits is exactly the confirmed snapshot of its owner.
THEOREM CleanIsSynced == Spec => []CleanMeansSynced
<1>1. Consistent => CleanMeansSynced
  OBVIOUS
<1>2. QED
  BY <1>1, Invariance, PTL

\* A PUT travels only under its durable marker.
THEOREM MarkedUploads == Spec => []UploadIsMarked
<1>1. Consistent => UploadIsMarked
  OBVIOUS
<1>2. QED
  BY <1>1, Invariance, PTL

\* No PUT that may still be applied replaces a snapshot nobody here has seen.
THEOREM NothingOverwrittenBlindly == Spec => []NoBlindOverwrite
<1>1. Consistent => NoBlindOverwrite
  BY DEF PutsOK, MayReplace, NoBlindOverwrite
<1>2. QED
  BY <1>1, Invariance, PTL
=============================================================================
