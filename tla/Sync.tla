-------------------------------- MODULE Sync --------------------------------
(***************************************************************************)
(* The synchronisation engine: one desktop client that edits a single      *)
(* snapshot of tasks offline and reconciles it with a versioned server.    *)
(*                                                                         *)
(* `core` is the part of the program that every commit writes to data.json *)
(* before publishing it in memory, so it survives a crash as it is.  The   *)
(* other client variables are volatile.  `cloud` and `wire` are the server *)
(* and the network.                                                        *)
(*                                                                         *)
(* Counters that the code only compares for equality with a value captured *)
(* earlier are kept as the outcome of that comparison: flow.ctx for the    *)
(* session generation and the operation, flow.same for the store revision, *)
(* core.uncertain for local_edit_revision against the upload marker; a     *)
(* task whose epoch was overtaken is dropped from `waiter` at once, and an *)
(* answer to a conflict candidate that was replaced meanwhile, which the   *)
(* candidate UUID refuses, is no step.                                     *)
(*                                                                         *)
(* A definition whose name ends in Bug is a plausible mistake in the       *)
(* definition that follows it.  Nothing uses it: putting it in that        *)
(* definition's place must make a property fail (README, "Mutants").       *)
(***************************************************************************)
EXTENDS Integers, Sequences, FiniteSets

CONSTANTS
  Accounts,    \* (server URL, account id) pairs that can log in
  Items,       \* tasks
  Home,        \* Home[i]: the owner of the store in which task i is created
  None,        \* absent value
  MaxVersion,  \* bound: snapshots written per account
  MaxQueue,    \* bound: flows waiting for push_lock when the user asks for one more
  MaxLate,     \* bound: abandoned PUTs still travelling to the server
  MaxFaults    \* bound: failed writes, failed requests, crashes

Intents == {"Automatic", "Manual", "Bootstrap", "Restore", "ConfirmLocal"}

Pendings == [owner : Accounts, cloud : Nat \cup {None}]
Replies  == [ok : BOOLEAN, version : Nat]
Puts     == [acct : Accounts, base : Nat, items : SUBSET Items]

Views == {"idle", "pending", "syncing", "synced", "failed", "conflict", "unauthorized"}

Cores ==
  [items : SUBSET Items, owner : Accounts \cup {None}, known : Nat \cup {None},
   dirty : BOOLEAN, pending : Pendings \cup {None},
   uncertain : {"none", "exact", "outdated"}]

FlowStates ==
  [phase : {"idle", "get", "upload", "put", "fetch", "lost"},
   intent : Intents \cup {None}, acct : Accounts \cup {None},
   ctx : {"none", "live", "superseded", "orphan"}, same : BOOLEAN,
   base : Nat, items : SUBSET Items, reply : Replies \cup {None}]

ASSUME BoundsAssumption ==
  /\ MaxVersion \in Nat /\ MaxQueue \in Nat /\ MaxLate \in Nat /\ MaxFaults \in Nat

ASSUME HomeAssumption == Home \in [Items -> Accounts \cup {None}]

\* None stands for Rust's Option::None and is no other value of the model.
ASSUME NoneAssumption ==
  /\ None \notin Accounts /\ None \notin Nat /\ None \notin Intents
  /\ None \notin Pendings /\ None \notin Replies

VARIABLES
  core,        \* committed store and SyncMeta
  saveFailed,  \* the last write of data.json failed
  auto,        \* settings.automatic_sync
  session,     \* account logged in, or None
  lease,       \* the session's credential lease is active
  flow,        \* the network flow holding push_lock
  queue,       \* flows of this session waiting for push_lock
  waiter,      \* epoch-guarded flow scheduled by a debounce or a retry
  retry,       \* retry_action while retry_at is set
  view,        \* state shown to the user
  recall,      \* foreign tasks that undo or redo can bring back
  cloud,       \* cloud[a]: snapshots written to account a, oldest first
  wire         \* PUTs whose caller gave up but which may still arrive

\* Auxiliary variables: history that the properties talk about.
VARIABLES
  approved,    \* accounts whose newest snapshot this device wrote, adopted or
               \* agreed to replace
  agreed,      \* agreed[a]: tasks the user moved into account a by a choice
  overtaken,   \* where a Restore was when the user edited after asking for it
  faults

serverVars == <<cloud, wire>>
auxVars    == <<approved, agreed, overtaken, faults>>
vars == <<core, saveFailed, auto, session, lease, flow, queue, waiter, retry,
          view, recall, serverVars, auxVars>>

-----------------------------------------------------------------------------
(* Helpers *)

Version(a)     == Len(cloud[a])
Snapshot(a, v) == IF v = 0 THEN {} ELSE cloud[a][v]
OwnItems(a)    == {i \in Items : Home[i] = a}

PendingFor(c, a)    == c.pending # None /\ c.pending.owner = a
ReadyConflict(c, a) == PendingFor(c, a) /\ c.pending.cloud # None

Active == session # None /\ lease

DerivedBug(c, failed, s) ==
  IF failed                                     THEN "failed"
  ELSE IF s = None                              THEN "idle"
  ELSE IF c.dirty                               THEN "pending"
  ELSE IF c.owner = s /\ c.known # None         THEN "synced"
  ELSE IF PendingFor(c, s) THEN "conflict" ELSE "idle"

\* refresh_view: the view derived from the committed state, the save flag and the session.
Derived(c, failed, s) ==
  IF PendingFor(c, s) THEN "conflict"
  ELSE IF failed      THEN "failed"
  ELSE IF s = None    THEN "idle"
  ELSE IF c.dirty     THEN "pending"
  ELSE IF c.owner = s /\ c.known # None THEN "synced"
  ELSE "idle"

Spend(bad) == /\ bad => faults < MaxFaults
              /\ faults' = IF bad THEN faults + 1 ELSE faults

\* One write of data.json: publish `next` only if it was saved.
Commit(next, ok) == /\ core' = IF ok THEN next ELSE core
                    /\ saveFailed' = ~ok

Idle == [phase |-> "idle", intent |-> None, acct |-> None, ctx |-> "none",
         same |-> TRUE, base |-> 0, items |-> {}, reply |-> None]

Foreign(a) == (core.items # {} \/ core.dirty) /\ core.owner # a

\* The device knows what version v of account a holds.
Approve(a, v) == approved' = IF v = Version(a) THEN approved \cup {a} ELSE approved

\* Whether a Restore the user asked for is still waiting or already running.
RestorePlace ==
  IF flow.intent = "Restore"   THEN "running"
  ELSE IF "Restore" \in queue THEN "queued"
  ELSE "none"

\* A Restore that ends forgets the edits it was overtaken by.
ForgetOvertaken(intent, waiting) ==
  overtaken' = IF intent # "Restore" THEN overtaken
               ELSE IF "Restore" \in waiting /\ overtaken # "none" THEN "queued"
               ELSE "none"

EndFlow == flow' = Idle /\ ForgetOvertaken(flow.intent, queue)

-----------------------------------------------------------------------------
(* Local commits *)

\* auto_flush_after: the guard under which an automatic flow is scheduled.
Schedulable(c, failed, on) ==
  on /\ ~failed /\ ~ReadyConflict(c, session) /\ c.dirty

\* An empty, clean and undisputed store is claimed for the account that edits it.
ClaimsDirtyBug == /\ core.items = {}
                  /\ core.pending = None /\ core.uncertain = "none"
                  /\ core.owner # session

Claims == /\ core.items = {} /\ ~core.dirty
          /\ core.pending = None /\ core.uncertain = "none"
          /\ core.owner # session

EditedBug(new) ==
  [core EXCEPT !.items = new, !.dirty = TRUE,
               !.owner = IF Claims THEN session ELSE @,
               !.known = IF Claims THEN None ELSE @]

Edited(new) ==
  [core EXCEPT !.items = new, !.dirty = TRUE,
               !.owner = IF Claims THEN session ELSE @,
               !.known = IF Claims THEN None ELSE @,
               !.uncertain = IF @ = "none" THEN "none" ELSE "outdated"]

\* mutate_core with changes_tasks, then on_core_mutated.
Edit(new, ok) ==
  /\ Active
  /\ new \subseteq core.items \cup recall \cup OwnItems(Edited(new).owner)
  /\ Commit(Edited(new), ok)
  /\ Spend(~ok)
  /\ IF ok
     THEN /\ recall' = recall \cup (core.items \ OwnItems(session))
          /\ flow' = [flow EXCEPT !.same = @ /\ flow.phase # "get"]
          /\ waiter' = IF Schedulable(core', FALSE, auto) THEN "Automatic" ELSE None
          /\ overtaken' = IF RestorePlace = "none" THEN overtaken ELSE RestorePlace
          /\ view' = Derived(core', FALSE, session)
     ELSE UNCHANGED <<recall, flow, waiter, overtaken, view>>
  /\ UNCHANGED <<auto, session, lease, queue, retry, serverVars, approved, agreed>>

\* A delivered reminder is recorded: the store revision moves, the tasks do not.
MarkNotified(ok) ==
  /\ Active /\ core.owner = session /\ core.items # {}
  /\ Commit(core, ok)
  /\ Spend(~ok)
  /\ flow' = [flow EXCEPT !.same = @ /\ (ok => flow.phase # "get")]
  /\ UNCHANGED <<auto, session, lease, queue, waiter, retry, view, recall,
                 serverVars, approved, agreed, overtaken>>

\* system_save_now: write the committed state again.
SaveNow(ok) ==
  /\ Commit(core, ok)
  /\ Spend(~ok)
  /\ UNCHANGED <<auto, session, lease, flow, queue, waiter, retry, view,
                 recall, serverVars, approved, agreed, overtaken>>

\* settings.automatic_sync: switching off drops the waiter, switching on schedules.
SetAutomatic(on) ==
  /\ auto # on
  /\ auto' = on
  /\ waiter' = IF ~on THEN None
               ELSE IF Active /\ Schedulable(core, saveFailed, on) THEN "Automatic"
               ELSE waiter
  /\ UNCHANGED <<core, saveFailed, session, lease, flow, queue, retry, view,
                 recall, serverVars, auxVars>>

-----------------------------------------------------------------------------
(* Requests of the user and of the retry driver *)

Flush ==
  /\ Active /\ Cardinality(queue) < MaxQueue
  /\ waiter' = None
  /\ queue' = queue \cup {"Manual"}
  /\ UNCHANGED <<core, saveFailed, auto, session, lease, flow, retry, view,
                 recall, serverVars, auxVars>>

RestoreFromCloud ==
  /\ Active /\ Cardinality(queue) < MaxQueue
  /\ waiter' = None
  /\ queue' = queue \cup {"Restore"}
  /\ overtaken' = "none"
  /\ UNCHANGED <<core, saveFailed, auto, session, lease, flow, retry, view,
                 recall, serverVars, approved, agreed, faults>>

RetryTick ==
  /\ Active /\ auto /\ ~saveFailed /\ retry # None
  /\ waiter' = retry
  /\ retry' = None
  /\ UNCHANGED <<core, saveFailed, auto, session, lease, flow, queue, view,
                 recall, serverVars, auxVars>>

DeferConflict ==
  /\ Active /\ PendingFor(core, session)
  /\ view' = Derived(core, saveFailed, session)
  /\ UNCHANGED <<core, saveFailed, auto, session, lease, flow, queue, waiter, retry,
                 recall, serverVars, auxVars>>

\* verify_choice: the user answers about exactly the candidate that is pending.
VerifyChoice == Active /\ ReadyConflict(core, session)

Resolved(items, dirty) ==
  [core EXCEPT !.items = items, !.owner = session, !.known = core.pending.cloud,
               !.dirty = dirty, !.pending = None, !.uncertain = "none"]

\* What both choices do once saved: the running operation is superseded.
AfterChoice(ok, intents) ==
  IF ok
  THEN /\ Approve(session, core.pending.cloud)
       /\ flow' = [flow EXCEPT !.ctx = IF @ = "live" THEN "superseded" ELSE @]
       /\ waiter' = None
       /\ retry' = None
       /\ queue' = queue \cup intents
       /\ view' = Derived(core', FALSE, session)
  ELSE UNCHANGED <<approved, flow, waiter, retry, queue, view>>

\* A failed archive of another owner's data leaves everything as it is.
ChooseLocal(ok) ==
  /\ VerifyChoice
  /\ Commit(Resolved(core.items, TRUE), ok)
  /\ Spend(~ok)
  /\ AfterChoice(ok, {"ConfirmLocal"})
  /\ agreed' = IF ok THEN [agreed EXCEPT ![session] = @ \cup core.items \cup recall]
              ELSE agreed
  /\ UNCHANGED <<auto, session, lease, recall, serverVars, overtaken>>

ChooseCloud(ok) ==
  /\ VerifyChoice
  /\ Commit(Resolved(Snapshot(session, core.pending.cloud), FALSE), ok)
  /\ Spend(~ok)
  /\ AfterChoice(ok, {})
  /\ recall' = IF ok THEN {} ELSE recall
  /\ UNCHANGED <<auto, session, lease, serverVars, agreed, overtaken>>

-----------------------------------------------------------------------------
(* Sessions and restarts *)

\* What every end of a session does; the flow keeps push_lock until it returns.
EndSession(state) ==
  /\ session' = None /\ lease' = FALSE
  /\ queue' = {} /\ waiter' = None /\ retry' = None
  /\ recall' = {}
  /\ view' = state
  /\ UNCHANGED <<core, saveFailed, auto, serverVars, approved, agreed>>

Login(a) ==
  /\ session = None
  /\ session' = a /\ lease' = TRUE
  /\ queue' = {"Bootstrap"}
  /\ recall' = {}
  /\ view' = Derived(core, saveFailed, a)
  /\ UNCHANGED <<core, saveFailed, auto, flow, waiter, retry, serverVars, auxVars>>

Logout ==
  /\ session # None
  /\ EndSession("idle")
  /\ flow' = [flow EXCEPT !.ctx = IF @ = "none" THEN @ ELSE "orphan"]
  /\ overtaken' = "none"
  /\ UNCHANGED faults

\* The refresh token was rejected: the lease dies before the session is closed.
\* Where a failed authentication leaves the lease alive, a Restore first records a blind
\* conflict (engine.rs:564-567): a state that RequestFails and the end of the session reach.
AuthRejected ==
  /\ flow.phase \in {"get", "fetch", "put"} /\ flow.reply = None
  /\ flow.ctx # "orphan" /\ lease
  /\ lease' = FALSE
  /\ flow' = [flow EXCEPT !.phase = "lost"]
  /\ Spend(TRUE)
  /\ UNCHANGED <<core, saveFailed, auto, session, queue, waiter, retry, view,
                 recall, serverVars, approved, agreed, overtaken>>

LoseSession ==
  /\ flow.phase = "lost" /\ flow.ctx # "orphan"
  /\ EndSession("unauthorized")
  /\ flow' = Idle
  /\ overtaken' = "none"
  /\ UNCHANGED faults

\* A PUT the client stops waiting for may be lost or still reach the server.  One
\* whose base is overtaken would only be refused, so it need not travel.
Unanswered == flow.phase = "put" /\ flow.reply = None
Request    == [acct |-> flow.acct, base |-> flow.base, items |-> flow.items]

Abandon(late) ==
  /\ late => /\ Unanswered /\ flow.base = Version(flow.acct)
             /\ Cardinality(wire) < MaxLate
  /\ wire' = IF late THEN wire \cup {Request} ELSE wire

\* The process dies and starts again; `keep`: the stored session is restored.
Restart(keep, late) ==
  /\ keep => Active
  /\ Spend(TRUE)
  /\ Abandon(late)
  /\ session' = IF keep THEN session ELSE None
  /\ lease' = keep
  /\ queue' = IF keep THEN {"Bootstrap"} ELSE {}
  /\ waiter' = None /\ retry' = None /\ recall' = {}
  /\ flow' = Idle /\ overtaken' = "none"
  /\ saveFailed' = FALSE
  /\ view' = Derived(core, FALSE, session')
  /\ UNCHANGED <<core, auto, cloud, approved, agreed>>

-----------------------------------------------------------------------------
(* Network flows, one at a time under push_lock *)

LiveBug == flow.ctx # "superseded"

\* SessionContext::live: neither the session nor the operation was overtaken.
Live == flow.ctx = "live"

Takes(intent) ==
  \/ /\ intent \in queue
     /\ queue' = queue \ {intent}
     /\ UNCHANGED waiter
  \/ /\ waiter = intent
     /\ waiter' = None
     /\ UNCHANGED queue

GetFirst(intent) ==
  \/ intent \in {"Bootstrap", "Restore"}
  \/ core.owner # session
  \/ core.known = None
  \/ core.pending # None
  \/ core.uncertain # "none"
  \/ intent = "Manual" /\ ~core.dirty

Refused(intent) == saveFailed \/ (intent = "Automatic" /\ ~auto)
Blocked(intent) == ReadyConflict(core, session) /\ intent # "Restore"

\* run_flow up to its first request.
StartFlow(intent) ==
  /\ flow.phase = "idle" /\ Active
  /\ Takes(intent)
  /\ IF Refused(intent)
     THEN /\ ForgetOvertaken(intent, queue')
          /\ UNCHANGED <<flow, view, retry>>
     ELSE IF Blocked(intent)
     THEN /\ view' = Derived(core, saveFailed, session)
          /\ UNCHANGED <<flow, retry, overtaken>>
     ELSE /\ flow' = [Idle EXCEPT !.phase = IF GetFirst(intent) THEN "get" ELSE "upload",
                                  !.intent = intent, !.acct = session, !.ctx = "live"]
          /\ view' = "syncing"
          /\ retry' = None
          /\ UNCHANGED overtaken
  /\ UNCHANGED <<core, saveFailed, auto, session, lease, recall, serverVars,
                 approved, agreed, faults>>

Blank == core.items = {} /\ ~core.dirty

RestoreOnlyBug == "Restore"

\* A Restore gives way to anything committed since its flow started.
RestoreDecision == IF flow.same THEN "Restore" ELSE "Conflict"

Stranger == core.owner # flow.acct

Disputed == PendingFor(core, flow.acct)

NoBaseBug(remote) == IF Blank THEN "Restore" ELSE "Upload"

\* No confirmed baseline yet.
NoBase(remote) ==
  IF Blank THEN "Restore" ELSE IF remote = {} THEN "Upload" ELSE "Conflict"

SameSnapshot(remote) == core.items = remote

\* The server still holds the confirmed baseline.
OnBase(remote) ==
  IF core.dirty THEN "Upload" ELSE IF SameSnapshot(remote) THEN "Mark" ELSE "Conflict"

\* decide: what a GET that returned version v means for the local store.
Decision(v) ==
  LET remote == Snapshot(flow.acct, v)
      Adopt  == IF Blank THEN "Restore" ELSE "Conflict"
  IN IF flow.intent = "Restore"           THEN RestoreDecision
     ELSE IF Disputed                     THEN "Conflict"
     ELSE IF Stranger                     THEN Adopt
     ELSE IF ~flow.same /\ remote # {}    THEN "Conflict"
     ELSE IF core.known = None            THEN NoBase(remote)
     ELSE IF core.known = v               THEN OnBase(remote)
     ELSE Adopt

\* A conflict of the flow's account over candidate v (None: still to be fetched).
PendingWith(v) == [core EXCEPT !.pending = [owner |-> flow.acct, cloud |-> v],
                               !.uncertain = "none"]

Arbitrated(d, v) ==
  CASE d = "Conflict" -> PendingWith(v)
    [] d = "Restore"  -> [core EXCEPT !.items = Snapshot(flow.acct, v), !.owner = flow.acct,
                                      !.known = v, !.dirty = FALSE, !.pending = None,
                                      !.uncertain = "none"]
    [] d = "Mark"     -> [core EXCEPT !.known = v, !.uncertain = "none"]
    [] d = "Upload"   -> [core EXCEPT !.known = v, !.dirty = TRUE, !.uncertain = "none"]

\* The GET of run_flow returned: decide and commit under the locks.
Arbitrate(ok) ==
  /\ flow.phase = "get" /\ flow.reply # None /\ Live
  /\ LET v == flow.reply.version
         d == Decision(v)
     IN /\ Commit(Arbitrated(d, v), ok)
        /\ view' = Derived(core', saveFailed', session)
        /\ IF ok /\ d = "Upload"
           THEN /\ flow' = [flow EXCEPT !.phase = "upload", !.reply = None, !.same = TRUE]
                /\ UNCHANGED overtaken
           ELSE EndFlow
        /\ retry' = IF ok /\ d # "Upload" THEN None ELSE retry
        /\ recall' = IF ok /\ d = "Restore" THEN {} ELSE recall
        /\ IF ok /\ d = "Restore" THEN Approve(flow.acct, v) ELSE UNCHANGED approved
  /\ Spend(~ok)
  /\ UNCHANGED <<auto, session, lease, queue, waiter, serverVars, agreed>>

\* archive_if_foreign failed before a restore: the flow ends and shows it.
ArchiveFails ==
  /\ flow.phase = "get" /\ flow.reply # None /\ Live
  /\ Decision(flow.reply.version) = "Restore" /\ Foreign(flow.acct)
  /\ view' = "failed"
  /\ EndFlow
  /\ Spend(TRUE)
  /\ UNCHANGED <<core, saveFailed, auto, session, lease, queue, waiter, retry,
                 recall, serverVars, approved, agreed>>

CanUpload == flow.intent \in {"Manual", "ConfirmLocal"} \/ (flow.intent # "Restore" /\ auto)

UnconfirmedBug == core.owner # flow.acct \/ core.uncertain # "none"

Unconfirmed == core.owner # flow.acct \/ core.pending # None \/ core.uncertain # "none"

\* upload up to the PUT: the marker is durable before the request leaves.
Upload(ok) ==
  /\ flow.phase = "upload" /\ Live
  /\ IF Unconfirmed \/ saveFailed \/ (CanUpload /\ core.dirty /\ core.known = None)
     THEN EndFlow /\ ok /\ UNCHANGED <<core, saveFailed, view>>
     ELSE IF ~CanUpload \/ ~core.dirty
     THEN /\ EndFlow /\ ok
          /\ view' = Derived(core, saveFailed, session)
          /\ UNCHANGED <<core, saveFailed>>
     ELSE /\ Commit([core EXCEPT !.uncertain = "exact"], ok)
          /\ view' = IF ok THEN "syncing" ELSE "failed"
          /\ IF ok
             THEN /\ flow' = [flow EXCEPT !.phase = "put", !.base = core.known,
                                          !.items = core.items]
                  /\ UNCHANGED overtaken
             ELSE EndFlow
  /\ Spend(~ok)
  /\ UNCHANGED <<auto, session, lease, queue, waiter, retry, recall, serverVars,
                 approved, agreed>>

\* acknowledge: only edits the PUT carried become clean.
Acknowledge(ok) ==
  /\ flow.phase = "put" /\ flow.reply # None /\ Live
  /\ flow.reply.ok
  /\ IF core.owner = flow.acct /\ core.uncertain # "none"
     THEN /\ Commit([core EXCEPT !.known = flow.reply.version, !.uncertain = "none",
                                 !.dirty = @ /\ core.uncertain = "outdated"], ok)
          /\ view' = Derived(core', saveFailed', session)
          /\ retry' = IF ok THEN None ELSE retry
     ELSE ok /\ UNCHANGED <<core, saveFailed, view, retry>>
  /\ EndFlow
  /\ Spend(~ok)
  /\ UNCHANGED <<auto, session, lease, queue, waiter, recall, serverVars,
                 approved, agreed>>

Blind == PendingWith(None)

\* 409: block every upload durably before the candidate is fetched.
MarkNeedsCandidate(ok) ==
  /\ flow.phase = "put" /\ flow.reply # None /\ Live
  /\ ~flow.reply.ok
  /\ Commit(Blind, ok)
  /\ view' = Derived(core', saveFailed', session)
  /\ IF ok
     THEN /\ flow' = [flow EXCEPT !.phase = "fetch", !.reply = None]
          /\ UNCHANGED overtaken
     ELSE EndFlow
  /\ Spend(~ok)
  /\ UNCHANGED <<auto, session, lease, queue, waiter, retry, recall, serverVars,
                 approved, agreed>>

StoreCandidate(ok) ==
  /\ flow.phase = "fetch" /\ flow.reply # None /\ Live
  /\ Commit(PendingWith(flow.reply.version), ok)
  /\ view' = Derived(core', saveFailed', session)
  /\ retry' = IF ok THEN None ELSE retry
  /\ EndFlow
  /\ Spend(~ok)
  /\ UNCHANGED <<auto, session, lease, queue, waiter, recall, serverVars,
                 approved, agreed>>

RetryActionBug == IF flow.phase = "get" /\ flow.intent = "Bootstrap"
                  THEN "Bootstrap" ELSE retry

RetryAction == IF flow.phase = "get" /\ flow.intent = "Bootstrap"
               THEN "Bootstrap" ELSE "Automatic"

FailedViewBug == IF PendingFor(core', flow.acct) THEN "conflict" ELSE view

FailedView == IF PendingFor(core', flow.acct) THEN "conflict" ELSE "failed"

\* fail: a request of a live flow failed without an answer the client can use.
RequestFails(ok, late) ==
  /\ flow.phase \in {"get", "fetch", "put"} /\ Live
  /\ IF flow.phase = "get" /\ flow.intent = "Restore"
     THEN Commit(Blind, ok)
     ELSE ok /\ UNCHANGED <<core, saveFailed>>
  /\ view' = FailedView
  /\ retry' = RetryAction
  /\ Abandon(late)
  /\ EndFlow
  /\ Spend(TRUE)
  /\ UNCHANGED <<auto, session, lease, queue, waiter, recall, cloud, approved, agreed>>

\* Whatever comes back to a flow whose session or operation is over is dropped.
DropFlow(late) ==
  /\ \/ flow.ctx = "orphan"
     \/ flow.ctx = "superseded" /\ flow.phase # "lost"
  /\ Abandon(late)
  /\ EndFlow
  /\ UNCHANGED <<core, saveFailed, auto, session, lease, queue, waiter, retry, view,
                 recall, cloud, approved, agreed, faults>>

-----------------------------------------------------------------------------
(* The server: one versioned snapshot per account, written under a base version *)

Answer(reply) == flow' = [flow EXCEPT !.reply = reply]

AnswerGet ==
  /\ flow.phase \in {"get", "fetch"} /\ flow.reply = None /\ Live
  /\ Answer([ok |-> TRUE, version |-> Version(flow.acct)])
  /\ UNCHANGED <<core, saveFailed, auto, session, lease, queue, waiter, retry, view,
                 recall, serverVars, auxVars>>

Write(a, items) == /\ Version(a) < MaxVersion
                   /\ cloud' = [cloud EXCEPT ![a] = Append(@, items)]

\* The server accepts a PUT only over the version it names.
Apply(m) ==
  IF m.base = Version(m.acct)
  THEN /\ Write(m.acct, m.items)
       /\ approved' = approved \cup {m.acct}
  ELSE UNCHANGED <<cloud, approved>>

AnswerPut ==
  /\ Unanswered
  /\ Apply(Request)
  /\ Answer([ok |-> Request.base = Version(flow.acct),
             version |-> Version(flow.acct) + 1])
  /\ UNCHANGED <<core, saveFailed, auto, session, lease, queue, waiter, retry, view,
                 recall, wire, agreed, overtaken, faults>>

LatePut(m) ==
  /\ wire' = wire \ {m}
  /\ Apply(m)
  /\ UNCHANGED <<core, saveFailed, auto, session, lease, flow, queue, waiter, retry,
                 view, recall, agreed, overtaken, faults>>

\* Another device of account a writes a snapshot.
RemoteWrite(a, items) ==
  /\ items \subseteq OwnItems(a) \cup Snapshot(a, Version(a))
  /\ Write(a, items)
  /\ approved' = approved \ {a}
  /\ UNCHANGED <<core, saveFailed, auto, session, lease, flow, queue, waiter, retry,
                 view, recall, wire, agreed, overtaken, faults>>

-----------------------------------------------------------------------------
(* Specification *)

\* A fresh installation, or an import of tasks that no account owns yet.
Init ==
  /\ \E imported \in SUBSET OwnItems(None) :
       core = [items |-> imported, owner |-> None, known |-> None,
               dirty |-> imported # {}, pending |-> None, uncertain |-> "none"]
  /\ saveFailed = FALSE /\ auto = TRUE
  /\ session = None /\ lease = FALSE
  /\ flow = Idle /\ queue = {} /\ waiter = None /\ retry = None
  /\ view = "idle"  /\ recall = {}
  /\ cloud = [a \in Accounts |-> <<>>] /\ wire = {}
  /\ approved = Accounts /\ agreed = [a \in Accounts |-> {}]
  /\ overtaken = "none" /\ faults = 0

Local ==
  \/ \E new \in SUBSET Items, ok \in BOOLEAN : Edit(new, ok)
  \/ \E ok \in BOOLEAN : MarkNotified(ok) \/ SaveNow(ok)
  \/ \E on \in BOOLEAN : SetAutomatic(on)
  \/ Flush \/ RestoreFromCloud \/ RetryTick \/ DeferConflict
  \/ \E ok \in BOOLEAN : ChooseLocal(ok) \/ ChooseCloud(ok)

Sessions ==
  \/ \E a \in Accounts : Login(a)
  \/ Logout \/ AuthRejected \/ LoseSession
  \/ \E keep, late \in BOOLEAN : Restart(keep, late)

Flows ==
  \/ \E intent \in Intents : StartFlow(intent)
  \/ \E ok \in BOOLEAN : \/ Arbitrate(ok) \/ Upload(ok) \/ Acknowledge(ok)
                         \/ MarkNeedsCandidate(ok) \/ StoreCandidate(ok)
  \/ ArchiveFails
  \/ \E ok, late \in BOOLEAN : RequestFails(ok, late)
  \/ \E late \in BOOLEAN : DropFlow(late)

Server ==
  \/ AnswerGet \/ AnswerPut
  \/ \E m \in wire : LatePut(m)
  \/ \E a \in Accounts, items \in SUBSET Items : RemoteWrite(a, items)

Next == Local \/ Sessions \/ Flows \/ Server

Spec == Init /\ [][Next]_vars

\* The runtime polls every spawned task, the HTTP client gives up after its
\* timeout, and the retry driver ticks every second.
Fairness == /\ WF_vars(Flows \/ AnswerGet \/ AnswerPut \/ LoseSession)
            /\ WF_vars(RetryTick)

-----------------------------------------------------------------------------
(* Properties *)

\* Every variable keeps its type, and nothing that belongs to a session outlives
\* it (EngineInner::bump_session).
TypeOK ==
  /\ core \in Cores
  /\ saveFailed \in BOOLEAN /\ auto \in BOOLEAN /\ lease \in BOOLEAN
  /\ session \in Accounts \cup {None}
  /\ flow \in FlowStates
  /\ queue \subseteq Intents
  /\ waiter \in {"Automatic", "Bootstrap", None}
  /\ retry \in {"Automatic", "Bootstrap", None}
  /\ view \in Views
  /\ recall \subseteq Items
  /\ cloud \in [Accounts -> Seq(SUBSET Items)]
  /\ wire \subseteq Puts
  /\ approved \subseteq Accounts
  /\ agreed \in [Accounts -> SUBSET Items]
  /\ overtaken \in {"none", "queued", "running"}
  /\ faults \in 0 .. MaxFaults
  /\ session = None => ~lease /\ queue = {} /\ waiter = None /\ retry = None

\* PUTs that the server may still apply.
Outstanding == wire \cup (IF Unanswered THEN {Request} ELSE {})

\* dirty = false is a promise: the local tasks are exactly the snapshot the
\* server holds under the confirmed baseline (acknowledge, decide, choose_cloud).
CleanMeansSynced ==
  core.known # None /\ ~core.dirty =>
    /\ core.owner # None /\ core.known <= Version(core.owner)
    /\ core.items = Snapshot(core.owner, core.known)

\* A PUT travels only under its durable marker: until its reply is handled no
\* commit of another task may touch the owner, the baseline or the conflict, and
\* an unchanged marker still describes the tasks that were sent (upload,
\* acknowledge and every commit that can run in between).
UploadIsMarked ==
  flow.phase = "put" /\ Live =>
    /\ core.owner = flow.acct /\ core.known = flow.base /\ core.pending = None
    /\ core.uncertain # "none" /\ core.dirty
    /\ core.uncertain = "exact" => core.items = flow.items

\* A PUT that could still be applied only replaces a snapshot this device wrote,
\* adopted, found empty, or that the user agreed to replace: no reply, retry,
\* crash or choice makes the device overwrite another device's snapshot unseen.
NoBlindOverwrite ==
  \A m \in Outstanding : Version(m.acct) = m.base =>
    m.acct \in approved \/ Snapshot(m.acct, m.base) = {}

\* Tasks created under one account reach another account's cloud only after the
\* user chose the local copy there (belongs_to, claim and choose_local).
NoForeignUpload ==
  \A m \in Outstanding : m.items \subseteq OwnItems(m.acct) \cup agreed[m.acct]

\* The user is told "synced" only while the tasks on screen are the confirmed
\* snapshot of the account logged in, whichever task refreshed the view last.
SyncedIsTrue ==
  view = "synced" => /\ session # None /\ core.owner = session /\ core.known # None
                     /\ ~core.dirty /\ ~PendingFor(core, session)
                     /\ core.items = Snapshot(session, core.known)

\* Unsynced edits become clean only by being uploaded as they are, by the user
\* choosing the cloud copy, or by a Restore the user asked for and has not
\* overtaken with new edits while its request was running (decide, choose_cloud).
EditsSurvive ==
  [][core.dirty /\ ~core'.dirty =>
       \/ core'.items = core.items
       \/ ChooseCloud(TRUE)
       \/ flow.intent = "Restore" /\ overtaken # "running"]_vars

\* The store changes hands, and a conflict is recorded, only in the name of the
\* account logged in at that moment: what a task of an ended session brings back
\* is never committed (SessionContext::live under the commit locks).
CommitsFollowSession ==
  [][/\ core'.owner # core.owner => Active /\ core'.owner = session
     /\ core'.pending \notin {core.pending, None} =>
          Active /\ core'.pending.owner = session]_vars

\* A conflict of an account is settled by nobody but its user: by a choice or by
\* a Restore.  Failed requests, restarts, other accounts and uploads keep it
\* ("409 first saves ...", docs/migration-progress.md:73).
ConflictIsAsked ==
  [][core.pending # None /\ core'.pending = None =>
       \/ ChooseLocal(TRUE) \/ ChooseCloud(TRUE)
       \/ flow.intent = "Restore"
       \/ core.pending.owner # session]_vars

\* Something will act on the edits by itself: a flow that counts, one that waits for
\* push_lock, a debounce, or a retry.
Scheduled == Live \/ queue # {} \/ waiter # None \/ retry # None

\* With a disk that works, edits of the account logged in are never left without
\* a flow that will take them, unless automatic sync is off or a conflict has to be
\* settled first (one of another account holds them for ever, OwnEditsResume).
EditsAreScheduled ==
  core.dirty /\ core.owner = session /\ Active /\ auto =>
    \/ Scheduled
    \/ ReadyConflict(core, session)
    \/ core.pending # None /\ core.pending.owner # session

\* With a disk that works, "syncing" is shown only while a flow is running.
SyncingIsRunning == view = "syncing" => flow.phase # "idle"

\* Why edits may rest without being uploaded.
Excused == \/ ~auto \/ saveFailed \/ session = None
           \/ ReadyConflict(core, session)
           \/ Version(session) = MaxVersion   \* the bound of the model

Background == Flows \/ Server \/ RetryTick \/ LoseSession

\* Once the user rests, edits do not stay behind: they are uploaded, or the user
\* is asked to resolve a conflict (debounce, retry driver, bootstrap, flush).
EditsSettle == <>[][Background]_vars => <>[](core.dirty => Excused)

-----------------------------------------------------------------------------
(* The inductive invariant behind the safety properties (SyncProofs) *)

\* The flow is gone, or belongs to an account and knows whether it still counts.
FlowOK ==
  /\ flow.ctx = "none" => flow.phase = "idle"
  /\ flow.ctx # "none" => flow.phase # "idle" /\ flow.acct # None
  /\ flow.ctx \in {"live", "superseded"} => session = flow.acct
  /\ flow.phase = "upload" => flow.reply = None

\* Version v of account a, once the newest, is one the device may replace.
MayReplace(a, v) == v = Version(a) => a \in approved \/ Snapshot(a, v) = {}

\* A PUT under way names a version that exists and that may be replaced.
PutsOK == \A m \in Outstanding :
            m.base <= Version(m.acct) /\ MayReplace(m.acct, m.base)

\* A reply names a snapshot the server has, and an accepted PUT is that snapshot.
ReplyOK ==
  flow.ctx # "none" /\ flow.reply # None /\ (flow.phase = "put" => flow.reply.ok) =>
    /\ flow.reply.version <= Version(flow.acct)
    /\ flow.phase = "put" =>
         /\ Snapshot(flow.acct, flow.reply.version) = flow.items
         /\ MayReplace(flow.acct, flow.reply.version)

\* The confirmed baseline is a snapshot of the owner, and so is a candidate.
BaselineOK ==
  /\ core.known # None =>
       /\ core.owner # None /\ core.known <= Version(core.owner)
       /\ MayReplace(core.owner, core.known)
  /\ core.pending # None /\ core.pending.cloud # None =>
       core.pending.cloud <= Version(core.pending.owner)

Consistent == /\ TypeOK /\ FlowOK /\ ReplyOK /\ BaselineOK
              /\ CleanMeansSynced /\ UploadIsMarked /\ PutsOK

-----------------------------------------------------------------------------
(* The contract that the engine keeps *)

\* Who may act, and whether a Restore is on that no edit has overtaken.
User   == IF lease THEN session ELSE None
Wished == lease /\ \/ "Restore" \in queue
                   \/ Live /\ flow.intent = "Restore" /\ overtaken # "running"

Shared == INSTANCE Contract WITH
  tasks <- core.items, owner <- core.owner, base <- core.known, dirty <- core.dirty,
  dispute <- core.pending, user <- User, wish <- Wished,
  known <- approved, offers <- Outstanding

\* Requests, retries, crashes and hand-overs are steps of the contract or none:
\* edits leave the device only by an upload of just them, a choice or a Restore,
\* in the name of the account logged in, over snapshots the device knows.
KeepsContract == Shared!Spec

-----------------------------------------------------------------------------
(* What the documents say and the code does not keep *)

\* "Same owner resumes the upload" (README.md:139): edits of the account that is
\* logged in and owns them do not stay behind.
OwnEditsResume ==
  <>[][Background]_vars => <>[](core.dirty /\ core.owner = session => Excused)

\* "New edits during a restore become a candidate and do not get overwritten"
\* (docs/manual.md:81): a Restore replaces no edit made after it was asked for.
RestoreKeepsNewEdits ==
  [][core.dirty /\ ~core'.dirty /\ flow.intent = "Restore" /\ ~ChooseCloud(TRUE) =>
       overtaken = "none"]_vars

=============================================================================
