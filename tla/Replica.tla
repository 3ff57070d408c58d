------------------------------- MODULE Replica -------------------------------
(***************************************************************************)
(* What the window shows of the process.  The process takes a copy of a    *)
(* part of its state under its locks, with the next event revision, and    *)
(* sends it when it has left them: copies travel side by side and may      *)
(* overtake each other.  The window subscribes, asks for everything at     *)
(* once, and merges the answer and the events into its replica, where      *)
(* event revisions and the session decide what is news.  It asks again     *)
(* when the events of a session have reached it only in part.              *)
(*                                                                         *)
(* The engine is reduced to what its view shows (Sync has the rest), the   *)
(* account to being logged in, the tasks to the revision of their store.   *)
(*                                                                         *)
(* A definition whose name ends in Bug is a plausible mistake in the       *)
(* definition that follows it and is used by nothing.                      *)
(***************************************************************************)
EXTENDS Preferences

CONSTANTS
  None,        \* absent value
  MaxUpsets    \* bound: changes of the process, and subscriptions and calls that fail

EngineViews    == [disputed : BOOLEAN, cand : Nat \cup {None}, turn : Nat]
PanelViews     == [cand : Nat \cup {None}, turn : Nat]
PrefsViews     == [revision : Nat, error : BOOLEAN]
AuthStates     == [event : Nat, loggedIn : BOOLEAN]
SyncStates     == [event : Nat, view : EngineViews]
SettingsStates == [event : Nat, prefs : PrefsViews]

ASSUME ReplicaAssumption ==
  /\ None \notin Nat \cup BOOLEAN \cup AuthStates \cup SyncStates \cup PanelViews \cup SettingsStates
  /\ MaxUpsets \in Nat

Channels == {"auth", "snapshot", "sync", "conflict", "settings"}

\* The process.
VARIABLES
  session,   \* session_generation, and whether the session is logged in
  entering,  \* is_authenticating
  revision,  \* revision of the task store
  engine,    \* whether the engine is in conflict, and its candidate
  sequence,  \* event_sequence, counted apart for parts that are never compared
  owed,      \* emissions that tasks of the process have still to make
  flight     \* flight[c]: events of channel c that were sent and have not arrived

\* The window.
VARIABLES
  phase,     \* "subscribing", "asking", "ready", "error" (listeners closed), "stale" (open)
  call,      \* the call of init_state: "none", "asked", "failed", "answered"
  answer,    \* its answer
  replica,   \* the Replica
  settings   \* the SettingsView

\* Auxiliary: turn counts the changes of the engine's view, last the candidates so far.
VARIABLES turn, last, upsets

process == <<session, entering, revision, engine, preferences>>
sending == <<sequence, owed, flight>>
window  == <<phase, call, answer, replica, settings>>
bounds  == <<turn, last, upsets>>
vars    == <<process, sending, window, bounds>>

-----------------------------------------------------------------------------
(* Payloads *)

\* The candidate is compared with the state of the engine.
Parts == {"auth", "snapshot", "sync", "settings"}

PartOf(c) == IF c = "conflict" THEN "sync" ELSE c

AuthView     == session.loggedIn
SnapshotView == revision
SettingsView == prefs'
SyncView     == [disputed |-> engine.disputed, cand |-> engine.cand, turn |-> turn]
ConflictView == [cand |-> engine.cand, turn |-> turn]

\* A copy of the state, taken under the locks with the next revision.
Present ==
  [gen |-> session.gen, event |-> sequence', auth |-> AuthView, snapshot |-> SnapshotView,
   settings |-> SettingsView, sync |-> SyncView, conflict |-> ConflictView]

Copy(all, c) == [gen |-> all.gen, event |-> all.event[PartOf(c)], data |-> all[c]]

Stamp(ps) == sequence' = [p \in Parts |-> IF p \in ps THEN sequence[p] + 1 ELSE sequence[p]]

Send(cs) ==
  flight' = [c \in Channels |-> IF c \in cs THEN flight[c] \cup {Copy(Present, c)} ELSE flight[c]]

-----------------------------------------------------------------------------
(* Changes of the process *)

Change == upsets < MaxUpsets /\ upsets' = upsets + 1 /\ UNCHANGED window

Owe(cs) == owed' = owed \cup cs /\ UNCHANGED <<sequence, flight>>

Quiet == [disputed |-> FALSE, cand |-> None]

\* What the engine may show next: a conflict may lack a candidate, and a candidate is
\* kept while a restore is under way.
Shown(cand) == [disputed : BOOLEAN, cand : {cand, None}]

\* mutate_core: tasks change only while somebody is logged in.
Edit ==
  /\ Change /\ session.loggedIn
  /\ revision' = revision + 1
  /\ Owe({"snapshot", "sync"})
  /\ UNCHANGED <<session, entering, engine, preferences, turn, last>>

\* A flow or a choice moves the engine on, with or without other tasks.
Progress ==
  /\ Change /\ session.loggedIn
  /\ turn' = turn + 1
  /\ \/ /\ engine' \in Shown(engine.cand) \ {engine}
        /\ UNCHANGED last
     \/ last' = last + 1 /\ engine' = [disputed |-> TRUE, cand |-> last']
  /\ \/ revision' = revision /\ Owe({"sync"})
     \/ revision' = revision + 1 /\ Owe({"snapshot", "sync"})
  /\ UNCHANGED <<session, entering, preferences>>

\* A session may begin with a conflict that an earlier one has left behind.
Begun(loggedIn, known) ==
  {Quiet} \cup IF loggedIn THEN [disputed : {TRUE}, cand : 1 .. known + 1] ELSE {}

\* bump_session, refresh_view
Begins(loggedIn) ==
  /\ session' = [gen |-> session.gen + 1, loggedIn |-> loggedIn]
  /\ engine' \in Begun(loggedIn, last)
  /\ last' = IF engine'.cand = last + 1 THEN last + 1 ELSE last
  /\ turn' = turn + 1
  /\ UNCHANGED <<revision, preferences>>

\* authenticate, until the request is sent.  When the old credentials cannot be
\* revoked, the session has ended all the same.
BeginLogin(ok) ==
  /\ Change /\ ~session.loggedIn /\ ~entering
  /\ Begins(FALSE)
  /\ entering' = ok
  /\ Owe({"auth"})

\* Its answer, unless another session has begun since.
EndLogin(ok) ==
  /\ Change /\ entering
  /\ Begins(ok)
  /\ entering' = FALSE
  /\ Owe({"auth", "snapshot", "sync"})

\* reset: the user logs out, or the session is lost.
Reset ==
  /\ Change
  /\ Begins(FALSE)
  /\ entering' = FALSE
  /\ Owe({"auth", "snapshot", "sync"})

\* The view of a change of the preferences is taken in the same critical section.
ChangePreferences(failing) ==
  /\ Change
  /\ CommitPreferences(failing)
  /\ Stamp({"settings"}) /\ Send({"settings"})
  /\ UNCHANGED <<session, entering, revision, engine, owed, turn, last>>

\* emit_auth, emit_snapshot, emit_sync_state, emit_current.  The candidate is sent
\* with the state of the engine.
With(c) == IF c = "sync" /\ engine.cand # None THEN {"sync", "conflict"} ELSE {c}

Emit(c) ==
  /\ c \in owed
  /\ owed' = owed \ {c}
  /\ UNCHANGED <<process, window, bounds>>
  /\ Stamp({c}) /\ Send(With(c))

-----------------------------------------------------------------------------
(* mergeReplica *)

NoTasks == [event |-> 0, revision |-> 0]

EmptyReplica(gen) ==
  [gen |-> gen, snapshot |-> NoTasks, auth |-> None, sync |-> None, conflict |-> None, mark |-> 0]

Later(event, old) == old = None \/ event > old.event

\* mergeSnapshot
Newer(m, old) == m.event > old.event /\ m.data >= old.revision

WithSnapshot(r, m) ==
  IF Newer(m, r.snapshot)
  THEN [r EXCEPT !.snapshot = [event |-> m.event, revision |-> m.data]] ELSE r

WithAuth(r, m) ==
  IF Later(m.event, r.auth)
  THEN [r EXCEPT !.auth = [event |-> m.event, loggedIn |-> m.data]] ELSE r

\* The state of the engine closes a panel of another candidate, or of none.
Closes(r, m) ==
  /\ m.event >= r.mark
  /\ ~m.data.disputed \/ r.conflict = None \/ r.conflict.cand # m.data.cand

MergedSync(r, m) ==
  [r EXCEPT !.sync = [event |-> m.event, view |-> m.data],
            !.conflict = IF Closes(r, m) THEN None ELSE @,
            !.mark = IF m.event > @ THEN m.event ELSE @]

IsNewsBug(m, r) == TRUE

IsNews(m, r) == Later(m.event, r.sync)

WithSync(r, m) == IF IsNews(m, r) THEN MergedSync(r, m) ELSE r

\* A candidate that is late does not open the panel again.
OpensBug(r, m) == r.auth # None => r.auth.loggedIn

OpensAfterBug(r, m) ==
  /\ r.auth # None => r.auth.loggedIn
  /\ m.event > r.mark

Opens(r, m) ==
  /\ r.auth # None => r.auth.loggedIn
  /\ m.event >= r.mark
  /\ r.sync # None /\ r.sync.event = m.event =>
       r.sync.view.disputed /\ r.sync.view.cand = m.data.cand

WithConflict(r, m) ==
  IF Opens(r, m)
  THEN [r EXCEPT !.conflict = m.data, !.mark = m.event] ELSE r

\* Events of an earlier session are dropped; a later one begins with nothing.
Merged(r, c, m) ==
  LET s == IF m.gen > r.gen THEN EmptyReplica(m.gen) ELSE r
      t == CASE c = "snapshot" -> WithSnapshot(s, m)
             [] c = "auth"     -> WithAuth(s, m)
             [] c = "sync"     -> WithSync(s, m)
             [] c = "conflict" -> WithConflict(s, m)
  IN  IF m.gen < r.gen THEN r ELSE t

MergedSettings(s, m) == IF Later(m.event, s) THEN [event |-> m.event, prefs |-> m.data] ELSE s

\* applyStartup
Applied(r, all) ==
  LET auth     == Merged(r, "auth", Copy(all, "auth"))
      snapshot == Merged(auth, "snapshot", Copy(all, "snapshot"))
      sync     == Merged(snapshot, "sync", Copy(all, "sync"))
  IN  IF all.conflict.cand = None THEN sync ELSE Merged(sync, "conflict", Copy(all, "conflict"))

-----------------------------------------------------------------------------
(* The window *)

Fault(ok) == /\ ~ok => upsets < MaxUpsets
             /\ upsets' = IF ok THEN upsets ELSE upsets + 1
             /\ UNCHANGED <<process, turn, last>>

\* All listeners are there, or one could not be registered and all are closed.  What
\* came in the meantime and found no listener is lost.
Events == UNION {{c} \X flight[c] : c \in Channels}

Without(lost) == [c \in Channels |-> {m \in flight[c] : <<c, m>> \notin lost}]

Subscribe(ok) ==
  /\ phase = "subscribing" /\ Fault(ok)
  /\ IF ok THEN /\ phase' = "asking" /\ call' = "asked"
                /\ \E lost \in SUBSET Events : flight' = Without(lost)
           ELSE /\ phase' = "error"
                /\ UNCHANGED <<call, flight>>
  /\ UNCHANGED <<sequence, owed, answer, replica, settings>>

\* init_state
Answer(ok) ==
  /\ call = "asked" /\ Fault(ok)
  /\ IF ok THEN Stamp(Parts) /\ call' = "answered" /\ answer' = Present
           ELSE call' = "failed" /\ UNCHANGED <<sequence, answer>>
  /\ UNCHANGED <<owed, flight, phase, replica, settings>>

Apply ==
  /\ call = "answered"
  /\ replica' = Applied(replica, answer)
  /\ settings' = MergedSettings(settings, Copy(answer, "settings"))
  /\ phase' = "ready" /\ call' = "none" /\ answer' = None
  /\ UNCHANGED <<process, sending, bounds>>

FailBug ==
  /\ call = "failed"
  /\ phase' = IF phase = "asking" THEN phase ELSE "stale"
  /\ call' = "none"
  /\ UNCHANGED <<process, sending, answer, replica, settings, bounds>>

\* A failed start closes the listeners, a failed repair does not.
Fail ==
  /\ call = "failed"
  /\ phase' = IF phase = "asking" THEN "error" ELSE "stale"
  /\ call' = "none"
  /\ UNCHANGED <<process, sending, answer, replica, settings, bounds>>

\* The user starts again.
Retry ==
  /\ phase \in {"error", "stale"}
  /\ phase' = "subscribing"
  /\ UNCHANGED <<process, sending, call, answer, replica, settings, bounds>>

\* Nothing is known of the account of this session: everything is asked for again.
Repair ==
  /\ phase = "ready" /\ replica.auth = None /\ call = "none"
  /\ call' = "asked"
  /\ UNCHANGED <<process, sending, phase, answer, replica, settings, bounds>>

\* An event finds its listener.  An answer that was asked for to repair a session is
\* not waited for when the session, or its account, is news.
Deliver(c, m) ==
  /\ phase # "error"
  /\ flight' = [flight EXCEPT ![c] = @ \ {m}]
  /\ replica' = IF c = "settings" THEN replica ELSE Merged(replica, c, m)
  /\ settings' = IF c = "settings" THEN MergedSettings(settings, m) ELSE settings
  /\ IF phase = "ready" /\ (replica'.gen # replica.gen \/ replica'.auth # None)
     THEN call' = "none" /\ answer' = None
     ELSE UNCHANGED <<call, answer>>
  /\ UNCHANGED <<process, sequence, owed, phase, bounds>>

-----------------------------------------------------------------------------

Init ==
  /\ session \in [gen : {1}, loggedIn : BOOLEAN] /\ entering = FALSE
  /\ revision = 1 /\ engine \in Begun(session.loggedIn, 0)
  /\ last = IF engine = Quiet THEN 0 ELSE 1
  /\ file \in Found /\ backup = Absent /\ \E ok \in BOOLEAN : Load(ok)
  /\ sequence = [p \in Parts |-> 0] /\ owed = {}
  /\ flight = [c \in Channels |-> {}]
  /\ phase = "subscribing" /\ call = "none" /\ answer = None /\ replica = EmptyReplica(0) /\ settings = None
  /\ turn = 0 /\ upsets = 0

\* The tasks of the process run, what is sent arrives, and the window goes on; what
\* changes the process, and trying again, is up to others.
Work ==
  \/ \E c \in Channels : Emit(c) \/ \E m \in flight[c] : Deliver(c, m)
  \/ \E ok \in BOOLEAN : Subscribe(ok) \/ Answer(ok)
  \/ Apply \/ Fail \/ Repair

Next ==
  \/ Work
  \/ Edit \/ Progress \/ Reset \/ Retry
  \/ \E ok \in BOOLEAN : BeginLogin(ok) \/ EndLogin(ok)
  \/ \E failing \in Failures : ChangePreferences(failing)

Spec == Init /\ [][Next]_vars

FairSpec == Spec /\ WF_vars(Work)

-----------------------------------------------------------------------------
(* Properties *)

\* What the window shows never goes back to an earlier state of the process, in
\* whatever order answers and events arrive: mergeReplica and mergeSnapshot.
SettingsForward ==
  settings # None =>
    \/ settings'.prefs.revision > settings.prefs.revision
    \/ /\ settings'.prefs.revision = settings.prefs.revision
       /\ settings.prefs.error => settings'.prefs.error

ReplicaForward ==
  \/ replica'.gen > replica.gen
  \/ /\ replica'.gen = replica.gen
     /\ replica'.snapshot.revision >= replica.snapshot.revision
     /\ replica.auth # None => replica'.auth # None
     /\ replica.sync # None => replica'.sync # None /\ replica'.sync.view.turn >= replica.sync.view.turn

NeverBack == [][SettingsForward /\ ReplicaForward]_vars

\* The conflict panel never offers a candidate that is older than the state shown
\* beside it, unless that state is about this candidate.
PanelIsCurrent ==
  replica.conflict # None /\ replica.sync # None =>
    \/ replica.conflict.turn >= replica.sync.view.turn
    \/ replica.sync.view.disputed /\ replica.sync.view.cand = replica.conflict.cand

\* What replaces settings.json was made of what it holds, unless that is nothing or of
\* the old format: preferences that could not be read at the start are not overwritten
\* by defaults, whatever was failing (PreferencesRepo::save).
SettingsAreKept == [][base' # base => file \in {base, Absent, 0}]_vars

\* Once the process rests the window shows its state, however many events were lost
\* before it listened, unless it shows that it could not start.
Panel == IF engine.disputed THEN engine.cand ELSE None

IsCurrent ==
  /\ replica.gen = session.gen
  /\ replica.auth # None /\ replica.auth.loggedIn = session.loggedIn
  /\ session.loggedIn =>
       /\ replica.snapshot.revision = revision
       /\ replica.sync # None /\ replica.sync.view.turn = turn
       /\ Panel = IF replica.conflict = None THEN None ELSE replica.conflict.cand
  /\ settings # None /\ settings.prefs = prefs

\* Nothing that the window has not missed is on its way to it.
AtRest ==
  /\ phase \in {"ready", "stale"}
  /\ owed = {} /\ \A c \in Channels : flight[c] = {}

\* When everything that the process has to say has arrived, the window shows its state,
\* in whatever order it came, and whether or not a repair was tried or failed.
RestIsCurrent == AtRest => IsCurrent

ViewConverges == <>[](phase \in {"error", "stale"} \/ IsCurrent)

=============================================================================
