---------------------------- MODULE ReplicaProofs ----------------------------
(***************************************************************************)
(* What the window shows never goes back, for any number of changes,       *)
(* sessions, losses and any order of arrival.  The argument: event         *)
(* revisions are given out under the lock, so that there is a time line,   *)
(* a function from revisions to what the state was when they were given    *)
(* out, that never decreases; every copy, on the way or merged, lies on    *)
(* it.  A merge that compares revisions thus compares states.              *)
(*                                                                         *)
(* And it misses nothing: when all that was sent has arrived, it shows the *)
(* process.  What is current is, at every moment at which the window hears *)
(* the process, still to be sent, on the way, in the answer or shown       *)
(* (Coming).  A merge drops a copy only for one that is as good: the tasks *)
(* and views of a later revision are later ones (TasksKnown, ViewsKnown),  *)
(* and what the panel has to show arrives in two parts in either order,    *)
(* each of which finds, in the replica or on the way, what it needs of the *)
(* other (PanelComing).  An answer makes up for the events that were lost  *)
(* before it, since those that follow have later revisions.                *)
(***************************************************************************)
EXTENDS Replica, TLAPS

-----------------------------------------------------------------------------
(* Types *)

Engines == [disputed : BOOLEAN, cand : Nat \cup {None}]

Payloads == [auth |-> BOOLEAN, snapshot |-> Nat, sync |-> EngineViews,
             conflict |-> PanelViews, settings |-> PrefsViews]

Messages(c) == [gen : Nat, event : Nat, data : Payloads[c]]

Answers == [gen : Nat, event : [Parts -> Nat], auth : BOOLEAN, snapshot : Nat,
            settings : PrefsViews, sync : EngineViews, conflict : PanelViews]

Replicas == [gen : Nat, snapshot : [event : Nat, revision : Nat],
             auth : AuthStates \cup {None}, sync : SyncStates \cup {None},
             conflict : PanelViews \cup {None}, mark : Nat]

ProcessOK ==
  /\ session \in [gen : Nat, loggedIn : BOOLEAN] /\ revision \in Nat
  /\ engine \in Engines /\ turn \in Nat /\ last \in Nat
  /\ prefs \in PrefsViews /\ file \in PreferencesFiles

SendingOK ==
  /\ sequence \in [Parts -> Nat] /\ owed \subseteq {"auth", "snapshot", "sync"}
  /\ DOMAIN flight = Channels /\ flight = [c \in Channels |-> flight[c]]
  /\ \A c \in Channels : flight[c] \subseteq Messages(c)

WindowOK ==
  /\ call = "answered" => answer \in Answers
  /\ replica \in Replicas /\ settings \in SettingsStates \cup {None}

Types == ProcessOK /\ SendingOK /\ WindowOK

\* Preferences that were read or written are those of the file.
BaseOK == base = file \/ prefs.revision = 0

-----------------------------------------------------------------------------
(* The time lines *)

\* turn of the engine's view, by event revision.
Turns(at, n) ==
  /\ at \in [1 .. n -> Nat]
  /\ \A e, f \in 1 .. n : e <= f => at[e] <= at[f]

\* A replica that was merged of copies that lie on it.
Sound(r, at, n) ==
  /\ r.sync # None =>
       /\ r.sync.event \in 1 .. n /\ r.sync.event <= r.mark
       /\ r.sync.view.turn = at[r.sync.event]
  /\ r.conflict # None =>
       \/ r.mark \in 1 .. n /\ r.conflict.turn = at[r.mark]
       \/ r.sync # None /\ r.mark = r.sync.event
  /\ r.conflict # None /\ r.sync # None =>
       \/ r.conflict.turn >= r.sync.view.turn
       \/ r.sync.view.disputed /\ r.sync.view.cand = r.conflict.cand

OnLine(m, at, n) == m.event \in 1 .. n /\ m.data.turn = at[m.event]

EngineKnown(at) ==
  LET n == sequence["sync"]
  IN  /\ Turns(at, n) /\ \A e \in 1 .. n : at[e] <= turn
      /\ \A m \in flight["sync"] \cup flight["conflict"] : OnLine(m, at, n)
      /\ call = "answered" =>
           /\ OnLine(Copy(answer, "sync"), at, n) /\ OnLine(Copy(answer, "conflict"), at, n)
      /\ Sound(replica, at, n)

\* The preferences, by event revision.
Precedes(p, q) ==
  \/ q.revision > p.revision
  \/ q.revision = p.revision /\ (p.error => q.error)

Edition(told, n) ==
  /\ told \in [1 .. n -> PrefsViews]
  /\ \A e, f \in 1 .. n : e <= f => Precedes(told[e], told[f])

Tells(m, told, n) == m.event \in 1 .. n /\ m.data = told[m.event]

SettingsKnown(told) ==
  LET n == sequence["settings"]
  IN  /\ Edition(told, n) /\ \A e \in 1 .. n : Precedes(told[e], prefs)
      /\ \A m \in flight["settings"] : Tells(m, told, n)
      /\ call = "answered" => Tells(Copy(answer, "settings"), told, n)
      /\ settings # None => settings.event \in 1 .. n /\ settings.prefs = told[settings.event]

Consistent == Types /\ BaseOK /\ (\E at : EngineKnown(at)) /\ (\E told : SettingsKnown(told))

-----------------------------------------------------------------------------
(* Merging *)

\* What the replica may become.
Follows(q, r) ==
  \/ q.gen > r.gen
  \/ /\ q.gen = r.gen /\ q.snapshot.revision >= r.snapshot.revision
     /\ r.auth # None => q.auth # None
     /\ r.sync # None => q.sync # None /\ q.sync.view.turn >= r.sync.view.turn

\* Going forward twice is going forward.
LEMMA FollowsOn ==
  ASSUME NEW p \in Replicas, NEW q \in Replicas, NEW r \in Replicas, Follows(q, p), Follows(r, q)
  PROVE  Follows(r, p)
<1>1. /\ p.gen \in Nat /\ q.gen \in Nat /\ r.gen \in Nat
      /\ p.snapshot.revision \in Nat /\ q.snapshot.revision \in Nat /\ r.snapshot.revision \in Nat
      /\ p.sync # None => p.sync.view.turn \in Nat
      /\ q.sync # None => q.sync.view.turn \in Nat
      /\ r.sync # None => r.sync.view.turn \in Nat
  BY DEF Replicas, SyncStates, EngineViews
<1>2. QED BY <1>1 DEF Follows

\* A new session begins with nothing.
LEMMA EmptyIsSound ==
  ASSUME NEW g \in Nat, NEW at, NEW n
  PROVE  /\ EmptyReplica(g) \in Replicas /\ EmptyReplica(g).gen = g
         /\ Sound(EmptyReplica(g), at, n)
BY DEF EmptyReplica, NoTasks, Replicas, Sound

\* mergeReplica of a view of the engine: the replica stays on the line and goes forward.
LEMMA SyncIsMerged ==
  ASSUME NEW r \in Replicas, NEW m \in Messages("sync"), NEW n \in Nat, NEW at, Turns(at, n),
         Sound(r, at, n), OnLine(m, at, n)
  PROVE  /\ WithSync(r, m) \in Replicas /\ WithSync(r, m).gen = r.gen
         /\ Sound(WithSync(r, m), at, n) /\ Follows(WithSync(r, m), r)
<1>1. /\ r.gen \in Nat /\ r.snapshot.revision \in Nat /\ r.mark \in Nat
      /\ r.sync # None => r.sync \in SyncStates /\ r.sync.event \in Nat /\ r.sync.view.turn \in Nat
      /\ r.conflict # None => r.conflict \in PanelViews /\ r.conflict.turn \in Nat
  BY DEF Replicas, SyncStates, EngineViews, PanelViews
<1>2. /\ m.event \in Nat /\ m.data \in EngineViews /\ m.data.turn \in Nat
      /\ m.event \in 1 .. n /\ m.data.turn = at[m.event]
  BY DEF Messages, Payloads, EngineViews, OnLine
<1>3. CASE ~IsNews(m, r)
  BY <1>1, <1>3 DEF WithSync, Follows
<1>4. CASE IsNews(m, r)
  <2> DEFINE sync == [event |-> m.event, view |-> m.data]
             conflict == IF Closes(r, m) THEN None ELSE r.conflict
             mark == IF m.event > r.mark THEN m.event ELSE r.mark
             q == [r EXCEPT !.sync = sync, !.conflict = conflict, !.mark = mark]
  <2>1. WithSync(r, m) = q
    BY <1>4 DEF WithSync, MergedSync
  <2>2. sync \in SyncStates /\ sync # None /\ sync.event = m.event /\ sync.view = m.data
    BY <1>2, ReplicaAssumption DEF SyncStates
  <2>3. conflict \in PanelViews \cup {None} /\ mark \in Nat
    BY <1>1, <1>2 DEF Replicas
  <2>4. mark >= m.event /\ mark >= r.mark /\ (mark = m.event \/ mark = r.mark)
    BY <1>1, <1>2
  <2>5. conflict # None =>
          /\ conflict = r.conflict
          /\ m.event < r.mark \/ (m.data.disputed /\ r.conflict.cand = m.data.cand)
    BY <1>1, <1>2 DEF Closes
  <2>6. r.sync # None => m.event > r.sync.event
    BY <1>4 DEF IsNews, Later
  <2>7. m.event >= r.mark => mark = m.event
    BY <1>1, <1>2
  <2> HIDE DEF sync, conflict, mark
  <2>8. /\ q \in Replicas /\ q.gen = r.gen /\ q.snapshot = r.snapshot /\ q.auth = r.auth
        /\ q.sync = sync /\ q.conflict = conflict /\ q.mark = mark
    BY <2>2, <2>3 DEF Replicas
  <2> HIDE DEF q
  <2>9. Follows(q, r)
    <3>1. r.sync # None => m.data.turn >= r.sync.view.turn
      BY <1>1, <1>2, <2>6 DEF Sound, Turns
    <3>2. QED BY <1>1, <2>2, <2>8, <3>1 DEF Follows
  <2>10. Sound(q, at, n)
    <3>1. CASE conflict = None
      BY <1>2, <2>2, <2>4, <2>8, <3>1 DEF Sound
    <3>2. CASE conflict # None /\ m.event >= r.mark
      <4>1. mark = m.event /\ conflict = r.conflict
            /\ m.data.disputed /\ m.data.cand = conflict.cand
        BY <1>1, <1>2, <2>5, <2>7, <3>2
      <4>2. QED BY <1>2, <2>2, <2>8, <3>2, <4>1 DEF Sound
    <3>3. CASE conflict # None /\ m.event < r.mark
      <4>1. mark = r.mark /\ conflict = r.conflict
        BY <1>1, <1>2, <2>4, <2>5, <3>3
      <4>2. ~(r.sync # None /\ r.mark = r.sync.event)
        BY <1>1, <1>2, <2>6, <3>3
      <4>3. r.mark \in 1 .. n /\ r.conflict.turn = at[r.mark]
        BY <3>3, <4>1, <4>2 DEF Sound
      <4>4. at[m.event] <= at[r.mark] /\ at[r.mark] \in Nat
        BY <1>1, <1>2, <3>3, <4>3 DEF Turns
      <4>5. conflict.turn >= m.data.turn
        BY <1>2, <4>1, <4>3, <4>4
      <4>6. QED BY <1>2, <2>2, <2>4, <2>8, <4>1, <4>3, <4>5 DEF Sound
    <3>4. QED BY <1>1, <1>2, <3>1, <3>2, <3>3
  <2>11. QED BY <2>1, <2>8, <2>9, <2>10
<1>5. QED BY <1>3, <1>4

\* mergeReplica of a candidate: the panel is as current as the view beside it.
LEMMA ConflictIsMerged ==
  ASSUME NEW r \in Replicas, NEW m \in Messages("conflict"), NEW n \in Nat, NEW at, Turns(at, n),
         Sound(r, at, n), OnLine(m, at, n)
  PROVE  /\ WithConflict(r, m) \in Replicas /\ WithConflict(r, m).gen = r.gen
         /\ Sound(WithConflict(r, m), at, n) /\ Follows(WithConflict(r, m), r)
<1>1. /\ r.gen \in Nat /\ r.snapshot.revision \in Nat /\ r.mark \in Nat
      /\ r.sync # None => r.sync.event \in Nat /\ r.sync.view.turn \in Nat
  BY DEF Replicas, SyncStates, EngineViews
<1>2. /\ m.event \in Nat /\ m.data \in PanelViews
      /\ m.event \in 1 .. n /\ m.data.turn = at[m.event]
  BY DEF Messages, Payloads, OnLine
<1>3. CASE ~Opens(r, m)
  BY <1>1, <1>3 DEF WithConflict, Follows
<1>4. CASE Opens(r, m)
  <2> DEFINE q == [r EXCEPT !.conflict = m.data, !.mark = m.event]
  <2>1. WithConflict(r, m) = q /\ m.event >= r.mark
    BY <1>4 DEF WithConflict, Opens
  <2>2. /\ q \in Replicas /\ q.gen = r.gen /\ q.snapshot = r.snapshot /\ q.auth = r.auth
        /\ q.sync = r.sync /\ q.conflict = m.data /\ q.mark = m.event
    BY <1>2 DEF Replicas
  <2> HIDE DEF q
  <2>3. Follows(q, r)
    BY <1>1, <2>2 DEF Follows
  <2>4. r.sync # None => /\ r.sync.event \in 1 .. n /\ r.sync.event <= m.event
                         /\ r.sync.view.turn = at[r.sync.event]
                         /\ m.data.turn >= r.sync.view.turn
    BY <1>1, <1>2, <2>1 DEF Sound, Turns
  <2>5. Sound(q, at, n)
    BY <1>2, <2>2, <2>4 DEF Sound
  <2>6. QED BY <2>1, <2>2, <2>3, <2>5
<1>5. QED BY <1>3, <1>4

\* mergeSnapshot: tasks of an earlier revision are not taken.
LEMMA SnapshotIsMerged ==
  ASSUME NEW r \in Replicas, NEW m \in Messages("snapshot"), NEW n, NEW at, Sound(r, at, n)
  PROVE  /\ WithSnapshot(r, m) \in Replicas /\ WithSnapshot(r, m).gen = r.gen
         /\ Sound(WithSnapshot(r, m), at, n) /\ Follows(WithSnapshot(r, m), r)
<1>1. /\ r.gen \in Nat /\ r.snapshot.revision \in Nat
      /\ r.sync # None => r.sync.view.turn \in Nat
  BY DEF Replicas, SyncStates, EngineViews
<1>2. m.event \in Nat /\ m.data \in Nat
  BY DEF Messages, Payloads
<1>3. CASE ~Newer(m, r.snapshot)
  BY <1>1, <1>3 DEF WithSnapshot, Follows
<1>4. CASE Newer(m, r.snapshot)
  <2> DEFINE s == [event |-> m.event, revision |-> m.data]
             q == [r EXCEPT !.snapshot = s]
  <2>1. WithSnapshot(r, m) = q
    BY <1>4 DEF WithSnapshot
  <2>2. s \in [event : Nat, revision : Nat] /\ s.revision >= r.snapshot.revision
    BY <1>2, <1>4 DEF Newer
  <2> HIDE DEF s
  <2>3. /\ q \in Replicas /\ q.gen = r.gen /\ q.snapshot = s /\ q.auth = r.auth
        /\ q.sync = r.sync /\ q.conflict = r.conflict /\ q.mark = r.mark
    BY <2>2 DEF Replicas
  <2> HIDE DEF q
  <2>4. Follows(q, r) /\ Sound(q, at, n)
    BY <1>1, <2>2, <2>3 DEF Follows, Sound
  <2>5. QED BY <2>1, <2>3, <2>4
<1>5. QED BY <1>3, <1>4

\* mergeReplica of the account.
LEMMA AuthIsMerged ==
  ASSUME NEW r \in Replicas, NEW m \in Messages("auth"), NEW n, NEW at, Sound(r, at, n)
  PROVE  /\ WithAuth(r, m) \in Replicas /\ WithAuth(r, m).gen = r.gen
         /\ Sound(WithAuth(r, m), at, n) /\ Follows(WithAuth(r, m), r)
<1>1. /\ r.gen \in Nat /\ r.snapshot.revision \in Nat
      /\ r.sync # None => r.sync.view.turn \in Nat
  BY DEF Replicas, SyncStates, EngineViews
<1>2. m.event \in Nat /\ m.data \in BOOLEAN
  BY DEF Messages, Payloads
<1>3. CASE ~Later(m.event, r.auth)
  BY <1>1, <1>3 DEF WithAuth, Follows
<1>4. CASE Later(m.event, r.auth)
  <2> DEFINE a == [event |-> m.event, loggedIn |-> m.data]
             q == [r EXCEPT !.auth = a]
  <2>1. WithAuth(r, m) = q
    BY <1>4 DEF WithAuth
  <2>2. a \in AuthStates /\ a # None
    BY <1>2, ReplicaAssumption DEF AuthStates
  <2> HIDE DEF a
  <2>3. /\ q \in Replicas /\ q.gen = r.gen /\ q.snapshot = r.snapshot /\ q.auth = a
        /\ q.sync = r.sync /\ q.conflict = r.conflict /\ q.mark = r.mark
    BY <2>2 DEF Replicas
  <2> HIDE DEF q
  <2>4. Follows(q, r) /\ Sound(q, at, n)
    BY <1>1, <2>2, <2>3 DEF Follows, Sound
  <2>5. QED BY <2>1, <2>3, <2>4
<1>5. QED BY <1>3, <1>4

\* mergeReplica keeps the replica sound and never takes it back.
LEMMA MergeIsSound ==
  ASSUME NEW r \in Replicas, NEW c \in Channels \ {"settings"}, NEW m \in Messages(c),
         NEW n \in Nat, NEW at, Turns(at, n), Sound(r, at, n),
         c \in {"sync", "conflict"} => OnLine(m, at, n)
  PROVE  /\ Merged(r, c, m) \in Replicas /\ Sound(Merged(r, c, m), at, n)
         /\ Follows(Merged(r, c, m), r)
<1>1. r.gen \in Nat /\ m.gen \in Nat /\ r.snapshot.revision \in Nat
      /\ (r.sync # None => r.sync.view.turn \in Nat)
  BY DEF Replicas, Messages, SyncStates, EngineViews
<1>2. CASE m.gen < r.gen
  BY <1>1, <1>2 DEF Merged, Follows
<1>3. CASE m.gen >= r.gen
  <2> DEFINE s == IF m.gen > r.gen THEN EmptyReplica(m.gen) ELSE r
             t == Merged(r, c, m)
  <2>1. s \in Replicas /\ Sound(s, at, n) /\ s.gen >= r.gen /\ (s.gen = r.gen => s = r)
    BY <1>1, <1>3, EmptyIsSound
  <2>2. t \in Replicas /\ t.gen = s.gen /\ Sound(t, at, n) /\ Follows(t, s)
    <3>1. CASE c = "snapshot"
      <4>1. t = WithSnapshot(s, m)
        BY <1>1, <1>3, <3>1 DEF Merged
      <4> HIDE DEF s, t
      <4>2. QED BY <2>1, <3>1, <4>1, SnapshotIsMerged
    <3>2. CASE c = "auth"
      <4>1. t = WithAuth(s, m)
        BY <1>1, <1>3, <3>2 DEF Merged
      <4> HIDE DEF s, t
      <4>2. QED BY <2>1, <3>2, <4>1, AuthIsMerged
    <3>3. CASE c = "sync"
      <4>1. t = WithSync(s, m)
        BY <1>1, <1>3, <3>3 DEF Merged
      <4> HIDE DEF s, t
      <4>2. QED BY <2>1, <3>3, <4>1, SyncIsMerged
    <3>4. CASE c = "conflict"
      <4>1. t = WithConflict(s, m)
        BY <1>1, <1>3, <3>4 DEF Merged
      <4> HIDE DEF s, t
      <4>2. QED BY <2>1, <3>4, <4>1, ConflictIsMerged
    <3>5. QED BY <3>1, <3>2, <3>3, <3>4 DEF Channels
  <2> HIDE DEF s, t
  <2>3. Follows(t, r)
    <3>1. s.gen \in Nat
      BY <2>1 DEF Replicas
    <3>2. CASE s.gen = r.gen
      BY <2>1, <2>2, <3>2
    <3>3. CASE s.gen > r.gen
      BY <2>2, <3>3 DEF Follows
    <3>4. QED BY <1>1, <2>1, <3>1, <3>2, <3>3
  <2>4. QED BY <2>2, <2>3 DEF t
<1>4. QED BY <1>1, <1>2, <1>3

\* Each part of an answer is a message of its channel.
LEMMA CopyIsMessage ==
  ASSUME NEW a \in Answers, NEW c \in Channels
  PROVE  /\ Copy(a, c) \in Messages(c)
         /\ Copy(a, c) = [gen |-> a.gen, event |-> a.event[PartOf(c)], data |-> a[c]]
<1>1. a.gen \in Nat /\ a.event[PartOf(c)] \in Nat
  BY DEF Answers, Channels, PartOf, Parts
<1>2. a[c] \in Payloads[c]
  <2>1. CASE c = "auth"
    BY <2>1 DEF Answers, Payloads
  <2>2. CASE c = "snapshot"
    BY <2>2 DEF Answers, Payloads
  <2>3. CASE c = "sync"
    BY <2>3 DEF Answers, Payloads
  <2>4. CASE c = "conflict"
    BY <2>4 DEF Answers, Payloads
  <2>5. CASE c = "settings"
    BY <2>5 DEF Answers, Payloads
  <2>6. QED BY <2>1, <2>2, <2>3, <2>4, <2>5 DEF Channels
<1>3. QED BY <1>1, <1>2 DEF Copy, Messages

\* applyStartup merges one copy after the other.
LEMMA ApplyIsSound ==
  ASSUME NEW r \in Replicas, NEW a \in Answers, NEW n \in Nat, NEW at, Turns(at, n),
         Sound(r, at, n), OnLine(Copy(a, "sync"), at, n), OnLine(Copy(a, "conflict"), at, n)
  PROVE  /\ Applied(r, a) \in Replicas /\ Sound(Applied(r, a), at, n)
         /\ Follows(Applied(r, a), r)
<1> DEFINE auth     == Merged(r, "auth", Copy(a, "auth"))
           snapshot == Merged(auth, "snapshot", Copy(a, "snapshot"))
           sync     == Merged(snapshot, "sync", Copy(a, "sync"))
           conflict == Merged(sync, "conflict", Copy(a, "conflict"))
<1>1. {"auth", "snapshot", "sync", "conflict"} \subseteq Channels \ {"settings"}
  BY DEF Channels
<1>2. \A c \in {"auth", "snapshot", "sync", "conflict"} : Copy(a, c) \in Messages(c)
  BY <1>1, CopyIsMessage
<1>3. auth \in Replicas /\ Sound(auth, at, n) /\ Follows(auth, r)
  BY <1>1, <1>2, MergeIsSound
<1>4. snapshot \in Replicas /\ Sound(snapshot, at, n) /\ Follows(snapshot, auth)
  <2> HIDE DEF auth
  <2>1. QED BY <1>1, <1>2, <1>3, MergeIsSound
<1>5. sync \in Replicas /\ Sound(sync, at, n) /\ Follows(sync, snapshot)
  <2> HIDE DEF snapshot
  <2>1. QED BY <1>1, <1>2, <1>4, MergeIsSound
<1>6. conflict \in Replicas /\ Sound(conflict, at, n) /\ Follows(conflict, sync)
  <2> HIDE DEF sync
  <2>1. QED BY <1>1, <1>2, <1>5, MergeIsSound
<1>7. Applied(r, a) \in {sync, conflict}
  BY DEF Applied
<1> HIDE DEF auth, snapshot, sync, conflict
<1>8. Follows(snapshot, r)
  BY <1>3, <1>4, FollowsOn
<1>9. Follows(sync, r)
  BY <1>4, <1>5, <1>8, FollowsOn
<1>10. Follows(conflict, r)
  BY <1>5, <1>6, <1>9, FollowsOn
<1>11. QED BY <1>5, <1>6, <1>7, <1>9, <1>10

-----------------------------------------------------------------------------
(* The process *)

\* Nothing of it changes.
LEMMA ProcessKept ==
  ASSUME Types, Next
  PROVE  ProcessOK' /\ turn' >= turn
<1>0. ProcessOK
  BY DEF Types
<1>1. CASE UNCHANGED <<process, turn, last>>
  BY <1>0, <1>1 DEF ProcessOK, process, preferences
<1>2. CASE Work \/ Retry
  BY <1>1, <1>2 DEF Work, Emit, Deliver, Subscribe, Answer, Apply, Fail, Repair, Retry, Fault,
     bounds
<1>3. CASE Edit
  BY <1>0, <1>3 DEF Edit, ProcessOK, preferences
<1>4. CASE Progress
  <2>1. engine' \in Engines /\ last' \in Nat
    <3>1. CASE engine' \in Shown(engine.cand) /\ UNCHANGED last
      BY <1>0, <3>1 DEF Shown, ProcessOK, Engines
    <3>2. CASE last' = last + 1 /\ engine' = [disputed |-> TRUE, cand |-> last']
      BY <1>0, <3>2 DEF ProcessOK, Engines
    <3>3. QED BY <1>4, <3>1, <3>2 DEF Progress
  <2>2. revision' \in Nat /\ turn' = turn + 1 /\ turn \in Nat
    BY <1>0, <1>4 DEF Progress, ProcessOK
  <2>3. UNCHANGED <<session, prefs, file>>
    BY <1>4 DEF Progress, preferences
  <2>4. QED BY <1>0, <2>1, <2>2, <2>3 DEF ProcessOK
<1>5. ASSUME NEW loggedIn \in BOOLEAN, Begins(loggedIn) PROVE ProcessOK' /\ turn' >= turn
  <2>1. engine' \in Engines
    <3>1. engine' \in {Quiet} \cup [disputed : {TRUE}, cand : 1 .. last + 1]
      BY <1>5 DEF Begins, Begun
    <3>2. Quiet \in Engines
      BY DEF Quiet, Engines
    <3>3. 1 .. last + 1 \subseteq Nat
      BY <1>0 DEF ProcessOK
    <3>4. [disputed : {TRUE}, cand : 1 .. last + 1] \subseteq Engines
      BY <3>3 DEF Engines
    <3>5. QED BY <3>1, <3>2, <3>4
  <2>2. session' \in [gen : Nat, loggedIn : BOOLEAN]
    BY <1>0, <1>5 DEF Begins, ProcessOK
  <2>3. last' \in Nat /\ turn' = turn + 1 /\ turn \in Nat
    BY <1>0, <1>5 DEF Begins, ProcessOK
  <2>4. UNCHANGED <<revision, prefs, file>>
    BY <1>5 DEF Begins, preferences
  <2>5. QED BY <1>0, <2>1, <2>2, <2>3, <2>4 DEF ProcessOK
<1>6. CASE Reset \/ \E ok \in BOOLEAN : BeginLogin(ok) \/ EndLogin(ok)
  BY <1>5, <1>6 DEF Reset, BeginLogin, EndLogin
<1>7. CASE \E failing \in Failures : ChangePreferences(failing)
  <2>1. PICK failing \in Failures : CommitPreferences(failing)
    BY <1>7 DEF ChangePreferences
  <2>2. prefs.revision + 1 \in Nat /\ prefs.revision + 1 \in PreferencesFiles
    BY <1>0 DEF ProcessOK, PrefsViews, PreferencesFiles
  <2>3. prefs' \in PrefsViews /\ file' \in PreferencesFiles
    BY <1>0, <2>1, <2>2 DEF CommitPreferences, ProcessOK, PrefsViews
  <2>4. QED BY <1>0, <1>7, <2>3 DEF ChangePreferences, ProcessOK
<1>8. QED BY <1>2, <1>3, <1>4, <1>6, <1>7 DEF Next

\* A copy of the state has the type of an answer.
LEMMA PresentIsAnswer ==
  ASSUME ProcessOK, prefs' \in PrefsViews, sequence' \in [Parts -> Nat]
  PROVE  Present \in Answers
<1>1. /\ session.gen \in Nat /\ AuthView \in BOOLEAN /\ SnapshotView \in Nat
      /\ SettingsView \in PrefsViews
  BY DEF ProcessOK, AuthView, SnapshotView, SettingsView
<1>2. SyncView \in EngineViews /\ ConflictView \in PanelViews
  BY DEF ProcessOK, Engines, SyncView, ConflictView, EngineViews, PanelViews
<1>3. QED BY <1>1, <1>2 DEF Present, Answers

\* What is sent is new.
LEMMA StampKept ==
  ASSUME SendingOK, NEW ps \in SUBSET Parts, Stamp(ps)
  PROVE  /\ sequence' \in [Parts -> Nat]
         /\ \A p \in Parts : sequence'[p] = IF p \in ps THEN sequence[p] + 1 ELSE sequence[p]
BY DEF SendingOK, Stamp

\* What sending adds to each channel.
LEMMA SendKept ==
  ASSUME Types, prefs' \in PrefsViews, sequence' \in [Parts -> Nat], NEW cs \in SUBSET Channels,
         Send(cs)
  PROVE  /\ DOMAIN flight' = Channels /\ flight' = [c \in Channels |-> flight'[c]]
         /\ \A c \in Channels : flight'[c] \subseteq Messages(c)
         /\ \A c \in Channels :
              flight'[c] = IF c \in cs THEN flight[c] \cup {Copy(Present, c)} ELSE flight[c]
<1>1. \A c \in Channels : Copy(Present, c) \in Messages(c)
  BY PresentIsAnswer, CopyIsMessage DEF Types
<1>2. QED BY <1>1 DEF Types, SendingOK, Send

\* What is on the way keeps its type.
LEMMA SendingKept ==
  ASSUME Types, Next, ProcessOK'
  PROVE  SendingOK'
<1>0. SendingOK /\ prefs' \in PrefsViews
  BY DEF Types, ProcessOK
<1>1. CASE UNCHANGED <<sequence, owed, flight>>
  BY <1>0, <1>1 DEF SendingOK
<1>2. ASSUME NEW cs, Owe(cs), cs \subseteq {"auth", "snapshot", "sync"} PROVE SendingOK'
  BY <1>0, <1>2 DEF Owe, SendingOK
<1>3. CASE Edit \/ Progress \/ Reset \/ \E ok \in BOOLEAN : BeginLogin(ok) \/ EndLogin(ok)
  BY <1>2, <1>3 DEF Edit, Progress, Reset, BeginLogin, EndLogin
<1>4. CASE \E failing \in Failures : ChangePreferences(failing)
  <2>1. Stamp({"settings"}) /\ Send({"settings"}) /\ owed' = owed
    BY <1>4 DEF ChangePreferences
  <2>2. {"settings"} \subseteq Parts /\ {"settings"} \subseteq Channels
    BY DEF Parts, Channels
  <2>3. sequence' \in [Parts -> Nat]
    BY <1>0, <2>1, <2>2, StampKept
  <2>4. QED BY <1>0, <2>1, <2>2, <2>3, SendKept DEF SendingOK
<1>5. ASSUME NEW c \in Channels, Emit(c) PROVE SendingOK'
  <2>1. Stamp({c}) /\ Send(With(c)) /\ owed' = owed \ {c} /\ c \in owed
    BY <1>5 DEF Emit
  <2>2. {c} \subseteq Parts /\ With(c) \subseteq Channels
    BY <1>0, <2>1 DEF Parts, Channels, With, SendingOK
  <2>3. sequence' \in [Parts -> Nat]
    BY <1>0, <2>1, <2>2, StampKept
  <2>4. QED BY <1>0, <2>1, <2>2, <2>3, SendKept DEF SendingOK
<1>6. ASSUME NEW c \in Channels, NEW m \in flight[c], Deliver(c, m) PROVE SendingOK'
  BY <1>0, <1>6 DEF Deliver, SendingOK
<1>7. ASSUME NEW ok \in BOOLEAN, Subscribe(ok) PROVE SendingOK'
  <2>1. CASE ok
    <3>1. PICK lost \in SUBSET Events : flight' = Without(lost)
      BY <1>7, <2>1 DEF Subscribe
    <3>2. QED BY <1>0, <1>7, <3>1 DEF Subscribe, Without, SendingOK
  <2>2. QED BY <1>1, <1>7, <2>1 DEF Subscribe
<1>8. ASSUME NEW ok \in BOOLEAN, Answer(ok) PROVE SendingOK'
  <2>1. sequence' \in [Parts -> Nat]
    BY <1>0, <1>8, StampKept DEF Answer, SendingOK
  <2>2. QED BY <1>0, <1>8, <2>1 DEF Answer, SendingOK
<1>9. CASE Apply \/ Fail \/ Repair \/ Retry
  BY <1>1, <1>9 DEF Apply, Fail, Repair, Retry, sending
<1>10. QED BY <1>3, <1>4, <1>5, <1>6, <1>7, <1>8, <1>9 DEF Next, Work

-----------------------------------------------------------------------------
(* The window *)

\* A longer time line with the same beginning.
Extends(w, at, n) == \A e \in 1 .. n : w[e] = at[e]

\* A time line is extended by the present turn.
LEMMA LineGrows ==
  ASSUME NEW n \in Nat, NEW at, Turns(at, n), NEW t \in Nat, \A e \in 1 .. n : at[e] <= t,
         NEW w, w = [e \in 1 .. n + 1 |-> IF e \in 1 .. n THEN at[e] ELSE t]
  PROVE  /\ Turns(w, n + 1) /\ w[n + 1] = t /\ (\A e \in 1 .. n + 1 : w[e] <= t)
         /\ \A m : OnLine(m, at, n) => OnLine(m, w, n + 1)
         /\ \A m : m.event = n + 1 /\ m.data.turn = t => OnLine(m, w, n + 1)
         /\ \A r : Sound(r, at, n) => Sound(r, w, n + 1)
<1>1. /\ \A e \in 1 .. n : w[e] = at[e] /\ at[e] \in Nat /\ at[e] <= t
      /\ w[n + 1] = t /\ w \in [1 .. n + 1 -> Nat]
      /\ \A e \in 1 .. n + 1 : e \in 1 .. n \/ e = n + 1
      /\ 1 .. n \subseteq 1 .. n + 1 /\ n + 1 \in 1 .. n + 1
  BY DEF Turns
<1>2. \A e \in 1 .. n + 1 : w[e] <= t
  BY <1>1
<1>3. Turns(w, n + 1)
  <2> SUFFICES ASSUME NEW e \in 1 .. n + 1, NEW f \in 1 .. n + 1, e <= f PROVE w[e] <= w[f]
    BY <1>1 DEF Turns
  <2>1. CASE f = n + 1
    BY <1>1, <1>2, <2>1
  <2>2. CASE f \in 1 .. n
    <3>1. e \in 1 .. n
      BY <2>2
    <3>2. QED BY <1>1, <2>2, <3>1 DEF Turns
  <2>3. QED BY <1>1, <2>1, <2>2
<1>4. \A m : OnLine(m, at, n) => OnLine(m, w, n + 1)
  BY <1>1 DEF OnLine
<1>5. \A m : m.event = n + 1 /\ m.data.turn = t => OnLine(m, w, n + 1)
  BY <1>1 DEF OnLine
<1>6. \A r : Sound(r, at, n) => Sound(r, w, n + 1)
  BY <1>1 DEF Sound
<1>7. QED BY <1>1, <1>2, <1>3, <1>4, <1>5, <1>6

\* No event of the engine is sent.
LEMMA EngineStays ==
  ASSUME Types, turn' \in Nat, turn' >= turn, NEW at, EngineKnown(at),
         sequence'["sync"] = sequence["sync"],
         flight'["sync"] \subseteq flight["sync"], flight'["conflict"] \subseteq flight["conflict"],
         call' = "answered" => call = "answered" /\ answer' = answer,
         Sound(replica', at, sequence["sync"])
  PROVE  EngineKnown(at)'
<1>1. sequence["sync"] \in Nat /\ turn \in Nat
  BY DEF Types, SendingOK, ProcessOK, Parts
<1>2. Turns(at, sequence["sync"]) /\ (\A e \in 1 .. sequence["sync"] : at[e] \in Nat /\ at[e] <= turn)
  BY DEF EngineKnown, Turns
<1>3. \A e \in 1 .. sequence["sync"] : at[e] <= turn'
  BY <1>1, <1>2
<1>4. QED BY <1>2, <1>3 DEF EngineKnown, Copy

\* Events of the engine are sent, or everything is answered.
LEMMA EngineGrows ==
  ASSUME Types, UNCHANGED <<turn, replica>>, NEW at, EngineKnown(at),
         sequence'["sync"] = sequence["sync"] + 1,
         \A c \in {"sync", "conflict"} : \A m \in flight'[c] :
           m \in flight[c] \/ (m.event = sequence["sync"] + 1 /\ m.data.turn = turn),
         call' = "answered" =>
           \/ call = "answered" /\ answer' = answer
           \/ /\ answer'.event["sync"] = sequence["sync"] + 1
              /\ answer'.sync.turn = turn /\ answer'.conflict.turn = turn
  PROVE  \E w : EngineKnown(w)'
<1> DEFINE n == sequence["sync"]
<1>1. n \in Nat /\ turn \in Nat
  BY DEF Types, SendingOK, ProcessOK, Parts
<1>2. Turns(at, n) /\ (\A e \in 1 .. n : at[e] <= turn) /\ Sound(replica, at, n)
  BY DEF EngineKnown
<1>3. PICK w : w = [e \in 1 .. n + 1 |-> IF e \in 1 .. n THEN at[e] ELSE turn]
  OBVIOUS
<1>4. /\ Turns(w, n + 1) /\ (\A e \in 1 .. n + 1 : w[e] <= turn)
      /\ \A m : OnLine(m, at, n) => OnLine(m, w, n + 1)
      /\ \A m : m.event = n + 1 /\ m.data.turn = turn => OnLine(m, w, n + 1)
      /\ \A r : Sound(r, at, n) => Sound(r, w, n + 1)
  BY SMTT(30), <1>1, <1>2, <1>3, LineGrows
<1>5. \A c \in {"sync", "conflict"} : \A m \in flight'[c] : OnLine(m, w, n + 1)
  BY <1>4 DEF EngineKnown
<1>6. call' = "answered" =>
        /\ OnLine(Copy(answer', "sync"), w, n + 1) /\ OnLine(Copy(answer', "conflict"), w, n + 1)
  <2>1. CASE call' = "answered" /\ call = "answered" /\ answer' = answer
    BY <1>4, <2>1 DEF EngineKnown
  <2>2. CASE /\ answer'.event["sync"] = n + 1
             /\ answer'.sync.turn = turn /\ answer'.conflict.turn = turn
    <3>1. \A c \in {"sync", "conflict"} :
            /\ Copy(answer', c).event = n + 1 /\ Copy(answer', c).data.turn = turn
      BY <2>2 DEF Copy, PartOf
    <3>2. QED BY <1>4, <3>1
  <2>3. QED BY <2>1, <2>2
<1>7. Sound(replica, w, n + 1)
  BY <1>2, <1>4
<1>8. EngineKnown(w)'
  BY <1>4, <1>5, <1>6, <1>7 DEF EngineKnown, Copy
<1>9. QED BY <1>8

\* A replica that stays as it is has not gone back.
LEMMA FollowsItself ==
  ASSUME NEW r \in Replicas
  PROVE  Follows(r, r)
BY DEF Follows, Replicas, SyncStates, EngineViews

\* What the replica shows, and the time line it lies on.
LEMMA EngineStep ==
  ASSUME Types, ProcessOK', turn' >= turn, Next, NEW at, EngineKnown(at)
  PROVE  /\ \E w : EngineKnown(w)'
         /\ replica' \in Replicas /\ Follows(replica', replica)
<1> DEFINE n == sequence["sync"]
<1>0. /\ ProcessOK /\ SendingOK /\ WindowOK /\ n \in Nat /\ turn' \in Nat /\ replica \in Replicas
      /\ turn \in Nat
  BY DEF Types, WindowOK, SendingOK, Parts, ProcessOK
<1>1. Turns(at, n) /\ Sound(replica, at, n) /\ Follows(replica, replica)
  BY <1>0, FollowsItself DEF EngineKnown
<1>2. ASSUME sequence'["sync"] = n, flight'["sync"] \subseteq flight["sync"],
             flight'["conflict"] \subseteq flight["conflict"],
             call' = "answered" => call = "answered" /\ answer' = answer,
             replica' = replica
      PROVE  (\E w : EngineKnown(w)') /\ replica' \in Replicas /\ Follows(replica', replica)
  BY <1>0, <1>1, <1>2, EngineStays
<1>3. CASE Edit \/ Progress \/ Reset \/ \E ok \in BOOLEAN : BeginLogin(ok) \/ EndLogin(ok)
  BY <1>2, <1>3 DEF Edit, Progress, Reset, BeginLogin, EndLogin, Change, window, Owe
<1>4. CASE \E failing \in Failures : ChangePreferences(failing)
  <2>1. Stamp({"settings"}) /\ Send({"settings"}) /\ UNCHANGED window
    BY <1>4 DEF ChangePreferences, Change
  <2>2. {"settings"} \subseteq Parts /\ {"settings"} \subseteq Channels /\ "sync" \in Parts
        /\ {"sync", "conflict"} \subseteq Channels
    BY DEF Parts, Channels
  <2>3. sequence' \in [Parts -> Nat] /\ sequence'["sync"] = n
    BY <1>0, <2>1, <2>2, StampKept
  <2>4. prefs' \in PrefsViews
    BY DEF ProcessOK
  <2>5. \A d \in {"sync", "conflict"} :
          flight'[d] = IF d \in {"settings"} THEN flight[d] \cup {Copy(Present, d)} ELSE flight[d]
    BY <2>1, <2>2, <2>3, <2>4, SendKept
  <2>6. QED BY <1>2, <2>1, <2>3, <2>5 DEF window
<1>5. ASSUME NEW c \in Channels, Emit(c)
      PROVE  (\E w : EngineKnown(w)') /\ replica' \in Replicas /\ Follows(replica', replica)
  <2>1. Stamp({c}) /\ Send(With(c)) /\ c \in owed /\ UNCHANGED window /\ UNCHANGED <<turn, prefs>>
    BY <1>5 DEF Emit, process, preferences, bounds
  <2>2. {c} \subseteq Parts /\ With(c) \subseteq Channels /\ "sync" \in Parts
        /\ {"sync", "conflict"} \subseteq Channels
    BY <1>0, <2>1 DEF Parts, Channels, With, SendingOK
  <2>3. sequence' \in [Parts -> Nat]
        /\ sequence'["sync"] = IF c = "sync" THEN n + 1 ELSE n
    BY <1>0, <2>1, <2>2, StampKept
  <2>4. prefs' \in PrefsViews
    BY DEF ProcessOK
  <2>5. \A d \in {"sync", "conflict"} :
          flight'[d] = IF d \in With(c) THEN flight[d] \cup {Copy(Present, d)} ELSE flight[d]
    BY <2>1, <2>2, <2>3, <2>4, SendKept
  <2>6. CASE c # "sync"
    <3>1. "sync" \notin With(c) /\ "conflict" \notin With(c)
      BY <1>0, <2>1, <2>6 DEF With, SendingOK
    <3>2. QED BY <1>2, <2>1, <2>3, <2>5, <2>6, <3>1 DEF window
  <2>7. CASE c = "sync"
    <3>1. \A d \in {"sync", "conflict"} :
            Copy(Present, d).event = n + 1 /\ Copy(Present, d).data.turn = turn
      BY <2>3, <2>7 DEF Copy, Present, PartOf, SyncView, ConflictView
    <3>2. \A d \in {"sync", "conflict"} : \A m \in flight'[d] :
            m \in flight[d] \/ (m.event = n + 1 /\ m.data.turn = turn)
      BY <2>5, <3>1
    <3>3. UNCHANGED <<turn, replica, call, answer>>
      BY <2>1 DEF window
    <3>4. \E w : EngineKnown(w)'
      BY <2>3, <2>7, <3>2, <3>3, EngineGrows
    <3>5. QED BY <1>0, <1>1, <3>3, <3>4
  <2>8. QED BY <2>6, <2>7
<1>6. ASSUME NEW ok \in BOOLEAN, Subscribe(ok)
      PROVE  (\E w : EngineKnown(w)') /\ replica' \in Replicas /\ Follows(replica', replica)
  <2>1. {"sync", "conflict"} \subseteq Channels
    BY DEF Channels
  <2>2. flight'["sync"] \subseteq flight["sync"] /\ flight'["conflict"] \subseteq flight["conflict"]
    BY <1>6, <2>1 DEF Subscribe, Without
  <2>3. QED BY <1>2, <1>6, <2>2 DEF Subscribe
<1>7. ASSUME NEW ok \in BOOLEAN, Answer(ok)
      PROVE  (\E w : EngineKnown(w)') /\ replica' \in Replicas /\ Follows(replica', replica)
  <2>1. CASE ~ok
    BY <1>2, <1>7, <2>1 DEF Answer
  <2>2. CASE ok
    <3>1. Stamp(Parts) /\ answer' = Present /\ "sync" \in Parts
      BY <1>7, <2>2 DEF Answer, Parts
    <3>2. sequence'["sync"] = n + 1
      BY <1>0, <3>1, StampKept
    <3>3. answer'.event["sync"] = n + 1 /\ answer'.sync.turn = turn /\ answer'.conflict.turn = turn
      BY <3>1, <3>2 DEF Present, SyncView, ConflictView
    <3>4. UNCHANGED <<turn, replica, flight>>
      BY <1>7 DEF Answer, Fault
    <3>5. \E w : EngineKnown(w)'
      BY <3>2, <3>3, <3>4, EngineGrows
    <3>6. QED BY <1>0, <1>1, <3>4, <3>5
  <2>3. QED BY <2>1, <2>2
<1>8. CASE Apply
  <2>1. call = "answered" /\ replica' = Applied(replica, answer) /\ call' = "none"
        /\ UNCHANGED <<sequence, flight>>
    BY <1>8 DEF Apply, sending
  <2>2. answer \in Answers /\ OnLine(Copy(answer, "sync"), at, n)
        /\ OnLine(Copy(answer, "conflict"), at, n)
    BY <1>0, <2>1 DEF WindowOK, EngineKnown
  <2>3. replica' \in Replicas /\ Sound(replica', at, n) /\ Follows(replica', replica)
    BY <1>0, <1>1, <2>1, <2>2, ApplyIsSound
  <2>4. EngineKnown(at)'
    BY <1>0, <2>1, <2>3, EngineStays
  <2>5. QED BY <2>3, <2>4
<1>9. ASSUME NEW c \in Channels, NEW m \in flight[c], Deliver(c, m)
      PROVE  (\E w : EngineKnown(w)') /\ replica' \in Replicas /\ Follows(replica', replica)
  <2>1. /\ flight' = [flight EXCEPT ![c] = @ \ {m}] /\ UNCHANGED sequence
        /\ replica' = IF c = "settings" THEN replica ELSE Merged(replica, c, m)
        /\ (call' = "answered" => call = "answered" /\ answer' = answer)
    BY <1>9 DEF Deliver
  <2>2. m \in Messages(c) /\ (c \in {"sync", "conflict"} => OnLine(m, at, n))
    BY <1>0 DEF SendingOK, EngineKnown
  <2>3. replica' \in Replicas /\ Sound(replica', at, n) /\ Follows(replica', replica)
    <3>1. CASE c = "settings"
      BY <1>0, <1>1, <2>1, <3>1
    <3>2. CASE c # "settings"
      BY <1>0, <1>1, <2>1, <2>2, <3>2, MergeIsSound
    <3>3. QED BY <3>1, <3>2
  <2>4. flight'["sync"] \subseteq flight["sync"] /\ flight'["conflict"] \subseteq flight["conflict"]
    BY <1>0, <2>1 DEF SendingOK, Channels
  <2>5. EngineKnown(at)'
    BY <1>0, <2>1, <2>3, <2>4, EngineStays
  <2>6. QED BY <2>3, <2>5
<1>10. CASE Fail \/ Repair \/ Retry
  BY <1>2, <1>10 DEF Fail, Repair, Retry, sending
<1>11. QED BY <1>3, <1>4, <1>5, <1>6, <1>7, <1>8, <1>9, <1>10 DEF Next, Work

-----------------------------------------------------------------------------
(* The preferences *)

\* Precedes is transitive.
LEMMA PrecedesOn ==
  ASSUME NEW p \in PrefsViews, NEW q \in PrefsViews, NEW r \in PrefsViews
  PROVE  Precedes(p, p) /\ (Precedes(p, q) /\ Precedes(q, r) => Precedes(p, r))
<1>1. p.revision \in Nat /\ q.revision \in Nat /\ r.revision \in Nat
  BY DEF PrefsViews
<1>2. QED BY <1>1 DEF Precedes

\* A change that fails leaves the preferences in force, with an error.
LEMMA PrefsForward ==
  ASSUME Types, Next
  PROVE  Precedes(prefs, prefs')
<1>0. prefs \in PrefsViews /\ prefs.revision \in Nat
  BY DEF Types, ProcessOK, PrefsViews
<1>1. CASE UNCHANGED prefs
  BY <1>0, <1>1, PrecedesOn
<1>2. ASSUME NEW failing \in Failures, CommitPreferences(failing) PROVE Precedes(prefs, prefs')
  <2>1. \/ prefs' = [revision |-> prefs.revision + 1, error |-> FALSE]
        \/ prefs' = [prefs EXCEPT !.error = TRUE]
    BY <1>2 DEF CommitPreferences
  <2>2. QED BY <1>0, <2>1 DEF Precedes, PrefsViews
<1>3. CASE Work \/ Retry \/ Edit \/ Progress \/ Reset
           \/ \E ok \in BOOLEAN : BeginLogin(ok) \/ EndLogin(ok)
  BY <1>1, <1>3 DEF Work, Emit, Deliver, Subscribe, Answer, Apply, Fail, Repair, Retry, Fault,
     Edit, Progress, Reset, BeginLogin, EndLogin, Begins, process, preferences
<1>4. QED BY <1>2, <1>3 DEF Next, ChangePreferences

\* The line of the preferences is extended by the present ones.
LEMMA EditionGrows ==
  ASSUME NEW n \in Nat, NEW told, Edition(told, n), NEW p \in PrefsViews,
         \A e \in 1 .. n : Precedes(told[e], p),
         NEW w, w = [e \in 1 .. n + 1 |-> IF e \in 1 .. n THEN told[e] ELSE p]
  PROVE  /\ Edition(w, n + 1) /\ w[n + 1] = p /\ (\A e \in 1 .. n + 1 : Precedes(w[e], p))
         /\ \A e \in 1 .. n : e \in 1 .. n + 1 /\ w[e] = told[e]
<1>1. /\ \A e \in 1 .. n : w[e] = told[e] /\ told[e] \in PrefsViews
      /\ w[n + 1] = p /\ w \in [1 .. n + 1 -> PrefsViews]
      /\ \A e \in 1 .. n + 1 : e \in 1 .. n \/ e = n + 1
      /\ 1 .. n \subseteq 1 .. n + 1 /\ n + 1 \in 1 .. n + 1
  BY DEF Edition
<1>2. Precedes(p, p)
  BY PrecedesOn
<1>3. \A e \in 1 .. n + 1 : Precedes(w[e], p)
  BY <1>1, <1>2
<1>4. Edition(w, n + 1)
  <2> SUFFICES ASSUME NEW e \in 1 .. n + 1, NEW f \in 1 .. n + 1, e <= f
               PROVE  Precedes(w[e], w[f])
    BY <1>1 DEF Edition
  <2>1. CASE f = n + 1
    BY <1>1, <1>3, <2>1
  <2>2. CASE f \in 1 .. n
    <3>1. e \in 1 .. n
      BY <2>2
    <3>2. QED BY <1>1, <2>2, <3>1 DEF Edition
  <2>3. QED BY <1>1, <2>1, <2>2
<1>5. QED BY <1>1, <1>3, <1>4

\* No copy of the preferences is taken.
LEMMA SettingsStay ==
  ASSUME Types, prefs' \in PrefsViews, Precedes(prefs, prefs'), NEW told, SettingsKnown(told),
         sequence'["settings"] = sequence["settings"],
         flight'["settings"] \subseteq flight["settings"],
         call' = "answered" => call = "answered" /\ answer' = answer,
         settings' # None => /\ settings'.event \in 1 .. sequence["settings"]
                             /\ settings'.prefs = told[settings'.event]
  PROVE  SettingsKnown(told)'
<1> DEFINE n == sequence["settings"]
<1>1. Edition(told, n) /\ \A e \in 1 .. n : told[e] \in PrefsViews /\ Precedes(told[e], prefs)
  BY DEF SettingsKnown, Edition
<1>2. \A e \in 1 .. n : Precedes(told[e], prefs')
  BY <1>1, PrecedesOn DEF Types, ProcessOK
<1>3. QED BY <1>1, <1>2 DEF SettingsKnown, Copy

\* A copy of what is in force after the step is taken.
LEMMA SettingsGrow ==
  ASSUME Types, prefs' \in PrefsViews, Precedes(prefs, prefs'), settings' = settings,
         NEW told, SettingsKnown(told),
         sequence'["settings"] = sequence["settings"] + 1,
         \A m \in flight'["settings"] :
           m \in flight["settings"] \/ (m.event = sequence["settings"] + 1 /\ m.data = prefs'),
         call' = "answered" =>
           \/ call = "answered" /\ answer' = answer
           \/ answer'.event["settings"] = sequence["settings"] + 1 /\ answer'.settings = prefs'
  PROVE  \E w : SettingsKnown(w)'
<1> DEFINE n == sequence["settings"]
<1>1. n \in Nat
  BY DEF Types, SendingOK, Parts
<1>2. Edition(told, n) /\ \A e \in 1 .. n : told[e] \in PrefsViews /\ Precedes(told[e], prefs)
  BY DEF SettingsKnown, Edition
<1>3. \A e \in 1 .. n : Precedes(told[e], prefs')
  BY <1>2, PrecedesOn DEF Types, ProcessOK
<1>4. PICK w : w = [e \in 1 .. n + 1 |-> IF e \in 1 .. n THEN told[e] ELSE prefs']
  OBVIOUS
<1>5. /\ Edition(w, n + 1) /\ w[n + 1] = prefs' /\ (\A e \in 1 .. n + 1 : Precedes(w[e], prefs'))
      /\ \A e \in 1 .. n : e \in 1 .. n + 1 /\ w[e] = told[e]
  BY <1>1, <1>2, <1>3, <1>4, EditionGrows
<1>6. n + 1 \in 1 .. n + 1
  BY <1>1
<1>7. \A m \in flight'["settings"] : Tells(m, w, n + 1)
  BY <1>5, <1>6 DEF SettingsKnown, Tells
<1>8. call' = "answered" => Tells(Copy(answer', "settings"), w, n + 1)
  <2>1. CASE call' = "answered" /\ call = "answered" /\ answer' = answer
    BY <1>5, <2>1 DEF SettingsKnown, Tells
  <2>2. CASE answer'.event["settings"] = n + 1 /\ answer'.settings = prefs'
    <3>1. Copy(answer', "settings").event = n + 1 /\ Copy(answer', "settings").data = prefs'
      BY <2>2 DEF Copy, PartOf
    <3>2. QED BY <1>5, <1>6, <3>1 DEF Tells
  <2>3. QED BY <2>1, <2>2
<1>9. settings # None => settings.event \in 1 .. n + 1 /\ settings.prefs = w[settings.event]
  BY <1>5 DEF SettingsKnown
<1>10. SettingsKnown(w)'
  BY <1>5, <1>7, <1>8, <1>9 DEF SettingsKnown, Copy
<1>11. QED BY <1>10

\* What the window shows of the preferences, and the time line it lies on.
LEMMA SettingsStep ==
  ASSUME Types, ProcessOK', Next, NEW told, SettingsKnown(told)
  PROVE  /\ \E w : SettingsKnown(w)'
         /\ settings' \in SettingsStates \cup {None} /\ SettingsForward
<1> DEFINE n == sequence["settings"]
           Goal == /\ \E w : SettingsKnown(w)'
                   /\ settings' \in SettingsStates \cup {None} /\ SettingsForward
<1>0. /\ ProcessOK /\ SendingOK /\ WindowOK /\ n \in Nat /\ prefs' \in PrefsViews
      /\ Precedes(prefs, prefs') /\ "settings" \in Parts /\ "settings" \in Channels
  BY PrefsForward DEF Types, SendingOK, Parts, ProcessOK, Channels
<1>1. Edition(told, n)
  BY DEF SettingsKnown
<1>2. CASE settings' = settings
  <2>1. settings' \in SettingsStates \cup {None} /\ SettingsForward
    BY <1>0, <1>2 DEF WindowOK, SettingsForward, SettingsStates, PrefsViews
  <2>2. settings' # None => settings'.event \in 1 .. n /\ settings'.prefs = told[settings'.event]
    BY <1>2 DEF SettingsKnown
  <2>3. ASSUME sequence'["settings"] = n, flight'["settings"] \subseteq flight["settings"],
               call' = "answered" => call = "answered" /\ answer' = answer
        PROVE  Goal
    BY <1>0, <2>1, <2>2, <2>3, SettingsStay
  <2>4. CASE Edit \/ Progress \/ Reset \/ \E ok \in BOOLEAN : BeginLogin(ok) \/ EndLogin(ok)
    BY <2>3, <2>4 DEF Edit, Progress, Reset, BeginLogin, EndLogin, Change, window, Owe
  <2>5. ASSUME NEW cs \in SUBSET Channels, NEW ps \in SUBSET Parts, Stamp(ps), Send(cs),
               "settings" \in cs <=> "settings" \in ps, UNCHANGED <<call, answer>>
        PROVE  Goal
    <3>1. /\ sequence' \in [Parts -> Nat]
          /\ sequence'["settings"] = IF "settings" \in ps THEN n + 1 ELSE n
      BY <1>0, <2>5, StampKept
    <3>2. \A d \in {"settings"} :
            flight'[d] = IF d \in cs THEN flight[d] \cup {Copy(Present, d)} ELSE flight[d]
      BY <1>0, <2>5, <3>1, SendKept
    <3>3. CASE "settings" \notin ps
      BY <2>3, <2>5, <3>1, <3>2, <3>3
    <3>4. CASE "settings" \in ps
      <4>1. Copy(Present, "settings").event = n + 1 /\ Copy(Present, "settings").data = prefs'
        BY <3>1, <3>4 DEF Copy, Present, PartOf, SettingsView
      <4>2. \E w : SettingsKnown(w)'
        BY <1>0, <1>2, <2>5, <3>1, <3>2, <3>4, <4>1, SettingsGrow
      <4>3. QED BY <2>1, <4>2
    <3>5. QED BY <3>3, <3>4
  <2>6. CASE \E failing \in Failures : ChangePreferences(failing)
    BY <1>0, <2>5, <2>6 DEF ChangePreferences, Change, window
  <2>7. ASSUME NEW c \in Channels, Emit(c) PROVE Goal
    <3>1. /\ {c} \subseteq Parts /\ With(c) \subseteq Channels
          /\ "settings" \notin {c} /\ "settings" \notin With(c)
      BY <1>0, <2>7 DEF Emit, Parts, Channels, With, SendingOK
    <3>2. Stamp({c}) /\ Send(With(c)) /\ UNCHANGED <<call, answer>>
      BY <2>7 DEF Emit, window
    <3>3. QED BY <2>5, <3>1, <3>2
  <2>8. ASSUME NEW ok \in BOOLEAN, Subscribe(ok) PROVE Goal
    BY <1>0, <2>3, <2>8 DEF Subscribe, Without
  <2>9. ASSUME NEW ok \in BOOLEAN, Answer(ok) PROVE Goal
    <3>1. CASE ~ok
      BY <2>3, <2>9, <3>1 DEF Answer
    <3>2. CASE ok
      <4>1. Stamp(Parts) /\ answer' = Present /\ UNCHANGED flight
        BY <2>9, <3>2 DEF Answer
      <4>2. sequence'["settings"] = n + 1
        BY <1>0, <4>1, StampKept
      <4>3. answer'.event["settings"] = n + 1 /\ answer'.settings = prefs'
        BY <4>1, <4>2 DEF Present, SettingsView
      <4>4. \E w : SettingsKnown(w)'
        BY <1>0, <1>2, <4>1, <4>2, <4>3, SettingsGrow
      <4>5. QED BY <2>1, <4>4
    <3>3. QED BY <3>1, <3>2
  <2>10. ASSUME NEW c \in Channels, NEW m \in flight[c], Deliver(c, m) PROVE Goal
    <3>1. flight'["settings"] \subseteq flight["settings"]
      BY <1>0, <2>10 DEF Deliver, SendingOK
    <3>2. QED BY <2>3, <2>10, <3>1 DEF Deliver
  <2>11. CASE Apply \/ Fail \/ Repair \/ Retry
    BY <2>3, <2>11 DEF Apply, Fail, Repair, Retry, sending
  <2>12. QED BY <2>4, <2>6, <2>7, <2>8, <2>9, <2>10, <2>11 DEF Next, Work
<1>3. ASSUME NEW m \in Messages("settings"), Tells(m, told, n),
             settings' = MergedSettings(settings, m),
             sequence'["settings"] = n, flight'["settings"] \subseteq flight["settings"],
             call' = "answered" => call = "answered" /\ answer' = answer
      PROVE  Goal
  <2>1. CASE ~Later(m.event, settings)
    <3>1. settings' = settings
      BY <1>3, <2>1 DEF MergedSettings
    <3>2. QED BY <1>2, <3>1
  <2>2. CASE Later(m.event, settings)
    <3>1. settings' = [event |-> m.event, prefs |-> m.data]
      BY <1>3, <2>2 DEF MergedSettings
    <3>2. settings' \in SettingsStates /\ settings'.event \in 1 .. n
          /\ settings'.prefs = told[settings'.event]
      BY <1>3, <3>1 DEF Messages, Payloads, SettingsStates, Tells
    <3>3. SettingsKnown(told)'
      BY <1>0, <1>3, <3>2, SettingsStay
    <3>4. settings # None => Precedes(settings.prefs, settings'.prefs)
      <4>1. settings # None => /\ settings.event \in 1 .. n /\ settings'.event > settings.event
                               /\ settings.prefs = told[settings.event]
        BY <2>2, <3>1 DEF Later, SettingsKnown
      <4>2. settings # None => settings.event <= settings'.event
        BY <3>2, <4>1
      <4>3. QED BY <1>1, <3>2, <4>1, <4>2 DEF Edition
    <3>5. SettingsForward
      BY <3>4 DEF SettingsForward, Precedes
    <3>6. QED BY <3>2, <3>3, <3>5
  <2>3. QED BY <2>1, <2>2
<1>4. CASE Apply
  <2>1. answer \in Answers /\ Tells(Copy(answer, "settings"), told, n)
    BY <1>0, <1>4 DEF Apply, WindowOK, SettingsKnown
  <2>2. Copy(answer, "settings") \in Messages("settings")
    BY <1>0, <2>1, CopyIsMessage
  <2>3. QED BY <1>3, <1>4, <2>1, <2>2 DEF Apply, sending
<1>5. ASSUME NEW m \in flight["settings"], Deliver("settings", m) PROVE Goal
  <2>1. m \in Messages("settings") /\ Tells(m, told, n)
    BY <1>0 DEF SendingOK, SettingsKnown
  <2>2. flight'["settings"] \subseteq flight["settings"]
    BY <1>0, <1>5 DEF Deliver, SendingOK
  <2>3. QED BY <1>3, <1>5, <2>1, <2>2 DEF Deliver
<1>6. CASE ~Apply /\ ~(\E m \in flight["settings"] : Deliver("settings", m))
  <2>1. settings' = settings
    BY <1>6 DEF Next, Work, Emit, Deliver, Subscribe, Answer, Fail, Repair, Retry, Fault,
       Edit, Progress, Reset, BeginLogin, EndLogin, ChangePreferences, Change, window
  <2>2. QED BY <1>2, <2>1
<1>7. QED BY <1>4, <1>5, <1>6

\* The preferences and their file.
LEMMA BaseStep ==
  ASSUME Types, BaseOK, Next
  PROVE  BaseOK' /\ (base' # base => file \in {base, Absent, 0})
<1>0. prefs \in PrefsViews /\ prefs.revision \in Nat /\ file \in PreferencesFiles
  BY DEF Types, ProcessOK, PrefsViews
<1>1. CASE UNCHANGED preferences
  BY <1>1 DEF BaseOK, preferences
<1>2. ASSUME NEW failing \in Failures, CommitPreferences(failing)
      PROVE  BaseOK' /\ (base' # base => file \in {base, Absent, 0})
  <2>1. \/ UNCHANGED <<file, base>> /\ prefs' = [prefs EXCEPT !.error = TRUE]
        \/ base' = file' /\ Replaceable(prefs.revision + 1)
    BY <1>2 DEF CommitPreferences
  <2>2. CASE UNCHANGED <<file, base>> /\ prefs' = [prefs EXCEPT !.error = TRUE]
    BY <1>0, <2>2 DEF BaseOK, PrefsViews
  <2>3. CASE base' = file' /\ Replaceable(prefs.revision + 1)
    <3>1. CASE base = file
      BY <2>3, <3>1 DEF BaseOK
    <3>2. CASE prefs.revision = 0
      <4>1. file = Absent \/ (file \in Nat /\ 1 > file)
        BY <1>0, <2>3, <3>2 DEF Replaceable, Understood, Supersedes, PreferencesFiles
      <4>2. QED BY <2>3, <4>1 DEF BaseOK
    <3>3. QED BY <3>1, <3>2 DEF BaseOK
  <2>4. QED BY <2>1, <2>2, <2>3
<1>3. CASE Work \/ Retry \/ Edit \/ Progress \/ Reset
           \/ \E ok \in BOOLEAN : BeginLogin(ok) \/ EndLogin(ok)
  BY <1>1, <1>3 DEF Work, Emit, Deliver, Subscribe, Answer, Apply, Fail, Repair, Retry, Fault,
     Edit, Progress, Reset, BeginLogin, EndLogin, Begins, process
<1>4. QED BY <1>2, <1>3 DEF Next, ChangePreferences

-----------------------------------------------------------------------------
(* Theorems *)

\* The process starts with no event given out, the window with nothing.
LEMMA InitConsistent == Init => Consistent
<1> SUFFICES ASSUME Init PROVE Consistent
  OBVIOUS
<1>1. prefs \in PrefsViews /\ BaseOK /\ file \in PreferencesFiles
  <2>1. PICK ok \in BOOLEAN : Load(ok)
    BY DEF Init
  <2>2. file \in PreferencesFiles
    BY PreferencesAssumption DEF Init
  <2>3. Revision \in Nat
    BY <2>2 DEF Revision, PreferencesFiles
  <2>4. prefs \in PrefsViews
    BY <2>1, <2>3 DEF Load, PrefsViews
  <2>5. base = file \/ prefs.revision = 0
    BY <2>1 DEF Load
  <2>6. QED BY <2>2, <2>4, <2>5 DEF BaseOK
<1>2. engine \in Engines
  <2>1. engine \in {Quiet} \cup [disputed : {TRUE}, cand : 1 .. 0 + 1]
    BY DEF Init, Begun
  <2>2. 1 .. 0 + 1 \subseteq Nat
    OBVIOUS
  <2>3. Quiet \in Engines /\ [disputed : {TRUE}, cand : 1 .. 0 + 1] \subseteq Engines
    BY <2>2 DEF Quiet, Engines
  <2>4. QED BY <2>1, <2>3
<1>3. ProcessOK
  BY <1>1, <1>2 DEF Init, ProcessOK
<1>4. SendingOK
  BY DEF Init, SendingOK
<1>5. EmptyReplica(0) \in Replicas /\ Sound(EmptyReplica(0), << >>, 0)
  BY EmptyIsSound
<1>6. WindowOK
  BY <1>5 DEF Init, WindowOK
<1>7. \E at : EngineKnown(at)
  <2>1. sequence["sync"] = 0 /\ flight["sync"] = {} /\ flight["conflict"] = {} /\ call = "none"
        /\ replica = EmptyReplica(0)
    BY DEF Init, Parts, Channels
  <2>2. PICK at : at = [e \in 1 .. 0 |-> 0]
    OBVIOUS
  <2>3. Turns(at, 0) /\ \A e \in 1 .. 0 : at[e] <= turn
    BY <2>2 DEF Turns
  <2>4. Sound(replica, at, 0)
    BY <2>1, EmptyIsSound
  <2>5. QED BY <2>1, <2>3, <2>4 DEF EngineKnown
<1>8. \E told : SettingsKnown(told)
  <2>1. sequence["settings"] = 0 /\ flight["settings"] = {} /\ call = "none" /\ settings = None
    BY DEF Init, Parts, Channels
  <2>2. PICK told : told = [e \in 1 .. 0 |-> prefs]
    OBVIOUS
  <2>3. Edition(told, 0)
    BY <2>2 DEF Edition
  <2>4. QED BY <2>1, <2>3 DEF SettingsKnown
<1>9. QED BY <1>1, <1>3, <1>4, <1>6, <1>7, <1>8 DEF Consistent, Types

\* Every step keeps the invariant and takes the view forward.
LEMMA StepConsistent ==
  ASSUME Consistent, Next
  PROVE  /\ Consistent' /\ SettingsForward /\ ReplicaForward
         /\ (base' # base => file \in {base, Absent, 0})
<1>1. Types /\ BaseOK
  BY DEF Consistent
<1>2. PICK at : EngineKnown(at)
  BY DEF Consistent
<1>3. PICK told : SettingsKnown(told)
  BY DEF Consistent
<1>4. ProcessOK' /\ turn' >= turn
  BY <1>1, ProcessKept
<1>5. SendingOK'
  BY <1>1, <1>4, SendingKept
<1>6. (\E w : EngineKnown(w)') /\ replica' \in Replicas /\ Follows(replica', replica)
  BY <1>1, <1>2, <1>4, EngineStep
<1>7. /\ \E w : SettingsKnown(w)'
      /\ settings' \in SettingsStates \cup {None} /\ SettingsForward
  BY <1>1, <1>3, <1>4, SettingsStep
<1>8. call' = "answered" => answer' \in Answers
  <2>1. CASE call = "answered" /\ UNCHANGED answer
    BY <1>1, <2>1 DEF Types, WindowOK
  <2>2. CASE call' # "answered"
    BY <2>2
  <2>3. ASSUME NEW ok \in BOOLEAN, Answer(ok), ok PROVE answer' \in Answers
    BY <1>1, <1>4, <1>5, <2>3, PresentIsAnswer DEF Answer, Types, ProcessOK, SendingOK
  <2>4. UNCHANGED <<call, answer>> \/ call' # "answered"
        \/ \E ok \in BOOLEAN : ok /\ Answer(ok)
    BY DEF Next, Work, Emit, Deliver, Subscribe, Answer, Apply, Fail, Repair, Retry, Fault,
       Edit, Progress, Reset, BeginLogin, EndLogin, ChangePreferences, Change, window
  <2>5. QED BY <2>1, <2>2, <2>3, <2>4
<1>9. Types'
  BY <1>4, <1>5, <1>6, <1>7, <1>8 DEF Types, WindowOK
<1>10. BaseOK' /\ (base' # base => file \in {base, Absent, 0})
  BY <1>1, BaseStep
<1>11. ReplicaForward
  BY <1>6 DEF Follows, ReplicaForward
<1>12. QED BY <1>6, <1>7, <1>9, <1>10, <1>11 DEF Consistent

\* What changes no variable changes no line.
LEMMA StutterConsistent == Consistent /\ UNCHANGED vars => Consistent'
<1> SUFFICES ASSUME Consistent, UNCHANGED vars PROVE Consistent'
  OBVIOUS
<1>1. UNCHANGED <<session, revision, engine, prefs, file, base, sequence, owed, flight, call,
                  answer, replica, settings, turn, last>>
  BY DEF vars, process, sending, window, bounds, preferences
<1>2. Types' /\ BaseOK'
  BY <1>1 DEF Consistent, Types, ProcessOK, SendingOK, WindowOK, BaseOK
<1>3. \E at : EngineKnown(at)'
  <2>1. PICK at : EngineKnown(at)
    BY DEF Consistent
  <2>2. EngineKnown(at)'
    BY <1>1, <2>1 DEF EngineKnown, Copy
  <2>3. QED BY <2>2
<1>4. \E told : SettingsKnown(told)'
  <2>1. PICK told : SettingsKnown(told)
    BY DEF Consistent
  <2>2. SettingsKnown(told)'
    BY <1>1, <2>1 DEF SettingsKnown, Copy
  <2>3. QED BY <2>2
<1>5. QED BY <1>2, <1>3, <1>4 DEF Consistent

\* Every copy and what was merged of it lies on the time lines.
THEOREM Invariance == Spec => []Consistent
<1>1. Consistent /\ [Next]_vars => Consistent'
  BY StepConsistent, StutterConsistent
<1>2. QED BY <1>1, InitConsistent, PTL DEF Spec

\* The conflict panel never offers a candidate that is older than the state shown beside
\* it, unless that state is about this candidate (replica.ts:42-56).
THEOREM PanelAlwaysCurrent == Spec => []PanelIsCurrent
<1>1. Consistent => PanelIsCurrent
  BY DEF Consistent, EngineKnown, Sound, PanelIsCurrent
<1>2. QED BY <1>1, Invariance, PTL

\* In whatever order answers and events arrive, the view never goes back (mergeReplica,
\* mergeSnapshot, applyStartup).
THEOREM NeverTakenBack == Spec => NeverBack
<1>1. Consistent /\ [Next]_vars => [SettingsForward /\ ReplicaForward]_vars
  BY StepConsistent
<1>2. QED BY <1>1, Invariance, PTL DEF Spec, NeverBack

\* Preferences that could not be read are not overwritten by what is not made of them
\* (PreferencesRepo::save).
THEOREM SettingsAlwaysKept == Spec => SettingsAreKept
<1>1. Consistent /\ [Next]_vars => [base' # base => file \in {base, Absent, 0}]_vars
  BY StepConsistent
<1>2. QED BY <1>1, Invariance, PTL DEF Spec, SettingsAreKept

-----------------------------------------------------------------------------
(* What the window will know *)

\* It hears every event from now on, or has an answer that makes up for those it missed.
Hears == phase \in {"ready", "stale"} \/ (phase = "asking" /\ call = "answered")

Since == IF phase = "asking" THEN answer.event["sync"] - 1 ELSE 0

CallOK == call # "none" => phase \in {"asking", "ready"}

\* Nothing is of a later session than the present one, and what is of the present one
\* tells whether it is logged in.
LoginOK(r) == r.gen = session.gen /\ r.auth # None => r.auth.loggedIn = session.loggedIn

SessionsOK ==
  /\ replica.gen <= session.gen /\ LoginOK(replica)
  /\ \A c \in Channels \ {"settings"} : \A m \in flight[c] : m.gen <= session.gen
  /\ \A m \in flight["auth"] : m.gen = session.gen => m.data = session.loggedIn
  /\ call = "answered" =>
       answer.gen <= session.gen /\ (answer.gen = session.gen => answer.auth = session.loggedIn)

\* Copies of the tasks: later ones are of later tasks.
TaskCopies ==
  {[event |-> m.event, revision |-> m.data] : m \in flight["snapshot"]} \cup {replica.snapshot}
    \cup IF call = "answered"
         THEN {[event |-> answer.event["snapshot"], revision |-> answer.snapshot]} ELSE {}

Ordered(ts, n, revised) ==
  /\ \A t \in ts : t.event <= n /\ t.revision <= revised /\ (t.event = 0 => t.revision = 0)
  /\ \A t, u \in ts : t.event <= u.event => t.revision <= u.revision

TasksKnown == Ordered(TaskCopies, sequence["snapshot"], revision)

\* The views of the engine, by event revision: one of the present turn is the present
\* one, a candidate is sent with its view, and a view without a conflict closes the panel.
Offers(v) == v.disputed /\ v.cand # None

Names(m, views, n) ==
  m.event \in 1 .. n /\ m.data.cand = views[m.event].cand /\ m.data.cand # None

Known(r, views, n) ==
  /\ r.sync # None => Tells([event |-> r.sync.event, data |-> r.sync.view], views, n)
  /\ r.conflict # None => r.conflict.cand # None
  /\ r.mark <= n
  /\ r.sync # None /\ r.mark = r.sync.event /\ ~Offers(r.sync.view) => r.conflict = None

ViewsKnown(views) ==
  LET n == sequence["sync"]
  IN  /\ views \in [1 .. n -> EngineViews]
      /\ \A e \in 1 .. n : views[e].turn <= turn /\ (views[e].turn = turn => views[e] = SyncView)
      /\ \A m \in flight["sync"] : Tells(m, views, n)
      /\ \A m \in flight["conflict"] : Names(m, views, n)
      /\ call = "answered" =>
           Tells(Copy(answer, "sync"), views, n) /\ answer.conflict.cand = answer.sync.cand
      /\ Known(replica, views, n)

\* In a session that began after the answer was given events are later than the answer.
AfterAnswer(r, e) ==
  r.gen = session.gen =>
    (r.sync # None => r.sync.event > e) /\ (r.mark = 0 \/ r.mark > e)

LaterSession ==
  call = "answered" /\ answer.gen < session.gen =>
    /\ \A c \in {"sync", "conflict"} : \A m \in flight[c] :
         m.gen = session.gen => m.event > answer.event["sync"]
    /\ AfterAnswer(replica, answer.event["sync"])

\* The panel: of a view with a conflict the candidate is on the way, was shown, or is no
\* longer news; of a candidate that is shown the view is on the way.
Shows(r, cand) == r.conflict # None /\ r.conflict.cand = cand
Has(ms, e)     == \E m \in ms : m.event = e /\ m.gen = session.gen

PanelComing(r, since, views, panels) ==
  /\ \A m \in views : m.gen = session.gen /\ m.event > since /\ Offers(m.data) =>
       \/ Has(panels, m.event)
       \/ r.gen = session.gen /\ (r.mark > m.event \/ (r.mark = m.event /\ Shows(r, m.data.cand)))
  /\ \A m \in panels : m.gen = session.gen /\ m.event > since =>
       \/ Has(views, m.event)
       \/ r.gen = session.gen /\ r.sync # None /\ r.sync.event >= m.event
  /\ r.gen = session.gen /\ r.sync # None /\ r.sync.event > since
       /\ r.mark = r.sync.event /\ Offers(r.sync.view) =>
         Has(panels, r.mark) \/ Shows(r, r.sync.view.cand)
  /\ r.gen = session.gen /\ r.mark > since /\ (r.sync = None \/ r.mark > r.sync.event) =>
       Has(views, r.mark)

\* What is current is still to be sent, on the way, in the answer or shown.
AuthShown(r)   == r.gen = session.gen /\ r.auth # None
TasksShown(r)  == r.gen = session.gen /\ r.snapshot.revision = revision
EngineShown(r) == r.gen = session.gen /\ r.sync # None /\ r.sync.view.turn = turn

AuthComing ==
  \/ "auth" \in owed \/ AuthShown(replica)
  \/ \E m \in flight["auth"] : m.gen = session.gen
  \/ phase = "asking" /\ answer.gen = session.gen

TasksComing ==
  \/ "snapshot" \in owed \/ TasksShown(replica)
  \/ \E m \in flight["snapshot"] : m.gen = session.gen /\ m.data = revision
  \/ phase = "asking" /\ answer.gen = session.gen /\ answer.snapshot = revision

EngineComing ==
  \/ "sync" \in owed \/ EngineShown(replica)
  \/ \E m \in flight["sync"] : m.gen = session.gen /\ m.data.turn = turn
  \/ phase = "asking" /\ answer.gen = session.gen /\ answer.sync.turn = turn

SettingsComing ==
  \/ settings # None /\ settings.prefs = prefs
  \/ \E m \in flight["settings"] : m.data = prefs
  \/ phase = "asking" /\ answer.settings = prefs

PanelKept == PanelComing(replica, Since, flight["sync"], flight["conflict"])

Coming ==
  Hears =>
    /\ AuthComing /\ SettingsComing
    /\ session.loggedIn => TasksComing /\ EngineComing /\ PanelKept

Reported ==
  /\ CallOK /\ SessionsOK /\ TasksKnown /\ (\E views : ViewsKnown(views))
  /\ LaterSession /\ Coming

-----------------------------------------------------------------------------
(* What a merge changes *)

\* The replica of a session of which nothing is known.
LEMMA EmptyFields ==
  ASSUME NEW g \in Nat
  PROVE  /\ EmptyReplica(g) \in Replicas /\ EmptyReplica(g).gen = g
         /\ EmptyReplica(g).snapshot = NoTasks /\ EmptyReplica(g).auth = None
         /\ EmptyReplica(g).sync = None /\ EmptyReplica(g).conflict = None
         /\ EmptyReplica(g).mark = 0
BY DEF EmptyReplica, NoTasks, Replicas

\* mergeReplica, field by field: a later session begins with an empty replica s.
Merges(r, c, m, s, q) ==
  /\ s = IF m.gen > r.gen THEN EmptyReplica(m.gen) ELSE r
  /\ s \in Replicas /\ s.gen = m.gen /\ q.gen = m.gen
  /\ q.snapshot = IF c = "snapshot" /\ Newer(m, s.snapshot)
                  THEN [event |-> m.event, revision |-> m.data] ELSE s.snapshot
  /\ q.auth = IF c = "auth" /\ Later(m.event, s.auth)
              THEN [event |-> m.event, loggedIn |-> m.data] ELSE s.auth
  /\ q.sync = IF c = "sync" /\ IsNews(m, s)
              THEN [event |-> m.event, view |-> m.data] ELSE s.sync
  /\ q.conflict = IF c = "sync" /\ IsNews(m, s) /\ Closes(s, m) THEN None
                  ELSE IF c = "conflict" /\ Opens(s, m) THEN m.data ELSE s.conflict
  /\ q.mark = IF c = "sync" /\ IsNews(m, s) /\ m.event > s.mark THEN m.event
              ELSE IF c = "conflict" /\ Opens(s, m) THEN m.event ELSE s.mark

\* Events of an earlier session change nothing, others change what Merges says.
LEMMA MergedFields ==
  ASSUME NEW r \in Replicas, NEW c \in Channels \ {"settings"}, NEW m \in Messages(c)
  PROVE  /\ m.gen < r.gen => Merged(r, c, m) = r
         /\ m.gen >= r.gen => \E s : Merges(r, c, m, s, Merged(r, c, m))
<1> DEFINE s == IF m.gen > r.gen THEN EmptyReplica(m.gen) ELSE r
           q == Merged(r, c, m)
<1>0. m.gen < r.gen => q = r
  BY DEF Merged
<1> SUFFICES ASSUME m.gen >= r.gen PROVE \E z : Merges(r, c, m, z, q)
  BY <1>0
<1> SUFFICES Merges(r, c, m, s, q)
  OBVIOUS
<1>1. r.gen \in Nat /\ m.gen \in Nat /\ ~(m.gen < r.gen)
  BY DEF Replicas, Messages
<1>2. s \in Replicas /\ s.gen = m.gen
  BY <1>1, EmptyFields
<1>3. s = [s EXCEPT !.gen = s.gen] /\ DOMAIN s = {"gen", "snapshot", "auth", "sync", "conflict", "mark"}
  BY <1>2 DEF Replicas
<1>4. CASE c = "snapshot"
  <2>1. q = WithSnapshot(s, m)
    BY <1>1, <1>4 DEF Merged
  <2> HIDE DEF s, q
  <2>2. QED BY <1>2, <1>3, <1>4, <2>1 DEF WithSnapshot, Merges, s
<1>5. CASE c = "auth"
  <2>1. q = WithAuth(s, m)
    BY <1>1, <1>5 DEF Merged
  <2> HIDE DEF s, q
  <2>2. QED BY <1>2, <1>3, <1>5, <2>1 DEF WithAuth, Merges, s
<1>6. CASE c = "sync"
  <2>1. q = WithSync(s, m)
    BY <1>1, <1>6 DEF Merged
  <2> HIDE DEF s, q
  <2>2. QED BY <1>2, <1>3, <1>6, <2>1 DEF WithSync, MergedSync, Merges, s
<1>7. CASE c = "conflict"
  <2>1. q = WithConflict(s, m)
    BY <1>1, <1>7 DEF Merged
  <2> HIDE DEF s, q
  <2>2. QED BY <1>2, <1>3, <1>7, <2>1 DEF WithConflict, Merges, s
<1>8. QED BY <1>4, <1>5, <1>6, <1>7 DEF Channels

\* What a merge keeps of what is known of the engine.
LEMMA MergeIsKnown ==
  ASSUME NEW r \in Replicas, NEW c \in Channels \ {"settings"}, NEW m \in Messages(c),
         NEW n \in Nat, NEW views, Known(r, views, n),
         c = "sync" => Tells(m, views, n), c = "conflict" => Names(m, views, n)
  PROVE  Known(Merged(r, c, m), views, n)
<1> DEFINE q == Merged(r, c, m)
<1> SUFFICES Known(q, views, n)
  OBVIOUS
<1>1. r.gen \in Nat /\ m.gen \in Nat /\ m.event \in Nat
  BY DEF Replicas, Messages
<1>2. CASE m.gen < r.gen
  BY <1>2, MergedFields
<1>3. CASE m.gen >= r.gen
  <2>0. PICK s : Merges(r, c, m, s, q)
    BY <1>3, MergedFields
  <2> HIDE DEF q
  <2>1. Known(s, views, n)
    BY <1>1, <2>0, EmptyFields DEF Known, Merges
  <2>2. /\ s \in Replicas
        /\ q.sync = IF c = "sync" /\ IsNews(m, s)
                    THEN [event |-> m.event, view |-> m.data] ELSE s.sync
        /\ q.conflict = IF c = "sync" /\ IsNews(m, s) /\ Closes(s, m) THEN None
                        ELSE IF c = "conflict" /\ Opens(s, m) THEN m.data ELSE s.conflict
        /\ q.mark = IF c = "sync" /\ IsNews(m, s) /\ m.event > s.mark THEN m.event
                    ELSE IF c = "conflict" /\ Opens(s, m) THEN m.event ELSE s.mark
    BY <2>0 DEF Merges
  <2>3. s.mark \in Nat /\ (s.sync # None => s.sync.event \in Nat)
        /\ (s.conflict # None => s.conflict \in PanelViews)
    BY <2>2 DEF Replicas, SyncStates
  <2>4. CASE c \notin {"sync", "conflict"}
    BY <2>1, <2>2, <2>4 DEF Known
  <2>5. CASE c = "sync"
    <3>1. CASE ~IsNews(m, s)
      BY <2>1, <2>2, <2>5, <3>1 DEF Known
    <3>2. CASE IsNews(m, s)
      <4>1. Tells(m, views, n) /\ m.event <= n /\ m.data \in EngineViews
        BY <2>5 DEF Tells, Messages, Payloads
      <4>2. q.sync = [event |-> m.event, view |-> m.data] /\ q.sync.event = m.event
            /\ q.sync.view = m.data
        BY <2>2, <2>5, <3>2
      <4>3. Tells([event |-> q.sync.event, data |-> q.sync.view], views, n)
        BY <4>1, <4>2 DEF Tells
      <4>4. q.mark <= n
        BY <1>1, <2>1, <2>2, <2>3, <2>5, <3>2, <4>1 DEF Known
      <4>5. q.conflict # None => q.conflict = s.conflict /\ ~Closes(s, m) /\ q.conflict.cand # None
        BY <2>1, <2>2, <2>5, <3>2 DEF Known
      <4>6. q.mark = m.event => m.event >= s.mark
        BY <1>1, <2>2, <2>3, <2>5, <3>2
      <4>7. q.mark = q.sync.event /\ ~Offers(q.sync.view) => q.conflict = None
        <5>1. SUFFICES ASSUME q.mark = m.event, ~Offers(m.data), q.conflict # None PROVE FALSE
          BY <4>2
        <5>2. m.data.disputed /\ q.conflict.cand = m.data.cand
          BY <4>5, <4>6, <5>1 DEF Closes
        <5>3. QED BY <4>5, <5>1, <5>2 DEF Offers
      <4>8. QED BY <4>3, <4>4, <4>5, <4>7 DEF Known
    <3>3. QED BY <3>1, <3>2
  <2>6. CASE c = "conflict"
    <3>1. CASE ~Opens(s, m)
      BY <2>1, <2>2, <2>6, <3>1 DEF Known
    <3>2. CASE Opens(s, m)
      <4>1. q.sync = s.sync /\ q.conflict = m.data /\ q.mark = m.event
        BY <2>2, <2>6, <3>2
      <4>2. m.event <= n /\ m.data.cand # None
        BY <1>1, <2>6 DEF Names
      <4>3. q.sync # None /\ q.mark = q.sync.event => Offers(q.sync.view)
        BY <3>2, <4>1, <4>2 DEF Opens, Offers
      <4>4. QED BY <2>1, <4>1, <4>2, <4>3 DEF Known
    <3>3. QED BY <3>1, <3>2
  <2>7. QED BY <2>4, <2>5, <2>6
<1>4. QED BY <1>1, <1>2, <1>3

\* What a merge keeps of the session.
LEMMA MergeIsOfSession ==
  ASSUME NEW r \in Replicas, NEW c \in Channels \ {"settings"}, NEW m \in Messages(c),
         session.gen \in Nat, r.gen <= session.gen, m.gen <= session.gen, LoginOK(r),
         c = "auth" /\ m.gen = session.gen => m.data = session.loggedIn
  PROVE  /\ Merged(r, c, m).gen <= session.gen /\ LoginOK(Merged(r, c, m))
         /\ m.gen = session.gen => Merged(r, c, m).gen = session.gen
         /\ c = "auth" /\ m.gen = session.gen => Merged(r, c, m).auth # None
<1> DEFINE q == Merged(r, c, m)
           Goal == /\ q.gen <= session.gen /\ LoginOK(q)
                   /\ m.gen = session.gen => q.gen = session.gen
                   /\ c = "auth" /\ m.gen = session.gen => q.auth # None
<1> SUFFICES Goal
  OBVIOUS
<1>1. r.gen \in Nat /\ m.gen \in Nat /\ m.event \in Nat
  BY DEF Replicas, Messages
<1>2. CASE m.gen < r.gen
  BY <1>1, <1>2, MergedFields
<1>3. CASE m.gen >= r.gen
  <2>1. PICK s : Merges(r, c, m, s, q)
    BY <1>3, MergedFields
  <2> HIDE DEF q
  <2>2. LoginOK(s)
    BY <1>1, <2>1, EmptyFields DEF LoginOK, Merges
  <2>3. CASE c = "auth" /\ Later(m.event, s.auth)
    <3>1. m.data \in BOOLEAN
      BY <2>3 DEF Messages, Payloads
    <3>2. q.auth \in AuthStates /\ q.auth # None /\ q.auth.loggedIn = m.data
      BY <1>1, <2>1, <2>3, <3>1, ReplicaAssumption DEF AuthStates, Merges
    <3>3. QED BY <2>1, <2>3, <3>2 DEF LoginOK, Merges
  <2>4. CASE ~(c = "auth" /\ Later(m.event, s.auth))
    BY <2>1, <2>2, <2>4 DEF LoginOK, Later, Merges
  <2>5. QED BY <2>3, <2>4
<1>4. QED BY <1>1, <1>2, <1>3

\* What a merge takes of the tasks.
LEMMA MergeOfTasks ==
  ASSUME NEW r \in Replicas, NEW c \in Channels \ {"settings"}, NEW m \in Messages(c)
  PROVE  /\ \/ Merged(r, c, m).snapshot \in {r.snapshot, NoTasks}
            \/ /\ c = "snapshot"
               /\ Merged(r, c, m).snapshot = [event |-> m.event, revision |-> m.data]
         /\ c = "snapshot" /\ m.gen >= r.gen =>
              \E old \in {r.snapshot, NoTasks} :
                /\ m.gen = r.gen => old = r.snapshot
                /\ Merged(r, c, m).snapshot =
                     IF Newer(m, old) THEN [event |-> m.event, revision |-> m.data] ELSE old
<1>1. r.gen \in Nat /\ m.gen \in Nat
  BY DEF Replicas, Messages
<1>2. CASE m.gen < r.gen
  BY <1>1, <1>2, MergedFields
<1>3. CASE m.gen >= r.gen
  <2> DEFINE q == Merged(r, c, m)
  <2>1. PICK s : Merges(r, c, m, s, q)
    BY <1>3, MergedFields
  <2>2. s.snapshot \in {r.snapshot, NoTasks} /\ (m.gen = r.gen => s.snapshot = r.snapshot)
    BY <1>1, <2>1, EmptyFields DEF Merges
  <2>3. q.snapshot = IF c = "snapshot" /\ Newer(m, s.snapshot)
                     THEN [event |-> m.event, revision |-> m.data] ELSE s.snapshot
    BY <2>1 DEF Merges
  <2> HIDE DEF q
  <2>4. QED BY <2>2, <2>3 DEF q
<1>4. QED BY <1>1, <1>2, <1>3

\* What a merge keeps of the events that are later than an answer.
LEMMA MergeIsAfter ==
  ASSUME NEW r \in Replicas, NEW c \in Channels \ {"settings"}, NEW m \in Messages(c),
         NEW e \in Nat, session.gen \in Nat, AfterAnswer(r, e),
         c \in {"sync", "conflict"} /\ m.gen = session.gen => m.event > e
  PROVE  AfterAnswer(Merged(r, c, m), e)
<1> DEFINE q == Merged(r, c, m)
<1> SUFFICES AfterAnswer(q, e)
  OBVIOUS
<1>1. r.gen \in Nat /\ m.gen \in Nat /\ m.event \in Nat
  BY DEF Replicas, Messages
<1>2. CASE m.gen < r.gen
  BY <1>1, <1>2, MergedFields
<1>3. CASE m.gen >= r.gen
  <2>1. PICK s : Merges(r, c, m, s, q)
    BY <1>3, MergedFields
  <2> HIDE DEF q
  <2>2. AfterAnswer(s, e)
    BY <1>1, <2>1, EmptyFields DEF AfterAnswer, Merges
  <2>3. QED BY <1>1, <2>1, <2>2 DEF AfterAnswer, Merges
<1>4. QED BY <1>1, <1>2, <1>3

-----------------------------------------------------------------------------
(* What a merge keeps of the panel *)

\* What the panel lemmas need of the copies and the replica.
PanelTypes(r, since, views, panels) ==
  /\ since \in Nat /\ session.gen \in Nat /\ r.gen \in Nat /\ r.mark \in Nat
  /\ r.sync # None => r.sync.event \in Nat
  /\ \A m \in views \cup panels : m.event \in Nat

\* The replica of another session shows nothing of this one.
LEMMA PanelBegins ==
  ASSUME NEW r, NEW q, NEW since \in Nat, NEW views, NEW panels,
         PanelComing(r, since, views, panels), r.gen # session.gen,
         q.gen = session.gen => q.sync = None /\ q.mark = 0
  PROVE  PanelComing(q, since, views, panels)
BY DEF PanelComing

\* A merge that leaves view, candidate and mark alone.
LEMMA PanelSame ==
  ASSUME NEW r, NEW q, NEW since, NEW views, NEW panels, PanelComing(r, since, views, panels),
         q.gen = r.gen, q.sync = r.sync, q.conflict = r.conflict, q.mark = r.mark
  PROVE  PanelComing(q, since, views, panels)
BY DEF PanelComing, Shows

\* A view of the engine is merged.
LEMMA PanelOfView ==
  ASSUME NEW r, NEW q, NEW since, NEW views, NEW panels, NEW m \in views, NEW rest,
         PanelTypes(r, since, views, panels), PanelComing(r, since, views, panels),
         r.gen = session.gen, q.gen = session.gen, m.gen = session.gen,
         views \ {m} \subseteq rest, rest \subseteq views,
         \A v \in views : v.event = m.event => v.data = m.data,
         q.sync = IF IsNews(m, r) THEN [event |-> m.event, view |-> m.data] ELSE r.sync,
         [event |-> m.event, view |-> m.data] # None,
         q.conflict = IF IsNews(m, r) /\ Closes(r, m) THEN None ELSE r.conflict,
         q.mark = IF IsNews(m, r) /\ m.event > r.mark THEN m.event ELSE r.mark
  PROVE  PanelComing(q, since, rest, panels)
<1>1. /\ since \in Nat /\ r.mark \in Nat /\ m.event \in Nat
      /\ r.sync # None => r.sync.event \in Nat
      /\ \A v \in views \cup panels : v.event \in Nat
  BY DEF PanelTypes
<1>2. \A e : Has(views, e) => Has(rest, e) \/ e = m.event
  BY DEF Has
<1>3. CASE ~IsNews(m, r)
  <2>1. q.sync = r.sync /\ q.conflict = r.conflict /\ q.mark = r.mark
        /\ r.sync # None /\ m.event <= r.sync.event
    BY <1>1, <1>3 DEF IsNews, Later
  <2>2. \A v \in rest : v.gen = session.gen /\ v.event > since /\ Offers(v.data) =>
          Has(panels, v.event) \/ q.mark > v.event \/ (q.mark = v.event /\ Shows(q, v.data.cand))
    BY <2>1 DEF PanelComing, Shows
  <2>3. \A p \in panels : p.gen = session.gen /\ p.event > since =>
          Has(rest, p.event) \/ (q.sync # None /\ q.sync.event >= p.event)
    BY <1>1, <1>2, <2>1 DEF PanelComing
  <2>4. q.sync # None /\ q.sync.event > since /\ q.mark = q.sync.event /\ Offers(q.sync.view) =>
          Has(panels, q.mark) \/ Shows(q, q.sync.view.cand)
    BY <2>1 DEF PanelComing, Shows
  <2>5. q.mark > since /\ (q.sync = None \/ q.mark > q.sync.event) => Has(rest, q.mark)
    BY <1>1, <1>2, <2>1 DEF PanelComing
  <2>6. QED BY <2>2, <2>3, <2>4, <2>5 DEF PanelComing
<1>4. CASE IsNews(m, r)
  <2>1. /\ q.sync # None /\ q.sync.event = m.event /\ q.sync.view = m.data
        /\ q.mark >= r.mark /\ q.mark >= m.event /\ (q.mark = r.mark \/ q.mark = m.event)
        /\ q.mark \in Nat
        /\ r.sync # None => m.event > r.sync.event
    BY <1>1, <1>4 DEF IsNews, Later
  <2>2. \A cand : Shows(r, cand) /\ (m.event < r.mark \/ (m.data.disputed /\ m.data.cand = cand)) =>
          Shows(q, cand)
    BY <1>1, <1>4 DEF Shows, Closes
  <2>3. \A v \in views : v.gen = session.gen /\ v.event > since /\ Offers(v.data) =>
          Has(panels, v.event) \/ q.mark > v.event \/ (q.mark = v.event /\ Shows(q, v.data.cand))
    <3> SUFFICES ASSUME NEW v \in views, v.gen = session.gen, v.event > since, Offers(v.data),
                        ~Has(panels, v.event), ~(q.mark > v.event)
                 PROVE  q.mark = v.event /\ Shows(q, v.data.cand)
      OBVIOUS
    <3>1. r.mark > v.event \/ (r.mark = v.event /\ Shows(r, v.data.cand))
      BY DEF PanelComing
    <3>2. r.mark = v.event /\ Shows(r, v.data.cand) /\ q.mark = v.event /\ m.event <= r.mark
      BY <1>1, <2>1, <3>1
    <3>3. m.event < r.mark \/ v.data = m.data
      BY <1>1, <3>2
    <3>4. QED BY <2>2, <3>2, <3>3 DEF Offers
  <2>4. \A p \in panels : p.gen = session.gen /\ p.event > since =>
          Has(rest, p.event) \/ q.sync.event >= p.event
    BY <1>1, <1>2, <2>1 DEF PanelComing
  <2>5. q.sync.event > since /\ q.mark = q.sync.event /\ Offers(q.sync.view) =>
          Has(panels, q.mark) \/ Shows(q, q.sync.view.cand)
    BY <1>1, <2>1, <2>3
  <2>6. q.mark > since /\ q.mark > q.sync.event => Has(rest, q.mark)
    <3> SUFFICES ASSUME q.mark > since, q.mark > m.event PROVE Has(rest, q.mark)
      BY <2>1
    <3>1. q.mark = r.mark /\ (r.sync = None \/ r.mark > r.sync.event)
      BY <1>1, <2>1
    <3>2. Has(views, r.mark)
      BY <3>1 DEF PanelComing
    <3>3. r.mark # m.event
      BY <1>1, <3>1
    <3>4. QED BY <1>2, <3>1, <3>2, <3>3
  <2>7. QED BY <2>1, <2>3, <2>4, <2>5, <2>6 DEF PanelComing
<1>5. QED BY <1>3, <1>4

\* A candidate is merged.
LEMMA PanelOfCandidate ==
  ASSUME NEW r, NEW q, NEW since, NEW views, NEW panels, NEW m \in panels, NEW rest,
         PanelTypes(r, since, views, panels), PanelComing(r, since, views, panels),
         r.gen = session.gen, q.gen = session.gen, m.gen = session.gen,
         panels \ {m} \subseteq rest, rest \subseteq panels,
         \A v \in views : v.event = m.event => v.data.cand = m.data.cand,
         r.sync # None =>
           /\ r.sync.event = m.event => r.sync.view.cand = m.data.cand
           /\ \A v \in views : v.event = r.sync.event => v.data = r.sync.view,
         r.auth # None => r.auth.loggedIn, m.data # None,
         q.sync = r.sync,
         q.conflict = IF Opens(r, m) THEN m.data ELSE r.conflict,
         q.mark = IF Opens(r, m) THEN m.event ELSE r.mark
  PROVE  PanelComing(q, since, views, rest)
<1>1. /\ since \in Nat /\ r.mark \in Nat /\ m.event \in Nat
      /\ r.sync # None => r.sync.event \in Nat
      /\ \A v \in views \cup panels : v.event \in Nat
  BY DEF PanelTypes
<1>2. \A e : Has(panels, e) => Has(rest, e) \/ e = m.event
  BY DEF Has
<1>3. CASE ~Opens(r, m)
  <2>1. q.conflict = r.conflict /\ q.mark = r.mark
    BY <1>3
  <2>2. m.event < r.mark
        \/ (r.sync # None /\ r.sync.event = m.event /\ ~r.sync.view.disputed)
    BY <1>1, <1>3 DEF Opens
  <2>3. \A v \in views : v.gen = session.gen /\ v.event > since /\ Offers(v.data) =>
          Has(rest, v.event) \/ q.mark > v.event \/ (q.mark = v.event /\ Shows(q, v.data.cand))
    <3> SUFFICES ASSUME NEW v \in views, v.gen = session.gen, v.event > since, Offers(v.data),
                        ~Has(rest, v.event)
                 PROVE  q.mark > v.event \/ (q.mark = v.event /\ Shows(q, v.data.cand))
      OBVIOUS
    <3>1. CASE v.event = m.event
      BY <2>1, <2>2, <3>1 DEF Offers
    <3>2. CASE ~Has(panels, v.event)
      BY <2>1, <3>2 DEF PanelComing, Shows
    <3>3. QED BY <1>2, <3>1, <3>2
  <2>4. \A p \in rest : p.gen = session.gen /\ p.event > since =>
          Has(views, p.event) \/ (q.sync # None /\ q.sync.event >= p.event)
    BY <2>1 DEF PanelComing
  <2>5. q.sync # None /\ q.sync.event > since /\ q.mark = q.sync.event /\ Offers(q.sync.view) =>
          Has(rest, q.mark) \/ Shows(q, q.sync.view.cand)
    <3> SUFFICES ASSUME r.sync # None, r.sync.event > since, r.mark = r.sync.event,
                        Offers(r.sync.view), ~Has(rest, r.mark)
                 PROVE  Shows(r, r.sync.view.cand)
      BY <2>1 DEF Shows
    <3>1. r.mark # m.event
      BY <1>1, <2>2 DEF Offers
    <3>2. QED BY <1>2, <3>1 DEF PanelComing
  <2>6. q.mark > since /\ (q.sync = None \/ q.mark > q.sync.event) => Has(views, q.mark)
    BY <2>1 DEF PanelComing
  <2>7. QED BY <2>3, <2>4, <2>5, <2>6 DEF PanelComing
<1>4. CASE Opens(r, m)
  <2>1. /\ q.conflict = m.data /\ q.mark = m.event /\ m.event >= r.mark
        /\ \A cand : m.data.cand = cand => Shows(q, cand)
    BY <1>4 DEF Opens, Shows
  <2>2. \A v \in views : v.gen = session.gen /\ v.event > since /\ Offers(v.data) =>
          Has(rest, v.event) \/ q.mark > v.event \/ (q.mark = v.event /\ Shows(q, v.data.cand))
    <3> SUFFICES ASSUME NEW v \in views, v.gen = session.gen, v.event > since, Offers(v.data),
                        ~Has(rest, v.event)
                 PROVE  q.mark > v.event \/ (q.mark = v.event /\ Shows(q, v.data.cand))
      OBVIOUS
    <3>1. CASE v.event = m.event
      BY <2>1, <3>1
    <3>2. CASE v.event # m.event
      <4>1. r.mark >= v.event
        BY <1>1, <1>2, <3>2 DEF PanelComing
      <4>2. QED BY <1>1, <2>1, <3>2, <4>1
    <3>3. QED BY <3>1, <3>2
  <2>3. \A p \in rest : p.gen = session.gen /\ p.event > since =>
          Has(views, p.event) \/ (q.sync # None /\ q.sync.event >= p.event)
    BY DEF PanelComing
  <2>4. q.sync # None /\ q.sync.event > since /\ q.mark = q.sync.event /\ Offers(q.sync.view) =>
          Has(rest, q.mark) \/ Shows(q, q.sync.view.cand)
    BY <2>1
  <2>5. q.mark > since /\ (q.sync = None \/ q.mark > q.sync.event) => Has(views, q.mark)
    BY <1>1, <2>1 DEF PanelComing
  <2>6. QED BY <2>2, <2>3, <2>4, <2>5 DEF PanelComing
<1>5. QED BY <1>3, <1>4

\* A view and its candidate are sent, or answered.
LEMMA PanelSent ==
  ASSUME NEW r, NEW since, NEW views, NEW panels, PanelComing(r, since, views, panels),
         NEW v, NEW ps,
         v.gen = session.gen /\ Offers(v.data) => Has(ps, v.event),
         \A p \in ps : p.event = v.event /\ p.gen = v.gen
  PROVE  PanelComing(r, since, views \cup {v}, panels \cup ps)
<1>1. \A e : (Has(views, e) => Has(views \cup {v}, e)) /\ (Has(panels, e) => Has(panels \cup ps, e))
             /\ (Has(ps, e) => Has(panels \cup ps, e))
  BY DEF Has
<1>2. v.gen = session.gen => Has(views \cup {v}, v.event)
  BY DEF Has
<1>3. QED BY <1>1, <1>2 DEF PanelComing

\* What is shown, and all that comes, is later than the answer.
LEMMA PanelCaughtUp ==
  ASSUME NEW r, NEW since, NEW views, NEW panels, PanelTypes(r, since, views, panels),
         PanelComing(r, since, views, panels),
         \/ r.gen = session.gen /\ r.sync # None /\ r.sync.event > since /\ r.mark > since
         \/ /\ \A m \in views \cup panels : m.gen = session.gen => m.event > since
            /\ r.gen = session.gen =>
                 (r.sync # None => r.sync.event > since) /\ (r.mark = 0 \/ r.mark > since)
  PROVE  PanelComing(r, 0, views, panels)
<1>1. /\ since \in Nat /\ r.mark \in Nat
      /\ r.sync # None => r.sync.event \in Nat
      /\ \A v \in views \cup panels : v.event \in Nat
  BY DEF PanelTypes
<1>2. QED BY <1>1 DEF PanelComing

\* A copy is merged: rest is what is left of the views, and others of the candidates.
LEMMA MergePanel ==
  ASSUME NEW r \in Replicas, NEW c \in Channels \ {"settings"}, NEW m \in Messages(c),
         NEW since \in Nat, NEW views \in SUBSET Messages("sync"),
         NEW panels \in SUBSET Messages("conflict"),
         session.gen \in Nat, r.gen <= session.gen, m.gen <= session.gen,
         LoginOK(r), session.loggedIn,
         NEW n \in Nat, NEW line, Known(r, line, n),
         \A v \in views : Tells(v, line, n), \A p \in panels : Names(p, line, n),
         PanelComing(r, since, views, panels),
         NEW rest, views \ {v \in {m} : c = "sync"} \subseteq rest, rest \subseteq views,
         NEW others, panels \ {p \in {m} : c = "conflict"} \subseteq others, others \subseteq panels,
         c = "sync" => m \in views, c = "conflict" => m \in panels
  PROVE  PanelComing(Merged(r, c, m), since, rest, others)
<1> DEFINE q == Merged(r, c, m)
<1> SUFFICES PanelComing(q, since, rest, others)
  OBVIOUS
<1>1. r.gen \in Nat /\ m.gen \in Nat /\ m.event \in Nat
  BY DEF Replicas, Messages
<1>2. /\ m.gen < r.gen => q = r
      /\ m.gen >= r.gen => \E s : Merges(r, c, m, s, q)
  BY MergedFields
<1> HIDE DEF q
<1>3. CASE m.gen # session.gen
  <2>1. /\ \A e : (Has(views, e) => Has(rest, e)) /\ (Has(panels, e) => Has(others, e))
    BY <1>3 DEF Has
  <2>2. PanelComing(r, since, rest, others)
    BY <2>1 DEF PanelComing
  <2>3. CASE m.gen < r.gen
    BY <1>2, <2>2, <2>3
  <2>4. CASE m.gen >= r.gen
    <3>1. r.gen # session.gen /\ q.gen # session.gen
      BY <1>1, <1>2, <1>3, <2>4 DEF Merges
    <3>2. QED BY <2>2, <3>1, PanelBegins
  <2>5. QED BY <1>1, <2>3, <2>4
<1>4. CASE m.gen = session.gen
  <2>0. PICK s : Merges(r, c, m, s, q)
    BY <1>1, <1>2, <1>4
  <2>1. m.gen >= r.gen /\ s \in Replicas /\ s.gen = session.gen /\ q.gen = session.gen
    BY <1>1, <1>4, <2>0 DEF Merges
  <2>2. PanelComing(s, since, views, panels) /\ Known(s, line, n) /\ LoginOK(s)
    <3>1. CASE m.gen > r.gen
      <4>1. s.sync = None /\ s.mark = 0 /\ s.conflict = None /\ s.auth = None
        BY <1>1, <2>0, <3>1, EmptyFields DEF Merges
      <4>2. PanelComing(s, since, views, panels)
        BY <1>1, <1>4, <3>1, <4>1, PanelBegins
      <4>3. QED BY <4>1, <4>2 DEF Known, LoginOK
    <3>2. CASE ~(m.gen > r.gen)
      <4>1. s = r
        BY <2>0, <3>2 DEF Merges
      <4>2. QED BY <4>1
    <3>3. QED BY <3>1, <3>2
  <2>3. PanelTypes(s, since, views, panels)
    BY <2>1 DEF PanelTypes, Replicas, SyncStates, Messages
  <2>4. CASE c \notin {"sync", "conflict"}
    <3>1. q.gen = s.gen /\ q.sync = s.sync /\ q.conflict = s.conflict /\ q.mark = s.mark
      BY <2>0, <2>1, <2>4 DEF Merges
    <3>2. rest = views /\ others = panels
      BY <2>4
    <3>3. QED BY <2>2, <3>1, <3>2, PanelSame
  <2>5. CASE c = "sync"
    <3>1. /\ q.sync = IF IsNews(m, s) THEN [event |-> m.event, view |-> m.data] ELSE s.sync
          /\ q.conflict = IF IsNews(m, s) /\ Closes(s, m) THEN None ELSE s.conflict
          /\ q.mark = IF IsNews(m, s) /\ m.event > s.mark THEN m.event ELSE s.mark
      BY <2>0, <2>5 DEF Merges
    <3>2. [event |-> m.event, view |-> m.data] # None
      BY <1>1, <2>5, ReplicaAssumption DEF Messages, Payloads, SyncStates
    <3>3. others = panels /\ m \in views /\ views \ {m} \subseteq rest
      BY <2>5
    <3>4. \A v \in views : v.event = m.event => v.data = m.data
      BY <3>3 DEF Tells
    <3>5. PanelComing(q, since, rest, panels)
      BY <1>4, <2>1, <2>2, <2>3, <3>1, <3>2, <3>3, <3>4, PanelOfView
    <3>6. QED BY <3>3, <3>5
  <2>6. CASE c = "conflict"
    <3>1. /\ q.sync = s.sync /\ q.conflict = IF Opens(s, m) THEN m.data ELSE s.conflict
          /\ q.mark = IF Opens(s, m) THEN m.event ELSE s.mark
      BY <2>0, <2>6 DEF Merges
    <3>2. m.data # None
      BY <2>6, ReplicaAssumption DEF Messages, Payloads, PanelViews, Names
    <3>3. rest = views /\ m \in panels /\ panels \ {m} \subseteq others
      BY <2>6
    <3>4. \A v \in views : v.event = m.event => v.data.cand = m.data.cand
      BY <3>3 DEF Tells, Names
    <3>5. s.sync # None =>
            /\ s.sync.event = m.event => s.sync.view.cand = m.data.cand
            /\ \A v \in views : v.event = s.sync.event => v.data = s.sync.view
      BY <2>2, <3>3 DEF Tells, Names, Known
    <3>6. s.auth # None => s.auth.loggedIn
      BY <2>1, <2>2 DEF LoginOK
    <3>7. PanelComing(q, since, views, others)
      BY <1>4, <2>1, <2>2, <2>3, <3>1, <3>2, <3>3, <3>4, <3>5, <3>6, PanelOfCandidate
    <3>8. QED BY <3>3, <3>7
  <2>7. QED BY <2>4, <2>5, <2>6
<1>5. QED BY <1>3, <1>4

\* applyStartup, merge by merge.
ApplySteps(r, a, r1, r2, r3, q) ==
  /\ r1 = Merged(r, "auth", Copy(a, "auth")) /\ r2 = Merged(r1, "snapshot", Copy(a, "snapshot"))
  /\ r3 = Merged(r2, "sync", Copy(a, "sync"))
  /\ q = IF a.conflict.cand = None THEN r3 ELSE Merged(r3, "conflict", Copy(a, "conflict"))

\* The replicas between the merges of an answer are replicas, and go forward.
LEMMA ApplyChain ==
  ASSUME NEW r \in Replicas, NEW a \in Answers, NEW n \in Nat, NEW at, Turns(at, n),
         Sound(r, at, n), OnLine(Copy(a, "sync"), at, n), OnLine(Copy(a, "conflict"), at, n)
  PROVE  \E r1 \in Replicas, r2 \in Replicas, r3 \in Replicas :
           /\ ApplySteps(r, a, r1, r2, r3, Applied(r, a)) /\ Applied(r, a) \in Replicas
           /\ Follows(r1, r) /\ Follows(r2, r1) /\ Follows(r3, r2) /\ Follows(Applied(r, a), r3)
           /\ Sound(r1, at, n) /\ Sound(r2, at, n) /\ Sound(r3, at, n) /\ Sound(Applied(r, a), at, n)
<1>1. PICK r1 : r1 = Merged(r, "auth", Copy(a, "auth"))
  OBVIOUS
<1>2. PICK r2 : r2 = Merged(r1, "snapshot", Copy(a, "snapshot"))
  OBVIOUS
<1>3. PICK r3 : r3 = Merged(r2, "sync", Copy(a, "sync"))
  OBVIOUS
<1>4. PICK r4 : r4 = Merged(r3, "conflict", Copy(a, "conflict"))
  OBVIOUS
<1>5. {"auth", "snapshot", "sync", "conflict"} \subseteq Channels \ {"settings"}
  BY DEF Channels
<1>6. \A c \in {"auth", "snapshot", "sync", "conflict"} : Copy(a, c) \in Messages(c)
  BY <1>5, CopyIsMessage
<1>7. r1 \in Replicas /\ Sound(r1, at, n) /\ Follows(r1, r)
  BY <1>1, <1>5, <1>6, MergeIsSound
<1>8. r2 \in Replicas /\ Sound(r2, at, n) /\ Follows(r2, r1)
  BY <1>2, <1>5, <1>6, <1>7, MergeIsSound
<1>9. r3 \in Replicas /\ Sound(r3, at, n) /\ Follows(r3, r2)
  BY <1>3, <1>5, <1>6, <1>8, MergeIsSound
<1>10. r4 \in Replicas /\ Sound(r4, at, n) /\ Follows(r4, r3)
  BY <1>4, <1>5, <1>6, <1>9, MergeIsSound
<1>11. Applied(r, a) = IF a.conflict.cand = None THEN r3 ELSE r4
  BY <1>1, <1>2, <1>3, <1>4 DEF Applied
<1>12. ApplySteps(r, a, r1, r2, r3, Applied(r, a))
  BY <1>1, <1>2, <1>3, <1>4, <1>11 DEF ApplySteps
<1>13. Applied(r, a) \in Replicas /\ Sound(Applied(r, a), at, n) /\ Follows(Applied(r, a), r3)
  BY <1>9, <1>10, <1>11, FollowsItself
<1>14. QED BY <1>7, <1>8, <1>9, <1>12, <1>13

-----------------------------------------------------------------------------
(* Steps *)

\* The process changes, and owes what is new.
Changes ==
  /\ UNCHANGED <<window, sequence, flight, prefs>> /\ owed \subseteq owed'
  /\ \/ /\ session' = session /\ revision' >= revision /\ turn' >= turn
        /\ revision' # revision => "snapshot" \in owed'
        /\ "sync" \in owed' /\ (turn' = turn => engine' = engine)
     \/ /\ session'.gen = session.gen + 1 /\ turn' = turn + 1 /\ revision' = revision
        /\ "auth" \in owed' /\ (session'.loggedIn => {"snapshot", "sync"} \subseteq owed')

\* A part of it is sent.
Sends(p) ==
  /\ Stamp({p}) /\ Send(With(p)) /\ owed' = owed \ {p}
  /\ UNCHANGED <<session, revision, engine, turn, window>> /\ (p # "settings" => prefs' = prefs)

\* The window gives up, tries again, or asks again.
Moves ==
  /\ UNCHANGED <<session, revision, engine, turn, prefs, sequence, owed, flight, answer, replica, settings>>
  /\ call # "answered" /\ call' # "answered"
  /\ phase' \in {"ready", "stale"} => phase \in {"ready", "stale"}
  /\ phase' # "asking"

\* A step changes the process, sends a part of it, or moves the window on.
LEMMA StepKinds ==
  ASSUME Types, CallOK, Next
  PROVE  /\ CallOK'
         /\ \/ Changes
            \/ \E p \in Parts : Sends(p)
            \/ \E ok \in BOOLEAN : Subscribe(ok) \/ Answer(ok)
            \/ Apply \/ Moves
            \/ \E c \in Channels : \E m \in flight[c] : Deliver(c, m)
<1>0. /\ ProcessOK /\ SendingOK /\ revision \in Nat /\ turn \in Nat /\ session.gen \in Nat
  BY DEF Types, ProcessOK
<1>1. CASE Edit
  <2>1. Changes
    BY <1>0, <1>1 DEF Edit, Change, Owe, Changes, preferences
  <2>2. QED BY <1>1, <2>1 DEF Edit, Change, window, CallOK
<1>2. CASE Progress
  <2>1. Changes
    BY <1>0, <1>2 DEF Progress, Change, Owe, Changes, preferences
  <2>2. QED BY <1>2, <2>1 DEF Progress, Change, window, CallOK
<1>3. ASSUME NEW loggedIn \in BOOLEAN, Change, Begins(loggedIn), NEW cs, Owe(cs), "auth" \in cs,
             loggedIn => {"snapshot", "sync"} \subseteq cs
      PROVE  Changes /\ CallOK'
  <2>1. session'.gen = session.gen + 1 /\ session'.loggedIn = loggedIn
        /\ turn' = turn + 1 /\ revision' = revision /\ prefs' = prefs
    BY <1>3 DEF Begins, preferences
  <2>2. UNCHANGED <<window, sequence, flight>> /\ owed \subseteq owed' /\ cs \subseteq owed'
    BY <1>3 DEF Change, Owe
  <2>3. Changes
    BY <1>3, <2>1, <2>2 DEF Changes
  <2>4. QED BY <2>2, <2>3 DEF window, CallOK
<1>4. CASE Reset
  BY <1>3, <1>4 DEF Reset
<1>5. CASE \E ok \in BOOLEAN : BeginLogin(ok) \/ EndLogin(ok)
  BY <1>3, <1>5 DEF BeginLogin, EndLogin
<1>6. CASE \E failing \in Failures : ChangePreferences(failing)
  <2>1. With("settings") = {"settings"} /\ "settings" \in Parts /\ owed \ {"settings"} = owed
    BY <1>0 DEF With, Parts, SendingOK
  <2>2. Sends("settings") /\ UNCHANGED window
    BY <1>6, <2>1 DEF ChangePreferences, Change, Sends
  <2>3. QED BY <2>1, <2>2 DEF window, CallOK
<1>7. ASSUME NEW c \in Channels, Emit(c)
      PROVE  CallOK' /\ \E p \in Parts : Sends(p)
  <2>1. c \in Parts /\ Sends(c) /\ UNCHANGED window
    BY <1>0, <1>7 DEF Emit, Parts, SendingOK, Sends, process, preferences, bounds
  <2>2. QED BY <2>1 DEF window, CallOK
<1>8. CASE \E ok \in BOOLEAN : Subscribe(ok) \/ Answer(ok)
  BY <1>8 DEF Subscribe, Answer, CallOK
<1>9. CASE Apply
  BY <1>9 DEF Apply, CallOK
<1>10. CASE Fail \/ Repair \/ Retry
  <2>1. Moves /\ CallOK'
    BY <1>10 DEF Fail, Repair, Retry, CallOK, Moves, process, preferences, sending, bounds
  <2>2. QED BY <2>1
<1>11. ASSUME NEW c \in Channels, NEW m \in flight[c], Deliver(c, m) PROVE CallOK'
  BY <1>11 DEF Deliver, CallOK
<1>12. QED BY <1>1, <1>2, <1>4, <1>5, <1>6, <1>7, <1>8, <1>9, <1>10, <1>11 DEF Next, Work

\* What is sent: copies of the present state with the next event revision.
LEMMA SendsCopies ==
  ASSUME Types, ProcessOK', NEW p \in Parts, Sends(p)
  PROVE  /\ \A q \in Parts : sequence'[q] = IF q = p THEN sequence[q] + 1 ELSE sequence[q]
         /\ p \in Channels /\ With(p) \in SUBSET Channels /\ p \in With(p)
         /\ \A c \in Channels :
              flight'[c] = IF c \in With(p) THEN flight[c] \cup {Copy(Present, c)} ELSE flight[c]
         /\ \A c \in With(p) : c = p \/ (c = "conflict" /\ p = "sync" /\ engine.cand # None)
         /\ p = "sync" /\ engine.cand # None => "conflict" \in With(p)
         /\ \A c \in With(p) : /\ Copy(Present, c).gen = session.gen
                               /\ Copy(Present, c).event = sequence[p] + 1
         /\ Copy(Present, "auth").data = session.loggedIn
         /\ Copy(Present, "snapshot").data = revision
         /\ Copy(Present, "sync").data = SyncView
         /\ Copy(Present, "conflict").data = ConflictView
         /\ Copy(Present, "settings").data = prefs'
<1>1. /\ SendingOK /\ prefs' \in PrefsViews /\ Stamp({p}) /\ Send(With(p))
      /\ p \in Channels /\ p \in With(p) /\ {p} \in SUBSET Parts /\ With(p) \in SUBSET Channels
      /\ \A c \in With(p) : c = p \/ (c = "conflict" /\ p = "sync" /\ engine.cand # None)
      /\ p = "sync" /\ engine.cand # None => "conflict" \in With(p)
  BY DEF Types, ProcessOK, Sends, With, Parts, Channels
<1>2. /\ sequence' \in [Parts -> Nat]
      /\ \A q \in Parts : sequence'[q] = IF q = p THEN sequence[q] + 1 ELSE sequence[q]
  BY <1>1, StampKept
<1>3. \A c \in Channels :
        flight'[c] = IF c \in With(p) THEN flight[c] \cup {Copy(Present, c)} ELSE flight[c]
  BY <1>1, <1>2, SendKept
<1>4. \A c \in With(p) : Copy(Present, c).gen = session.gen /\ Copy(Present, c).event = sequence[p] + 1
  <2>1. \A c \in With(p) : PartOf(c) = p
    BY <1>1 DEF PartOf, Parts
  <2>2. QED BY <1>2, <2>1 DEF Copy, Present
<1>5. /\ Copy(Present, "auth").data = session.loggedIn
      /\ Copy(Present, "snapshot").data = revision
      /\ Copy(Present, "sync").data = SyncView
      /\ Copy(Present, "conflict").data = ConflictView
      /\ Copy(Present, "settings").data = prefs'
  BY DEF Copy, Present, AuthView, SnapshotView, SettingsView
<1>6. QED BY <1>1, <1>2, <1>3, <1>4, <1>5

\* The answer as messages.
LEMMA AnswerCopies ==
  ASSUME Types, call = "answered"
  PROVE  /\ answer \in Answers
         /\ \A c \in Channels : Copy(answer, c) \in Messages(c) /\ Copy(answer, c).gen = answer.gen
         /\ Copy(answer, "auth").data = answer.auth
         /\ Copy(answer, "snapshot").data = answer.snapshot
         /\ Copy(answer, "sync").data = answer.sync
         /\ Copy(answer, "conflict").data = answer.conflict
         /\ Copy(answer, "settings").data = answer.settings
         /\ Copy(answer, "snapshot").event = answer.event["snapshot"]
         /\ Copy(answer, "sync").event = answer.event["sync"]
         /\ Copy(answer, "conflict").event = answer.event["sync"]
         /\ Copy(answer, "settings").event = answer.event["settings"]
<1>1. answer \in Answers
  BY DEF Types, WindowOK
<1>2. \A c \in Channels : Copy(answer, c) \in Messages(c)
  BY <1>1, CopyIsMessage
<1>3. QED BY <1>1, <1>2 DEF Copy, PartOf

\* What answering does.
LEMMA Answers1 ==
  ASSUME Types, Types', Answer(TRUE)
  PROVE  /\ call = "asked" /\ call' = "answered" /\ answer'.gen = session.gen
         /\ answer'.auth = session.loggedIn /\ answer'.snapshot = revision
         /\ answer'.sync = SyncView /\ answer'.conflict = ConflictView /\ answer'.settings = prefs
         /\ \A p \in Parts : sequence'[p] = sequence[p] + 1 /\ answer'.event[p] = sequence[p] + 1
         /\ UNCHANGED <<session, revision, engine, turn, prefs, owed, flight, phase, replica, settings>>
<1>1. Stamp(Parts) /\ answer' = Present /\ call = "asked" /\ call' = "answered"
      /\ UNCHANGED <<session, revision, engine, turn, prefs, owed, flight, phase, replica, settings>>
  BY DEF Answer, Fault, process, preferences
<1>2. \A p \in Parts : sequence'[p] = sequence[p] + 1
  BY <1>1, StampKept DEF Types
<1>3. QED BY <1>1, <1>2 DEF Present, AuthView, SnapshotView, SettingsView

\* No step makes a copy of a session that has not begun, or of another account.
LEMMA SessionsStep ==
  ASSUME Types, Types', CallOK, Next, NEW at, EngineKnown(at), SessionsOK
  PROVE  SessionsOK'
<1>0. /\ session.gen \in Nat /\ session'.gen \in Nat /\ replica \in Replicas /\ replica.gen \in Nat
      /\ {"auth", "snapshot", "sync", "conflict"} = Channels \ {"settings"}
      /\ \A c \in Channels : \A m \in flight[c] : m \in Messages(c) /\ m.gen \in Nat
      /\ call = "answered" => answer.gen \in Nat
  BY DEF Types, ProcessOK, WindowOK, SendingOK, Replicas, Channels, Messages, Answers
<1>1. CASE Changes
  <2>1. UNCHANGED <<flight, replica, call, answer>>
    BY <1>1 DEF Changes, window
  <2>2. CASE session' = session
    BY <2>1, <2>2 DEF SessionsOK, LoginOK
  <2>3. CASE session'.gen = session.gen + 1
    BY <1>0, <2>1, <2>3 DEF SessionsOK, LoginOK
  <2>4. QED BY <1>1, <2>2, <2>3 DEF Changes
<1>2. ASSUME NEW p \in Parts, Sends(p) PROVE SessionsOK'
  <2>1. UNCHANGED <<session, replica, call, answer>>
    BY <1>2 DEF Sends, window
  <2>2. /\ \A c \in Channels : \A m \in flight'[c] : m \in flight[c] \/ m.gen = session.gen
        /\ \A m \in flight'["auth"] : m \in flight["auth"] \/ m.data = session.loggedIn
    <3>1. ProcessOK'
      BY DEF Types
    <3>2. /\ \A c \in Channels :
               flight'[c] = IF c \in With(p) THEN flight[c] \cup {Copy(Present, c)} ELSE flight[c]
          /\ \A c \in With(p) : Copy(Present, c).gen = session.gen
          /\ Copy(Present, "auth").data = session.loggedIn
      BY <1>2, <3>1, SendsCopies
    <3>3. QED BY <1>0, <3>2
  <2>3. QED BY <1>0, <2>1, <2>2 DEF SessionsOK, LoginOK
<1>3. ASSUME NEW ok \in BOOLEAN, Subscribe(ok) PROVE SessionsOK'
  <2>1. \A c \in Channels : flight'[c] \subseteq flight[c]
    BY <1>3 DEF Subscribe, Without
  <2>2. UNCHANGED <<session, replica>> /\ (call' = "answered" => UNCHANGED <<call, answer>>)
    BY <1>3 DEF Subscribe, Fault, process
  <2>3. QED BY <1>0, <2>1, <2>2 DEF SessionsOK, LoginOK
<1>4. ASSUME NEW ok \in BOOLEAN, Answer(ok) PROVE SessionsOK'
  <2>1. CASE ok
    <3>1. Answer(TRUE)
      BY <1>4, <2>1
    <3>2. QED BY <1>0, <3>1, Answers1 DEF SessionsOK, LoginOK
  <2>2. CASE ~ok
    BY <1>4, <2>2 DEF Answer, Fault, process, SessionsOK, LoginOK
  <2>3. QED BY <2>1, <2>2
<1>5. CASE Apply
  <2>1. /\ call = "answered" /\ replica' = Applied(replica, answer) /\ call' # "answered"
        /\ UNCHANGED <<session, flight>>
    BY <1>5 DEF Apply, process, sending
  <2>2. PICK r1 \in Replicas, r2 \in Replicas, r3 \in Replicas :
          ApplySteps(replica, answer, r1, r2, r3, replica')
    BY <1>0, <2>1, ApplyChain DEF EngineKnown, Types, WindowOK, SendingOK, Parts
  <2>3. answer.gen <= session.gen /\ (answer.gen = session.gen => answer.auth = session.loggedIn)
    BY <2>1 DEF SessionsOK
  <2>4. r1.gen <= session.gen /\ LoginOK(r1)
    BY <1>0, <2>1, <2>2, <2>3, AnswerCopies, MergeIsOfSession DEF ApplySteps, SessionsOK
  <2>5. r2.gen <= session.gen /\ LoginOK(r2)
    BY <1>0, <2>1, <2>2, <2>3, <2>4, AnswerCopies, MergeIsOfSession DEF ApplySteps
  <2>6. r3.gen <= session.gen /\ LoginOK(r3)
    BY <1>0, <2>1, <2>2, <2>3, <2>5, AnswerCopies, MergeIsOfSession DEF ApplySteps
  <2>7. replica'.gen <= session.gen /\ LoginOK(replica')
    BY <1>0, <2>1, <2>2, <2>3, <2>6, AnswerCopies, MergeIsOfSession DEF ApplySteps
  <2>8. QED BY <2>1, <2>7 DEF SessionsOK, LoginOK
<1>6. CASE Moves
  BY <1>6 DEF Moves, SessionsOK, LoginOK
<1>7. ASSUME NEW c \in Channels, NEW m \in flight[c], Deliver(c, m) PROVE SessionsOK'
  <2>1. /\ UNCHANGED session /\ (call' = "answered" => UNCHANGED <<call, answer>>)
        /\ replica' = IF c = "settings" THEN replica ELSE Merged(replica, c, m)
        /\ flight' = [flight EXCEPT ![c] = @ \ {m}]
    BY <1>7 DEF Deliver, process
  <2>2. \A d \in Channels : flight'[d] \subseteq flight[d]
    BY <2>1 DEF Types, SendingOK
  <2>3. replica'.gen <= session.gen /\ LoginOK(replica')
    <3>1. CASE c = "settings"
      BY <2>1, <3>1 DEF SessionsOK
    <3>2. CASE c # "settings"
      <4>1. c \in Channels \ {"settings"} /\ m \in Messages(c) /\ m.gen <= session.gen
            /\ (c = "auth" /\ m.gen = session.gen => m.data = session.loggedIn)
        BY <1>0, <3>2 DEF SessionsOK
      <4>2. QED BY <1>0, <2>1, <3>2, <4>1, MergeIsOfSession DEF SessionsOK
    <3>3. QED BY <3>1, <3>2
  <2>4. QED BY <1>0, <2>1, <2>2, <2>3 DEF SessionsOK, LoginOK
<1>8. QED BY <1>1, <1>2, <1>3, <1>4, <1>5, <1>6, <1>7, StepKinds

\* The tasks: what is new is a copy of the present ones, or nothing.
LEMMA TasksOn ==
  ASSUME Types, Types', TasksKnown,
         sequence'["snapshot"] >= sequence["snapshot"], revision' >= revision,
         \A t \in TaskCopies' :
           \/ t \in TaskCopies \/ t = NoTasks
           \/ /\ sequence'["snapshot"] = sequence["snapshot"] + 1
              /\ t = [event |-> sequence["snapshot"] + 1, revision |-> revision]
  PROVE  TasksKnown'
<1>1. /\ sequence["snapshot"] \in Nat /\ revision \in Nat
      /\ sequence'["snapshot"] \in Nat /\ revision' \in Nat
  BY DEF Types, ProcessOK, SendingOK, Parts
<1>2. \A t \in TaskCopies : t.event \in Nat /\ t.revision \in Nat
  <2>1. \A m \in flight["snapshot"] : m.event \in Nat /\ m.data \in Nat
    BY DEF Types, SendingOK, Channels, Messages, Payloads
  <2>2. replica.snapshot.event \in Nat /\ replica.snapshot.revision \in Nat
    BY DEF Types, WindowOK, Replicas
  <2>3. call = "answered" => answer.event["snapshot"] \in Nat /\ answer.snapshot \in Nat
    BY DEF Types, WindowOK, Answers, Parts
  <2>4. QED BY <2>1, <2>2, <2>3 DEF TaskCopies
<1> DEFINE new == [event |-> sequence["snapshot"] + 1, revision |-> revision]
<1>3. NoTasks.event = 0 /\ NoTasks.revision = 0
      /\ new.event = sequence["snapshot"] + 1 /\ new.revision = revision
  BY DEF NoTasks
<1> HIDE DEF new
<1>4. /\ \A t \in TaskCopies : t.event <= sequence["snapshot"] /\ t.revision <= revision
                               /\ (t.event = 0 => t.revision = 0)
      /\ \A t, u \in TaskCopies : t.event <= u.event => t.revision <= u.revision
  BY DEF TasksKnown, Ordered
<1>5. \A t \in TaskCopies' :
        t \in TaskCopies \/ t = NoTasks
        \/ (sequence'["snapshot"] = sequence["snapshot"] + 1 /\ t = new)
  BY DEF new
<1>6. \A t \in TaskCopies' : t.event <= sequence'["snapshot"] /\ t.revision <= revision'
                             /\ (t.event = 0 => t.revision = 0)
  BY <1>1, <1>2, <1>3, <1>4, <1>5
<1>7. ASSUME NEW t \in TaskCopies', NEW u \in TaskCopies', t.event <= u.event
      PROVE  t.revision <= u.revision
  <2>1. CASE t \in TaskCopies /\ u \in TaskCopies
    BY <1>4, <1>7, <2>1
  <2>2. CASE t = NoTasks
    BY <1>1, <1>2, <1>3, <1>5, <1>7, <2>2
  <2>3. CASE u = NoTasks
    BY <1>1, <1>2, <1>3, <1>4, <1>5, <1>7, <2>3
  <2>4. CASE u = new
    BY <1>1, <1>2, <1>3, <1>4, <1>5, <1>7, <2>4
  <2>5. CASE t = new /\ u \in TaskCopies
    BY <1>1, <1>2, <1>3, <1>4, <1>7, <2>5
  <2>6. QED BY <1>5, <2>1, <2>2, <2>3, <2>4, <2>5
<1>8. QED BY <1>6, <1>7 DEF TasksKnown, Ordered

\* Every step keeps the order of the copies of the tasks.
LEMMA TasksStep ==
  ASSUME Types, Types', CallOK, Next, NEW at, EngineKnown(at), TasksKnown
  PROVE  TasksKnown'
<1> DEFINE n == sequence["snapshot"]
           New(t) == sequence'["snapshot"] = n + 1 /\ t = [event |-> n + 1, revision |-> revision]
           Grows == \A t \in TaskCopies' : t \in TaskCopies \/ t = NoTasks \/ New(t)
<1>0. /\ n \in Nat /\ revision \in Nat /\ replica \in Replicas /\ "snapshot" \in Parts
      /\ "snapshot" \in Channels /\ {"auth", "snapshot", "sync", "conflict"} = Channels \ {"settings"}
      /\ \A c \in Channels : \A m \in flight[c] : m \in Messages(c)
  BY DEF Types, ProcessOK, WindowOK, SendingOK, Channels, Parts
<1>1. ASSUME sequence'["snapshot"] >= n, revision' >= revision, Grows PROVE TasksKnown'
  BY <1>1, TasksOn
<1>2. CASE Changes
  <2>1. UNCHANGED <<flight, replica, call, answer, sequence>> /\ revision' >= revision
    BY <1>0, <1>2 DEF Changes, window
  <2>2. TaskCopies' = TaskCopies
    BY <2>1 DEF TaskCopies
  <2>3. QED BY <1>0, <1>1, <2>1, <2>2
<1>3. ASSUME NEW p \in Parts, Sends(p) PROVE TasksKnown'
  <2>1. UNCHANGED <<revision, replica, call, answer>> /\ ProcessOK'
    BY <1>3 DEF Sends, window, Types
  <2>2. /\ sequence'["snapshot"] = IF p = "snapshot" THEN n + 1 ELSE n
        /\ flight'["snapshot"] = IF "snapshot" \in With(p)
                                 THEN flight["snapshot"] \cup {Copy(Present, "snapshot")}
                                 ELSE flight["snapshot"]
        /\ "snapshot" \in With(p) => p = "snapshot" /\ Copy(Present, "snapshot").event = n + 1
        /\ Copy(Present, "snapshot").data = revision
    BY <1>0, <1>3, <2>1, SendsCopies
  <2>3. Grows
    BY <2>1, <2>2 DEF TaskCopies
  <2>4. QED BY <1>0, <1>1, <2>1, <2>2, <2>3
<1>4. ASSUME NEW ok \in BOOLEAN, Subscribe(ok) PROVE TasksKnown'
  <2>1. flight'["snapshot"] \subseteq flight["snapshot"]
    BY <1>0, <1>4 DEF Subscribe, Without
  <2>2. UNCHANGED <<revision, replica, sequence>> /\ (call' = "answered" => UNCHANGED <<call, answer>>)
    BY <1>4 DEF Subscribe, Fault, process
  <2>3. Grows
    BY <2>1, <2>2 DEF TaskCopies
  <2>4. QED BY <1>0, <1>1, <2>2, <2>3
<1>5. ASSUME NEW ok \in BOOLEAN, Answer(ok) PROVE TasksKnown'
  <2>1. CASE ok
    <3>1. Answer(TRUE)
      BY <1>5, <2>1
    <3>2. /\ answer'.snapshot = revision /\ answer'.event["snapshot"] = n + 1
          /\ sequence'["snapshot"] = n + 1 /\ UNCHANGED <<revision, flight, replica>>
      BY <1>0, <3>1, Answers1
    <3>3. Grows
      BY <3>2 DEF TaskCopies
    <3>4. QED BY <1>0, <1>1, <3>2, <3>3
  <2>2. CASE ~ok
    <3>1. UNCHANGED <<revision, flight, replica, sequence>> /\ call' # "answered"
      BY <1>5, <2>2 DEF Answer, Fault, process
    <3>2. Grows
      BY <3>1 DEF TaskCopies
    <3>3. QED BY <1>0, <1>1, <3>1, <3>2
  <2>3. QED BY <2>1, <2>2
<1>6. CASE Apply
  <2>1. /\ call = "answered" /\ replica' = Applied(replica, answer) /\ call' # "answered"
        /\ UNCHANGED <<revision, flight, sequence>>
    BY <1>6 DEF Apply, process, sending
  <2>2. PICK r1 \in Replicas, r2 \in Replicas, r3 \in Replicas :
          ApplySteps(replica, answer, r1, r2, r3, replica')
    BY <1>0, <2>1, ApplyChain DEF EngineKnown, Types, WindowOK, SendingOK, Parts
  <2> DEFINE copy == [event |-> answer.event["snapshot"], revision |-> answer.snapshot]
  <2>3. /\ \A c \in Channels : Copy(answer, c) \in Messages(c)
        /\ Copy(answer, "snapshot").event = answer.event["snapshot"]
        /\ Copy(answer, "snapshot").data = answer.snapshot
    BY <2>1, AnswerCopies
  <2>4. ASSUME NEW r \in Replicas, NEW c \in {"auth", "snapshot", "sync", "conflict"}
        PROVE  \/ Merged(r, c, Copy(answer, c)).snapshot \in {r.snapshot, NoTasks}
               \/ c = "snapshot" /\ Merged(r, c, Copy(answer, c)).snapshot = copy
    <3>1. c \in Channels \ {"settings"} /\ Copy(answer, c) \in Messages(c)
      BY <1>0, <2>3
    <3>2. PICK m : m = Copy(answer, c)
      OBVIOUS
    <3>3. \/ Merged(r, c, m).snapshot \in {r.snapshot, NoTasks}
          \/ /\ c = "snapshot"
             /\ Merged(r, c, m).snapshot = [event |-> m.event, revision |-> m.data]
      BY <3>1, <3>2, MergeOfTasks
    <3>4. c = "snapshot" => m.event = answer.event["snapshot"] /\ m.data = answer.snapshot
      BY <2>3, <3>2
    <3>5. QED BY <3>2, <3>3, <3>4
  <2>5. r1.snapshot \in {replica.snapshot, NoTasks} /\ r2.snapshot \in {r1.snapshot, NoTasks, copy}
    BY <1>0, <2>2, <2>4 DEF ApplySteps
  <2>6. r3.snapshot \in {r2.snapshot, NoTasks}
    BY <1>0, <2>2, <2>4 DEF ApplySteps
  <2>7. replica'.snapshot \in {r3.snapshot, NoTasks}
    BY <1>0, <2>2, <2>4 DEF ApplySteps
  <2>8. Grows
    BY <2>1, <2>5, <2>6, <2>7 DEF TaskCopies
  <2>9. QED BY <1>0, <1>1, <2>1, <2>8
<1>7. CASE Moves
  <2>1. UNCHANGED <<revision, flight, replica, sequence>> /\ call' # "answered"
    BY <1>7 DEF Moves
  <2>2. Grows
    BY <2>1 DEF TaskCopies
  <2>3. QED BY <1>0, <1>1, <2>1, <2>2
<1>8. ASSUME NEW c \in Channels, NEW m \in flight[c], Deliver(c, m) PROVE TasksKnown'
  <2>1. /\ UNCHANGED <<revision, sequence>> /\ (call' = "answered" => UNCHANGED <<call, answer>>)
        /\ replica' = IF c = "settings" THEN replica ELSE Merged(replica, c, m)
        /\ flight' = [flight EXCEPT ![c] = @ \ {m}]
    BY <1>8 DEF Deliver, process
  <2>2. flight'["snapshot"] \subseteq flight["snapshot"]
    BY <1>0, <2>1 DEF Types, SendingOK
  <2>3. \/ replica'.snapshot \in {replica.snapshot, NoTasks}
        \/ c = "snapshot" /\ replica'.snapshot = [event |-> m.event, revision |-> m.data]
    BY <1>0, <2>1, MergeOfTasks
  <2>4. Grows
    BY <2>1, <2>2, <2>3 DEF TaskCopies
  <2>5. QED BY <1>0, <1>1, <2>1, <2>4
<1>9. QED BY <1>2, <1>3, <1>4, <1>5, <1>6, <1>7, <1>8, StepKinds

\* No view of the engine is sent.
LEMMA ViewsStay ==
  ASSUME Types, Types', NEW views, ViewsKnown(views), sequence'["sync"] = sequence["sync"],
         flight'["sync"] \subseteq flight["sync"], flight'["conflict"] \subseteq flight["conflict"],
         call' = "answered" => call = "answered" /\ answer' = answer,
         Known(replica', views, sequence["sync"]),
         turn' >= turn, turn' = turn => engine' = engine
  PROVE  ViewsKnown(views)'
<1> DEFINE n == sequence["sync"]
<1>1. n \in Nat /\ turn \in Nat /\ turn' \in Nat
  BY DEF Types, SendingOK, ProcessOK, Parts
<1>2. /\ views \in [1 .. n -> EngineViews]
      /\ \A e \in 1 .. n : views[e].turn \in Nat /\ views[e].turn <= turn
                            /\ (views[e].turn = turn => views[e] = SyncView)
  BY DEF ViewsKnown, EngineViews
<1>3. \A e \in 1 .. n : views[e].turn <= turn' /\ (views[e].turn = turn' => views[e] = SyncView')
  <2>1. turn' = turn => SyncView' = SyncView
    BY DEF SyncView
  <2>2. QED BY <1>1, <1>2, <2>1
<1>4. QED BY <1>2, <1>3 DEF ViewsKnown, Copy

\* The present view is sent, or everything is answered.
LEMMA ViewsGrow ==
  ASSUME Types, UNCHANGED <<turn, engine, replica>>, NEW views, ViewsKnown(views),
         sequence'["sync"] = sequence["sync"] + 1,
         \A m \in flight'["sync"] :
           m \in flight["sync"] \/ (m.event = sequence["sync"] + 1 /\ m.data = SyncView),
         \A m \in flight'["conflict"] :
           \/ m \in flight["conflict"]
           \/ m.event = sequence["sync"] + 1 /\ m.data.cand = engine.cand /\ engine.cand # None,
         call' = "answered" =>
           \/ call = "answered" /\ answer' = answer
           \/ /\ answer'.event["sync"] = sequence["sync"] + 1
              /\ answer'.sync = SyncView /\ answer'.conflict = ConflictView
  PROVE  \E w : ViewsKnown(w)'
<1> DEFINE n == sequence["sync"]
<1>1. n \in Nat /\ SyncView \in EngineViews /\ SyncView.turn = turn /\ SyncView.cand = engine.cand
      /\ ConflictView.cand = engine.cand /\ turn \in Nat
  BY DEF Types, SendingOK, ProcessOK, Parts, SyncView, ConflictView, EngineViews, Engines
<1>2. PICK w : w = [e \in 1 .. n + 1 |-> IF e \in 1 .. n THEN views[e] ELSE SyncView]
  OBVIOUS
<1>3. /\ views \in [1 .. n -> EngineViews] /\ Known(replica, views, n)
      /\ \A e \in 1 .. n : views[e].turn <= turn /\ (views[e].turn = turn => views[e] = SyncView)
      /\ \A m \in flight["sync"] : Tells(m, views, n)
      /\ \A m \in flight["conflict"] : Names(m, views, n)
  BY DEF ViewsKnown
<1>4. /\ \A e \in 1 .. n : e \in 1 .. n + 1 /\ w[e] = views[e]
      /\ n + 1 \in 1 .. n + 1 /\ w[n + 1] = SyncView
      /\ w \in [1 .. n + 1 -> EngineViews]
      /\ \A e \in 1 .. n + 1 : e \in 1 .. n \/ e = n + 1
  BY <1>1, <1>2, <1>3
<1>5. \A e \in 1 .. n + 1 : w[e].turn <= turn /\ (w[e].turn = turn => w[e] = SyncView)
  BY <1>1, <1>3, <1>4
<1>6. \A m \in flight'["sync"] : Tells(m, w, n + 1)
  BY <1>3, <1>4 DEF Tells
<1>7. \A m \in flight'["conflict"] : Names(m, w, n + 1)
  BY <1>1, <1>3, <1>4 DEF Names
<1>8. call' = "answered" =>
        Tells(Copy(answer', "sync"), w, n + 1) /\ answer'.conflict.cand = answer'.sync.cand
  <2>1. CASE call' = "answered" /\ call = "answered" /\ answer' = answer
    <3>1. Tells(Copy(answer, "sync"), views, n) /\ answer.conflict.cand = answer.sync.cand
      BY <2>1 DEF ViewsKnown
    <3>2. QED BY <1>4, <2>1, <3>1 DEF Tells
  <2>2. CASE /\ answer'.event["sync"] = n + 1
             /\ answer'.sync = SyncView /\ answer'.conflict = ConflictView
    <3>1. Copy(answer', "sync").event = n + 1 /\ Copy(answer', "sync").data = SyncView
      BY <2>2 DEF Copy, PartOf
    <3>2. QED BY <1>1, <1>4, <2>2, <3>1 DEF Tells
  <2>3. QED BY <2>1, <2>2
<1>9. Known(replica, w, n + 1)
  <2>1. replica.mark \in Nat
    BY DEF Types, WindowOK, Replicas
  <2>2. QED BY <1>1, <1>3, <1>4, <2>1 DEF Known, Tells
<1>10. SyncView' = SyncView
  BY DEF SyncView
<1>11. ViewsKnown(w)'
  BY <1>4, <1>5, <1>6, <1>7, <1>8, <1>9, <1>10 DEF ViewsKnown, Copy
<1>12. QED BY <1>11

\* Every step keeps the copies of the engine's view on a line of views.
LEMMA ViewsStep ==
  ASSUME Types, Types', CallOK, Next, NEW at, EngineKnown(at), NEW views, ViewsKnown(views)
  PROVE  \E w : ViewsKnown(w)'
<1> DEFINE n == sequence["sync"]
<1>0. /\ n \in Nat /\ turn \in Nat /\ replica \in Replicas /\ "sync" \in Parts /\ ProcessOK'
      /\ {"auth", "snapshot", "sync", "conflict"} = Channels \ {"settings"} /\ SendingOK
      /\ \A c \in Channels : \A m \in flight[c] : m \in Messages(c)
      /\ Known(replica, views, n)
  BY DEF Types, ProcessOK, WindowOK, SendingOK, Channels, Parts, ViewsKnown
<1>1. ASSUME sequence'["sync"] = n,
             flight'["sync"] \subseteq flight["sync"], flight'["conflict"] \subseteq flight["conflict"],
             call' = "answered" => call = "answered" /\ answer' = answer,
             Known(replica', views, n), turn' >= turn, turn' = turn => engine' = engine
      PROVE  \E w : ViewsKnown(w)'
  BY <1>1, ViewsStay
<1>2. CASE Changes
  <2>1. /\ UNCHANGED <<flight, replica, call, answer, sequence>>
        /\ turn' >= turn /\ (turn' = turn => engine' = engine)
    BY <1>0, <1>2 DEF Changes, window
  <2>2. QED BY <1>0, <1>1, <2>1
<1>3. ASSUME NEW p \in Parts, Sends(p) PROVE \E w : ViewsKnown(w)'
  <2>1. UNCHANGED <<turn, engine, replica, call, answer>>
    BY <1>3 DEF Sends, window
  <2>2. /\ \A q \in Parts : sequence'[q] = IF q = p THEN sequence[q] + 1 ELSE sequence[q]
        /\ \A c \in Channels :
             flight'[c] = IF c \in With(p) THEN flight[c] \cup {Copy(Present, c)} ELSE flight[c]
        /\ \A c \in With(p) : c = p \/ (c = "conflict" /\ p = "sync" /\ engine.cand # None)
        /\ \A c \in With(p) : Copy(Present, c).event = sequence[p] + 1
        /\ Copy(Present, "sync").data = SyncView /\ Copy(Present, "conflict").data = ConflictView
    BY <1>0, <1>3, SendsCopies
  <2>3. CASE p # "sync"
    <3>1. "sync" \notin With(p) /\ "conflict" \notin With(p)
      BY <2>2, <2>3 DEF Parts
    <3>2. sequence'["sync"] = n /\ flight'["sync"] = flight["sync"]
          /\ flight'["conflict"] = flight["conflict"]
      BY <1>0, <2>2, <2>3, <3>1
    <3>3. QED BY <1>0, <1>1, <2>1, <3>2
  <2>4. CASE p = "sync"
    <3>1. sequence'["sync"] = n + 1
      BY <1>0, <2>2, <2>4
    <3>2. \A m \in flight'["sync"] : m \in flight["sync"] \/ (m.event = n + 1 /\ m.data = SyncView)
      BY <1>0, <2>2, <2>4
    <3>3. \A m \in flight'["conflict"] :
            \/ m \in flight["conflict"]
            \/ m.event = n + 1 /\ m.data.cand = engine.cand /\ engine.cand # None
      <4>1. ConflictView.cand = engine.cand
        BY DEF ConflictView
      <4>2. QED BY <1>0, <2>2, <2>4, <4>1
    <3>4. QED BY <2>1, <3>1, <3>2, <3>3, ViewsGrow
  <2>5. QED BY <2>3, <2>4
<1>4. ASSUME NEW ok \in BOOLEAN, Subscribe(ok) PROVE \E w : ViewsKnown(w)'
  <2>1. flight'["sync"] \subseteq flight["sync"] /\ flight'["conflict"] \subseteq flight["conflict"]
    BY <1>0, <1>4 DEF Subscribe, Without
  <2>2. /\ UNCHANGED <<turn, engine, replica, sequence>>
        /\ (call' = "answered" => UNCHANGED <<call, answer>>)
    BY <1>4 DEF Subscribe, Fault, process
  <2>3. QED BY <1>0, <1>1, <2>1, <2>2
<1>5. ASSUME NEW ok \in BOOLEAN, Answer(ok) PROVE \E w : ViewsKnown(w)'
  <2>1. CASE ok
    <3>1. Answer(TRUE)
      BY <1>5, <2>1
    <3>2. /\ answer'.sync = SyncView /\ answer'.conflict = ConflictView
          /\ sequence'["sync"] = n + 1 /\ answer'.event["sync"] = n + 1
          /\ UNCHANGED <<turn, engine, flight, replica>>
      BY <1>0, <3>1, Answers1
    <3>3. QED BY <3>2, ViewsGrow
  <2>2. CASE ~ok
    <3>1. UNCHANGED <<turn, engine, flight, replica, sequence>> /\ call' # "answered"
      BY <1>5, <2>2 DEF Answer, Fault, process
    <3>2. QED BY <1>0, <1>1, <3>1
  <2>3. QED BY <2>1, <2>2
<1>6. CASE Apply
  <2>1. /\ call = "answered" /\ replica' = Applied(replica, answer) /\ call' # "answered"
        /\ UNCHANGED <<turn, engine, flight, sequence>>
    BY <1>6 DEF Apply, process, sending, bounds
  <2>2. PICK r1 \in Replicas, r2 \in Replicas, r3 \in Replicas :
          ApplySteps(replica, answer, r1, r2, r3, replica')
    BY <1>0, <2>1, ApplyChain DEF EngineKnown, Types, WindowOK
  <2>3. \A c \in Channels : Copy(answer, c) \in Messages(c)
    BY <2>1, AnswerCopies
  <2>4. Tells(Copy(answer, "sync"), views, n) /\ answer.conflict.cand = answer.sync.cand
    BY <2>1 DEF ViewsKnown
  <2>5. answer.conflict.cand # None => Names(Copy(answer, "conflict"), views, n)
    BY <2>1, <2>4, AnswerCopies DEF Tells, Names
  <2>6. ASSUME NEW r \in Replicas, NEW c \in {"auth", "snapshot", "sync", "conflict"},
               Known(r, views, n), c = "conflict" => answer.conflict.cand # None
        PROVE  Known(Merged(r, c, Copy(answer, c)), views, n)
    <3>1. c \in Channels \ {"settings"} /\ Copy(answer, c) \in Messages(c)
      BY <1>0, <2>3
    <3>2. (c = "sync" => Tells(Copy(answer, c), views, n))
          /\ (c = "conflict" => Names(Copy(answer, c), views, n))
      BY <2>4, <2>5, <2>6
    <3>3. QED BY <1>0, <2>6, <3>1, <3>2, MergeIsKnown
  <2>7. Known(r1, views, n)
    BY <1>0, <2>2, <2>6 DEF ApplySteps
  <2>8. Known(r2, views, n)
    BY <2>2, <2>6, <2>7 DEF ApplySteps
  <2>9. Known(r3, views, n)
    BY <2>2, <2>6, <2>8 DEF ApplySteps
  <2>10. Known(replica', views, n)
    BY <2>2, <2>6, <2>9 DEF ApplySteps
  <2>11. QED BY <1>0, <1>1, <2>1, <2>10
<1>7. CASE Moves
  <2>1. UNCHANGED <<turn, engine, flight, replica, sequence>> /\ call' # "answered"
    BY <1>7 DEF Moves
  <2>2. QED BY <1>0, <1>1, <2>1
<1>8. ASSUME NEW c \in Channels, NEW m \in flight[c], Deliver(c, m) PROVE \E w : ViewsKnown(w)'
  <2>1. /\ UNCHANGED <<turn, engine, sequence>>
        /\ (call' = "answered" => UNCHANGED <<call, answer>>)
        /\ replica' = IF c = "settings" THEN replica ELSE Merged(replica, c, m)
        /\ flight' = [flight EXCEPT ![c] = @ \ {m}]
    BY <1>8 DEF Deliver, process, bounds
  <2>2. \A d \in Channels : flight'[d] \subseteq flight[d]
    BY <2>1 DEF Types, SendingOK
  <2>3. Known(replica', views, n)
    <3>1. CASE c = "settings"
      BY <1>0, <2>1, <3>1
    <3>2. CASE c # "settings"
      <4>1. c \in Channels \ {"settings"} /\ m \in Messages(c)
        BY <1>0, <3>2
      <4>2. (c = "sync" => Tells(m, views, n)) /\ (c = "conflict" => Names(m, views, n))
        BY DEF ViewsKnown
      <4>3. QED BY <1>0, <2>1, <3>2, <4>1, <4>2, MergeIsKnown
    <3>3. QED BY <3>1, <3>2
  <2>4. QED BY <1>0, <1>1, <2>1, <2>2, <2>3
<1>9. \/ Changes
      \/ \E p \in Parts : Sends(p)
      \/ \E ok \in BOOLEAN : Subscribe(ok) \/ Answer(ok)
      \/ Apply \/ Moves
      \/ \E c \in Channels : \E m \in flight[c] : Deliver(c, m)
  BY StepKinds
<1> HIDE DEF n
<1>10. QED BY <1>2, <1>3, <1>4, <1>5, <1>6, <1>7, <1>8, <1>9

\* After an answer of an ended session, what comes of the present one is later.
LEMMA LaterStep ==
  ASSUME Types, Types', CallOK, Next, SessionsOK, NEW views, ViewsKnown(views), LaterSession
  PROVE  LaterSession'
<1> DEFINE e == answer.event["sync"]
           n == sequence["sync"]
<1>0. /\ n \in Nat /\ replica \in Replicas /\ "sync" \in Parts /\ ProcessOK' /\ session.gen \in Nat
      /\ replica.gen \in Nat /\ replica.gen <= session.gen
      /\ {"auth", "snapshot", "sync", "conflict"} = Channels \ {"settings"}
      /\ \A c \in Channels : \A m \in flight[c] : m \in Messages(c) /\ m.gen \in Nat
      /\ \A c \in {"sync", "conflict"} : \A m \in flight[c] : m.gen <= session.gen
  <2>1. /\ n \in Nat /\ replica \in Replicas /\ "sync" \in Parts /\ ProcessOK' /\ session.gen \in Nat
        /\ \A c \in Channels : flight[c] \subseteq Messages(c)
    BY DEF Types, ProcessOK, WindowOK, SendingOK, Parts
  <2>2. replica.gen \in Nat /\ \A c \in Channels : \A m \in flight[c] : m.gen \in Nat
    BY <2>1 DEF Messages, Replicas
  <2>3. {"auth", "snapshot", "sync", "conflict"} = Channels \ {"settings"}
    BY DEF Channels
  <2>4. /\ replica.gen <= session.gen
        /\ \A c \in {"sync", "conflict"} : \A m \in flight[c] : m.gen <= session.gen
    BY <2>3 DEF SessionsOK
  <2>5. QED BY <2>1, <2>2, <2>3, <2>4
<1>1. call = "answered" => e \in Nat /\ e <= n /\ answer.gen \in Nat /\ answer.gen <= session.gen
  <2>1. call = "answered" => Copy(answer, "sync").event \in 1 .. n
    BY DEF ViewsKnown, Tells
  <2>2. call = "answered" => answer.gen \in Nat /\ answer.gen <= session.gen
    BY DEF Types, WindowOK, Answers, SessionsOK
  <2>3. call = "answered" => Copy(answer, "sync").event = e
    BY AnswerCopies
  <2>4. QED BY <1>0, <2>1, <2>2, <2>3
<1>2. ASSUME session' = session, call' = "answered" => UNCHANGED <<call, answer>>,
             \A c \in {"sync", "conflict"} : \A m \in flight'[c] :
               m \in flight[c] \/ m.event = n + 1,
             call = "answered" /\ answer.gen < session.gen /\ AfterAnswer(replica, e) =>
               AfterAnswer(replica', e)
      PROVE  LaterSession'
  <2> SUFFICES ASSUME call' = "answered", answer'.gen < session'.gen
               PROVE  /\ \A c \in {"sync", "conflict"} : \A m \in flight'[c] :
                           m.gen = session'.gen => m.event > answer'.event["sync"]
                      /\ AfterAnswer(replica, answer.event["sync"])'
    BY DEF LaterSession
  <2>1. UNCHANGED <<session, call, answer>> /\ call = "answered" /\ answer.gen < session.gen
    BY <1>2
  <2>2. /\ \A c \in {"sync", "conflict"} : \A m \in flight[c] : m.gen = session.gen => m.event > e
        /\ AfterAnswer(replica, e)
    BY <2>1 DEF LaterSession
  <2>3. \A c \in {"sync", "conflict"} : \A m \in flight'[c] :
          m.gen = session'.gen => m.event > answer'.event["sync"]
    BY <1>0, <1>1, <1>2, <2>1, <2>2
  <2>4. AfterAnswer(replica', e)
    BY <1>2, <2>1, <2>2
  <2>5. QED BY <2>1, <2>3, <2>4 DEF AfterAnswer
<1>3. CASE Changes
  <2>1. UNCHANGED <<flight, replica, call, answer>>
    BY <1>3 DEF Changes, window
  <2>2. CASE session' = session
    BY <1>2, <2>1, <2>2
  <2>3. CASE session'.gen = session.gen + 1
    <3>1. /\ replica'.gen # session'.gen
          /\ \A c \in {"sync", "conflict"} : \A m \in flight'[c] : m.gen # session'.gen
      BY <1>0, <2>1, <2>3
    <3>2. QED BY <3>1 DEF LaterSession, AfterAnswer
  <2>4. QED BY <1>3, <2>2, <2>3 DEF Changes
<1>4. ASSUME NEW p \in Parts, Sends(p) PROVE LaterSession'
  <2>1. UNCHANGED <<session, replica, call, answer>>
    BY <1>4 DEF Sends, window
  <2>2. /\ \A c \in Channels :
             flight'[c] = IF c \in With(p) THEN flight[c] \cup {Copy(Present, c)} ELSE flight[c]
        /\ \A c \in With(p) : c = p \/ (c = "conflict" /\ p = "sync" /\ engine.cand # None)
        /\ \A c \in With(p) : Copy(Present, c).event = sequence[p] + 1
    BY <1>0, <1>4, SendsCopies
  <2>3. \A c \in {"sync", "conflict"} : c \in With(p) => p = "sync"
    BY <2>2 DEF Parts
  <2>4. \A c \in {"sync", "conflict"} : \A m \in flight'[c] : m \in flight[c] \/ m.event = n + 1
    <3> SUFFICES ASSUME NEW c \in {"sync", "conflict"}, NEW m \in flight'[c], m \notin flight[c]
                 PROVE  m.event = n + 1
      OBVIOUS
    <3>1. c \in Channels
      BY <1>0
    <3>2. c \in With(p) /\ m = Copy(Present, c)
      BY <2>2, <3>1
    <3>3. QED BY <2>2, <2>3, <3>2
  <2>5. QED BY <1>2, <2>1, <2>4
<1>5. ASSUME NEW ok \in BOOLEAN, Subscribe(ok) PROVE LaterSession'
  <2>1. \A c \in Channels : flight'[c] \subseteq flight[c]
    BY <1>5 DEF Subscribe, Without
  <2>2. UNCHANGED <<session, replica>> /\ (call' = "answered" => UNCHANGED <<call, answer>>)
    BY <1>5 DEF Subscribe, Fault, process
  <2>3. QED BY <1>0, <1>2, <2>1, <2>2
<1>6. ASSUME NEW ok \in BOOLEAN, Answer(ok) PROVE LaterSession'
  <2>1. CASE ok
    <3>1. Answer(TRUE)
      BY <1>6, <2>1
    <3>2. answer'.gen = session'.gen
      BY <3>1, Answers1
    <3>3. QED BY <1>0, <3>2, Answers1, <3>1 DEF LaterSession
  <2>2. CASE ~ok
    BY <1>6, <2>2 DEF Answer, LaterSession
  <2>3. QED BY <2>1, <2>2
<1>7. CASE Apply \/ Moves
  BY <1>7 DEF Apply, Moves, LaterSession
<1>8. ASSUME NEW c \in Channels, NEW m \in flight[c], Deliver(c, m) PROVE LaterSession'
  <2>1. /\ UNCHANGED session /\ (call' = "answered" => UNCHANGED <<call, answer>>)
        /\ replica' = IF c = "settings" THEN replica ELSE Merged(replica, c, m)
        /\ flight' = [flight EXCEPT ![c] = @ \ {m}]
    BY <1>8 DEF Deliver, process
  <2>2. \A d \in Channels : flight'[d] \subseteq flight[d]
    BY <2>1 DEF Types, SendingOK
  <2>3. ASSUME call = "answered", answer.gen < session.gen, AfterAnswer(replica, e)
        PROVE  AfterAnswer(replica', e)
    <3>1. CASE c = "settings"
      BY <2>1, <2>3, <3>1
    <3>2. CASE c # "settings"
      <4>1. c \in Channels \ {"settings"} /\ m \in Messages(c)
            /\ (c \in {"sync", "conflict"} /\ m.gen = session.gen => m.event > e)
        BY <1>0, <2>3, <3>2 DEF LaterSession
      <4>2. QED BY <1>0, <1>1, <2>1, <2>3, <3>2, <4>1, MergeIsAfter
    <3>3. QED BY <3>1, <3>2
  <2>4. QED BY <1>0, <1>2, <2>1, <2>2, <2>3
<1>9. QED BY <1>3, <1>4, <1>5, <1>6, <1>7, <1>8, StepKinds

-----------------------------------------------------------------------------
(* What is shown *)

\* What is current stays so when the replica does not go back.
LEMMA ShownStays ==
  ASSUME NEW q \in Replicas, NEW r \in Replicas, Follows(q, r), ProcessOK,
         q.gen <= session.gen, q.snapshot.revision <= revision,
         q.sync # None => q.sync.view.turn <= turn
  PROVE  /\ AuthShown(r) => AuthShown(q)
         /\ TasksShown(r) => TasksShown(q)
         /\ EngineShown(r) => EngineShown(q)
<1>1. /\ session.gen \in Nat /\ revision \in Nat /\ turn \in Nat /\ q.gen \in Nat /\ r.gen \in Nat
      /\ q.snapshot.revision \in Nat /\ r.snapshot.revision \in Nat
      /\ q.sync # None => q.sync.view.turn \in Nat
      /\ r.sync # None => r.sync.view.turn \in Nat
  BY DEF ProcessOK, Replicas, SyncStates, EngineViews
<1>2. QED BY <1>1 DEF Follows, AuthShown, TasksShown, EngineShown

\* Present tasks are shown once a copy of them is merged.
LEMMA MergeShowsTasks ==
  ASSUME NEW r \in Replicas, NEW m \in Messages("snapshot"), ProcessOK,
         r.gen <= session.gen, m.gen = session.gen, m.data = revision,
         r.snapshot.revision <= revision, m.event = 0 => m.data = 0,
         r.snapshot.event >= m.event => r.snapshot.revision >= m.data
  PROVE  TasksShown(Merged(r, "snapshot", m))
<1> DEFINE q == Merged(r, "snapshot", m)
<1> SUFFICES TasksShown(q)
  OBVIOUS
<1>1. /\ r.gen \in Nat /\ m.gen \in Nat /\ m.event \in Nat /\ m.data \in Nat /\ revision \in Nat
      /\ r.snapshot.event \in Nat /\ r.snapshot.revision \in Nat /\ "snapshot" \in Channels \ {"settings"}
  BY DEF Replicas, Messages, Payloads, ProcessOK, Channels
<1>2. PICK s : Merges(r, "snapshot", m, s, q)
  BY <1>1, MergedFields
<1> HIDE DEF q
<1>3. /\ q.gen = session.gen
      /\ q.snapshot = IF Newer(m, s.snapshot) THEN [event |-> m.event, revision |-> m.data]
                      ELSE s.snapshot
      /\ s.snapshot = r.snapshot \/ s.snapshot = NoTasks
  BY <1>1, <1>2, EmptyFields DEF Merges
<1>4. CASE Newer(m, s.snapshot)
  BY <1>3, <1>4 DEF TasksShown
<1>5. CASE ~Newer(m, s.snapshot) /\ s.snapshot = r.snapshot
  <2>1. r.snapshot.revision = revision
    BY <1>1, <1>5 DEF Newer
  <2>2. QED BY <1>3, <1>5, <2>1 DEF TasksShown
<1>6. CASE ~Newer(m, s.snapshot) /\ s.snapshot = NoTasks
  <2>1. revision = 0 /\ NoTasks.revision = 0
    BY <1>1, <1>6 DEF Newer, NoTasks
  <2>2. QED BY <1>3, <1>6, <2>1 DEF TasksShown
<1>7. QED BY <1>3, <1>4, <1>5, <1>6

\* The present view is shown once a copy of it is merged, and what is shown is not older
\* than the copy.
LEMMA MergeShowsEngine ==
  ASSUME NEW r \in Replicas, NEW m \in Messages("sync"), ProcessOK,
         r.gen <= session.gen, m.gen = session.gen,
         NEW n \in Nat, NEW at, Turns(at, n), Sound(r, at, n), OnLine(m, at, n),
         \A e \in 1 .. n : at[e] <= turn
  PROVE  /\ m.data.turn = turn => EngineShown(Merged(r, "sync", m))
         /\ Merged(r, "sync", m).gen = session.gen /\ Merged(r, "sync", m).sync # None
         /\ Merged(r, "sync", m).sync.event >= m.event
<1> DEFINE q == Merged(r, "sync", m)
<1> SUFFICES /\ m.data.turn = turn => EngineShown(q)
             /\ q.gen = session.gen /\ q.sync # None /\ q.sync.event >= m.event
  OBVIOUS
<1>1. /\ r.gen \in Nat /\ m.gen \in Nat /\ m.event \in Nat /\ m.data \in EngineViews /\ turn \in Nat
      /\ "sync" \in Channels \ {"settings"}
  BY DEF Replicas, Messages, Payloads, ProcessOK, Channels
<1>2. PICK s : Merges(r, "sync", m, s, q)
  BY <1>1, MergedFields
<1> HIDE DEF q
<1>3. /\ q.gen = session.gen /\ s \in Replicas
      /\ q.sync = IF IsNews(m, s) THEN [event |-> m.event, view |-> m.data] ELSE s.sync
      /\ Sound(s, at, n)
  BY <1>1, <1>2, EmptyIsSound DEF Merges
<1>4. CASE IsNews(m, s)
  <2>1. [event |-> m.event, view |-> m.data] # None
    BY <1>1, ReplicaAssumption DEF SyncStates
  <2>2. QED BY <1>1, <1>3, <1>4, <2>1 DEF EngineShown
<1>5. CASE ~IsNews(m, s)
  <2>1. q.sync = s.sync /\ s.sync # None /\ ~(m.event > s.sync.event)
    BY <1>3, <1>5 DEF IsNews, Later
  <2>2. s.sync.event \in Nat /\ s.sync.event \in 1 .. n /\ s.sync.view.turn = at[s.sync.event]
    BY <1>3, <2>1 DEF Replicas, SyncStates, Sound
  <2>3. s.sync.event >= m.event
    BY <1>1, <2>1, <2>2
  <2>4. m.event \in 1 .. n /\ at[m.event] <= at[s.sync.event] /\ at[s.sync.event] <= turn
        /\ at[s.sync.event] \in Nat /\ at[m.event] \in Nat /\ m.data.turn = at[m.event]
    BY <1>1, <2>2, <2>3 DEF OnLine, Turns
  <2>5. m.data.turn = turn => s.sync.view.turn = turn
    BY <1>1, <2>2, <2>4
  <2>6. QED BY <1>3, <2>1, <2>3, <2>5 DEF EngineShown
<1>6. QED BY <1>4, <1>5

\* The preferences in force are shown once a copy of them is merged, and stay so.
LEMMA MergeShowsSettings ==
  ASSUME Types, NEW told, SettingsKnown(told), NEW m \in Messages("settings"),
         Tells(m, told, sequence["settings"]),
         m.data = prefs \/ (settings # None /\ settings.prefs = prefs)
  PROVE  MergedSettings(settings, m) # None /\ MergedSettings(settings, m).prefs = prefs
<1> DEFINE n == sequence["settings"]
<1>0. ASSUME NEW p \in PrefsViews, NEW q \in PrefsViews, Precedes(p, q), Precedes(q, p) PROVE p = q
  <2>1. p.revision \in Nat /\ q.revision \in Nat /\ p.error \in BOOLEAN /\ q.error \in BOOLEAN
        /\ p = [revision |-> p.revision, error |-> p.error]
        /\ q = [revision |-> q.revision, error |-> q.error]
    BY DEF PrefsViews
  <2>2. p.revision = q.revision
    BY <1>0, <2>1 DEF Precedes
  <2>3. p.error <=> q.error
    BY <1>0, <2>1, <2>2 DEF Precedes
  <2>4. p.error = q.error
    BY <2>1, <2>3
  <2>5. QED BY <2>1, <2>2, <2>4
<1>1. /\ prefs \in PrefsViews /\ m.event \in 1 .. n /\ m.data = told[m.event] /\ m.event \in Nat
      /\ \A e \in 1 .. n : told[e] \in PrefsViews /\ Precedes(told[e], prefs)
      /\ \A e, f \in 1 .. n : e <= f => Precedes(told[e], told[f])
      /\ settings # None => /\ settings.event \in 1 .. n /\ settings.event \in Nat
                            /\ settings.prefs = told[settings.event]
  BY DEF Types, ProcessOK, WindowOK, SettingsKnown, Edition, Tells, Messages, SettingsStates
<1>2. CASE Later(m.event, settings)
  <2>1. [event |-> m.event, prefs |-> m.data] # None
    BY <1>1, ReplicaAssumption DEF SettingsStates
  <2>2. m.data = prefs
    <3>1. CASE settings # None /\ settings.prefs = prefs
      <4>1. settings.event <= m.event
        BY <1>1, <1>2, <3>1 DEF Later
      <4>2. Precedes(prefs, m.data) /\ Precedes(m.data, prefs)
        BY <1>1, <3>1, <4>1
      <4>3. QED BY <1>0, <1>1, <4>2
    <3>2. QED BY <3>1
  <2>3. QED BY <1>2, <2>1, <2>2 DEF MergedSettings
<1>3. CASE ~Later(m.event, settings)
  <2>1. settings # None /\ m.event <= settings.event
    BY <1>1, <1>3 DEF Later
  <2>2. settings.prefs = prefs
    <3>1. CASE m.data = prefs
      <4>1. Precedes(prefs, settings.prefs) /\ Precedes(settings.prefs, prefs)
        BY <1>1, <2>1, <3>1
      <4>2. QED BY <1>0, <1>1, <2>1, <4>1
    <3>2. QED BY <3>1
  <2>3. QED BY <1>3, <2>1, <2>2 DEF MergedSettings
<1>4. QED BY <1>2, <1>3

-----------------------------------------------------------------------------
(* What is still to come *)

\* The panel after a step of the same session.
LEMMA PanelOn ==
  ASSUME session' = session, NEW since, Since' = since,
         PanelComing(replica', since, flight'["sync"], flight'["conflict"])
  PROVE  PanelKept'
BY DEF PanelKept, PanelComing, Has, Shows

\* What a change makes outdated is owed.
LEMMA ComingOfChanges ==
  ASSUME Types, Types', Changes, SessionsOK, Coming
  PROVE  Coming'
<1>0. /\ UNCHANGED <<window, sequence, flight, prefs>> /\ owed \subseteq owed'
      /\ UNCHANGED <<phase, call, answer, replica, settings>>
  BY DEF Changes, window
<1> SUFFICES ASSUME Hears'
             PROVE  /\ AuthComing' /\ SettingsComing'
                    /\ session'.loggedIn => TasksComing' /\ EngineComing' /\ PanelKept'
  BY DEF Coming
<1>1. Hears /\ Since' = Since
  BY <1>0 DEF Hears, Since
<1>2. AuthComing /\ SettingsComing /\ (session.loggedIn => TasksComing /\ EngineComing /\ PanelKept)
  BY <1>1 DEF Coming
<1>3. SettingsComing'
  BY <1>0, <1>2 DEF SettingsComing
<1>4. CASE session' = session
  <2>1. AuthComing'
    BY <1>0, <1>2, <1>4 DEF AuthComing, AuthShown
  <2>2. session.loggedIn => TasksComing'
    BY <1>0, <1>2, <1>4 DEF TasksComing, TasksShown, Changes
  <2>3. session.loggedIn => EngineComing'
    BY <1>0, <1>4 DEF EngineComing, Changes, Types, ProcessOK
  <2>4. session.loggedIn => PanelKept'
    <3>1. session.loggedIn => PanelComing(replica', Since, flight'["sync"], flight'["conflict"])
      BY <1>0, <1>2 DEF PanelKept
    <3>2. QED BY <1>1, <1>4, <3>1, PanelOn
  <2>5. QED BY <1>3, <1>4, <2>1, <2>2, <2>3, <2>4
<1>5. CASE session' # session
  <2>1. /\ session'.gen = session.gen + 1 /\ "auth" \in owed'
        /\ session'.loggedIn => {"snapshot", "sync"} \subseteq owed'
    BY <1>5 DEF Changes
  <2>2. AuthComing' /\ (session'.loggedIn => TasksComing' /\ EngineComing')
    BY <2>1 DEF AuthComing, TasksComing, EngineComing
  <2>3. /\ replica'.gen # session'.gen
        /\ \A m \in flight'["sync"] \cup flight'["conflict"] : m.gen # session'.gen
    <3>1. session.gen \in Nat /\ replica.gen \in Nat /\ replica.gen <= session.gen
      BY DEF Types, ProcessOK, WindowOK, Replicas, SessionsOK
    <3>2. \A c \in {"sync", "conflict"} : \A m \in flight[c] : m.gen \in Nat /\ m.gen <= session.gen
      BY DEF Types, SendingOK, Channels, Messages, SessionsOK
    <3>3. QED BY <1>0, <2>1, <3>1, <3>2
  <2>4. PanelKept'
    BY <2>3 DEF PanelKept, PanelComing
  <2>5. QED BY <1>3, <2>2, <2>4
<1>6. QED BY <1>4, <1>5

\* What was owed is on the way.
LEMMA ComingOfSends ==
  ASSUME Types, Types', NEW p \in Parts, Sends(p), Coming
  PROVE  Coming'
<1>0. /\ owed' = owed \ {p} /\ UNCHANGED <<session, revision, engine, turn>>
      /\ UNCHANGED <<phase, call, answer, replica, settings>> /\ (p # "settings" => prefs' = prefs)
      /\ ProcessOK' /\ Parts \subseteq Channels
  BY DEF Sends, window, Types, Parts, Channels
<1>1. /\ p \in With(p)
      /\ \A c \in Channels :
           flight'[c] = IF c \in With(p) THEN flight[c] \cup {Copy(Present, c)} ELSE flight[c]
      /\ \A c \in With(p) : c = p \/ (c = "conflict" /\ p = "sync" /\ engine.cand # None)
      /\ p = "sync" /\ engine.cand # None => "conflict" \in With(p)
      /\ \A c \in With(p) : /\ Copy(Present, c).gen = session.gen
                            /\ Copy(Present, c).event = sequence[p] + 1
      /\ Copy(Present, "snapshot").data = revision
      /\ Copy(Present, "sync").data = SyncView
      /\ Copy(Present, "settings").data = prefs'
  BY <1>0, SendsCopies
<1> SUFFICES ASSUME Hears'
             PROVE  /\ AuthComing' /\ SettingsComing'
                    /\ session'.loggedIn => TasksComing' /\ EngineComing' /\ PanelKept'
  BY DEF Coming
<1>2. Hears /\ Since' = Since
  BY <1>0 DEF Hears, Since
<1>3. AuthComing /\ SettingsComing /\ (session.loggedIn => TasksComing /\ EngineComing /\ PanelKept)
  BY <1>2 DEF Coming
<1>4. /\ \A c \in Parts : flight[c] \subseteq flight'[c]
      /\ p \in Channels /\ Copy(Present, p) \in flight'[p] /\ Copy(Present, p).gen = session.gen
  BY <1>0, <1>1
<1>5. AuthComing'
  <2>1. CASE p = "auth"
    BY <1>0, <1>4, <2>1 DEF AuthComing
  <2>2. CASE p # "auth"
    BY <1>0, <1>3, <1>4, <2>2 DEF AuthComing, AuthShown, Parts
  <2>3. QED BY <2>1, <2>2
<1>6. SettingsComing'
  <2>1. CASE p = "settings"
    BY <1>0, <1>1, <1>4, <2>1 DEF SettingsComing
  <2>2. CASE p # "settings"
    BY <1>0, <1>3, <1>4, <2>2 DEF SettingsComing, Parts
  <2>3. QED BY <2>1, <2>2
<1>7. session.loggedIn => TasksComing'
  <2>1. CASE p = "snapshot"
    BY <1>0, <1>1, <1>4, <2>1 DEF TasksComing
  <2>2. CASE p # "snapshot"
    BY <1>0, <1>3, <1>4, <2>2 DEF TasksComing, TasksShown, Parts
  <2>3. QED BY <2>1, <2>2
<1>8. session.loggedIn => EngineComing'
  <2>1. CASE p = "sync"
    <3>1. SyncView.turn = turn
      BY DEF SyncView
    <3>2. QED BY <1>0, <1>1, <1>4, <2>1, <3>1 DEF EngineComing
  <2>2. CASE p # "sync"
    BY <1>0, <1>3, <1>4, <2>2 DEF EngineComing, EngineShown, Parts
  <2>3. QED BY <2>1, <2>2
<1>9. session.loggedIn => PanelKept'
  <2> SUFFICES ASSUME session.loggedIn
               PROVE  PanelComing(replica', Since, flight'["sync"], flight'["conflict"])
    BY <1>0, <1>2, PanelOn
  <2>1. PanelComing(replica, Since, flight["sync"], flight["conflict"])
    BY <1>3 DEF PanelKept
  <2>2. CASE p # "sync"
    <3>1. "sync" \notin With(p) /\ "conflict" \notin With(p)
      BY <1>1, <2>2 DEF Parts
    <3>2. flight'["sync"] = flight["sync"] /\ flight'["conflict"] = flight["conflict"]
      BY <1>1, <3>1 DEF Channels
    <3>3. QED BY <1>0, <2>1, <3>2
  <2>3. CASE p = "sync"
    <3> DEFINE v == Copy(Present, "sync")
               ps == IF engine.cand = None THEN {} ELSE {Copy(Present, "conflict")}
    <3>1. /\ "sync" \in With(p) /\ v.gen = session.gen /\ v.event = sequence["sync"] + 1
          /\ flight'["sync"] = flight["sync"] \cup {v} /\ v.data.cand = engine.cand
      BY <1>1, <2>3 DEF Channels, SyncView
    <3>2. /\ engine.cand # None => /\ Copy(Present, "conflict").gen = session.gen
                                   /\ Copy(Present, "conflict").event = sequence["sync"] + 1
          /\ flight'["conflict"] = flight["conflict"] \cup ps
      BY <1>1, <2>3 DEF Channels, Parts
    <3>3. Offers(v.data) => Has(ps, v.event)
      BY <3>1, <3>2 DEF Offers, Has
    <3>4. \A q \in ps : q.event = v.event /\ q.gen = v.gen
      BY <3>1, <3>2
    <3> HIDE DEF v, ps
    <3>5. PanelComing(replica, Since, flight["sync"] \cup {v}, flight["conflict"] \cup ps)
      BY <2>1, <3>3, <3>4, PanelSent
    <3>6. QED BY <1>0, <3>1, <3>2, <3>5
  <2>4. QED BY <2>2, <2>3
<1>10. QED BY <1>0, <1>5, <1>6, <1>7, <1>8, <1>9

\* An answer holds everything, and what was lost before it is not needed.
LEMMA ComingOfAnswer ==
  ASSUME Types, Types', CallOK, NEW ok \in BOOLEAN, Answer(ok), NEW views, ViewsKnown(views), Coming
  PROVE  Coming'
<1>0. /\ call = "asked" /\ phase' = phase /\ phase \in {"asking", "ready"}
      /\ UNCHANGED <<session, revision, turn, prefs, owed, flight, replica, settings>>
  BY DEF Answer, Fault, process, preferences, CallOK
<1>1. CASE phase = "ready"
  <2>1. Hears /\ Hears' /\ Since = 0 /\ Since' = 0
    BY <1>0, <1>1 DEF Hears, Since
  <2>2. AuthComing /\ SettingsComing /\ (session.loggedIn => TasksComing /\ EngineComing /\ PanelKept)
    BY <2>1 DEF Coming
  <2>3. AuthComing' /\ SettingsComing' /\ (session.loggedIn => TasksComing' /\ EngineComing')
    BY <1>0, <1>1, <2>2 DEF AuthComing, SettingsComing, TasksComing, EngineComing, AuthShown,
       TasksShown, EngineShown
  <2>4. session.loggedIn => PanelKept'
    BY <1>0, <2>1, <2>2, PanelOn DEF PanelKept
  <2>5. QED BY <1>0, <2>3, <2>4 DEF Coming
<1>2. CASE phase = "asking" /\ ~ok
  BY <1>0, <1>2 DEF Coming, Hears, Answer
<1>3. CASE phase = "asking" /\ ok
  <2> DEFINE n == sequence["sync"]
  <2>1. Answer(TRUE)
    BY <1>3
  <2>2. /\ answer'.gen = session.gen /\ answer'.snapshot = revision
        /\ answer'.sync.turn = turn /\ answer'.settings = prefs /\ answer'.event["sync"] = n + 1
    BY <2>1, Answers1 DEF SyncView, Parts
  <2>3. AuthComing' /\ SettingsComing' /\ TasksComing' /\ EngineComing'
    BY <1>0, <1>3, <2>2 DEF AuthComing, SettingsComing, TasksComing, EngineComing
  <2>4. n \in Nat /\ Since' = n
    <3>1. n \in Nat
      BY DEF Types, SendingOK, Parts
    <3>2. Since' = answer'.event["sync"] - 1
      BY <1>0, <1>3 DEF Since
    <3>3. QED BY <2>2, <3>1, <3>2
  <2>5. /\ \A m \in flight["sync"] \cup flight["conflict"] : m.event \in 1 .. n
        /\ replica.sync # None => replica.sync.event \in 1 .. n
        /\ replica.mark <= n /\ replica.mark \in Nat
    BY DEF ViewsKnown, Known, Tells, Names, Types, WindowOK, Replicas
  <2>6. PanelComing(replica, n, flight["sync"], flight["conflict"])
    BY <2>4, <2>5 DEF PanelComing
  <2>7. PanelKept'
    BY <1>0, <2>4, <2>6, PanelOn
  <2>8. QED BY <2>3, <2>7 DEF Coming
<1>4. QED BY <1>0, <1>1, <1>2, <1>3

\* Waiting, giving up and asking for a repair lose nothing that is not asked for again.
LEMMA ComingOfMoves ==
  ASSUME Types, CallOK, Moves, Coming
  PROVE  Coming'
<1>0. /\ UNCHANGED <<session, revision, engine, turn, prefs, sequence, owed, flight, answer, replica, settings>>
      /\ phase' \in {"ready", "stale"} => phase \in {"ready", "stale"}
      /\ phase' # "asking"
  BY DEF Moves
<1> SUFFICES ASSUME Hears'
             PROVE  /\ AuthComing' /\ SettingsComing'
                    /\ session'.loggedIn => TasksComing' /\ EngineComing' /\ PanelKept'
  BY DEF Coming
<1>1. phase \in {"ready", "stale"} /\ Hears /\ Since = 0 /\ Since' = 0
  BY <1>0 DEF Hears, Since
<1>2. AuthComing /\ SettingsComing /\ (session.loggedIn => TasksComing /\ EngineComing /\ PanelKept)
  BY <1>1 DEF Coming
<1>3. AuthComing' /\ SettingsComing' /\ (session.loggedIn => TasksComing' /\ EngineComing')
  BY <1>0, <1>1, <1>2 DEF AuthComing, SettingsComing, TasksComing, EngineComing, AuthShown,
     TasksShown, EngineShown
<1>4. session.loggedIn => PanelKept'
  BY <1>0, <1>1, <1>2, PanelOn DEF PanelKept
<1>5. QED BY <1>0, <1>3, <1>4

\* A candidate leaves the view of the engine as it is.
LEMMA ConflictKeeps ==
  ASSUME NEW r \in Replicas, NEW m \in Messages("conflict"), m.gen = r.gen
  PROVE  /\ Merged(r, "conflict", m).sync = r.sync
         /\ Merged(r, "conflict", m).gen = r.gen
<1>1. "conflict" \in Channels \ {"settings"} /\ r.gen \in Nat /\ m.gen >= r.gen /\ ~(m.gen > r.gen)
  BY DEF Channels, Replicas
<1>2. PICK q : q = Merged(r, "conflict", m)
  OBVIOUS
<1>3. PICK s : Merges(r, "conflict", m, s, q)
  BY <1>1, <1>2, MergedFields
<1>4. QED BY <1>1, <1>2, <1>3 DEF Merges

\* applyStartup shows what the answer alone held.
LEMMA ComingOfApply ==
  ASSUME Types, Types', CallOK, Apply, NEW at, EngineKnown(at), NEW told, SettingsKnown(told),
         NEW views, ViewsKnown(views), SessionsOK, SessionsOK', TasksKnown, TasksKnown',
         LaterSession, Coming
  PROVE  Coming'
<1> DEFINE n == sequence["sync"]
           e == answer.event["sync"]
<1>0. /\ call = "answered" /\ phase \in {"asking", "ready"} /\ phase' = "ready"
      /\ replica' = Applied(replica, answer)
      /\ settings' = MergedSettings(settings, Copy(answer, "settings"))
      /\ UNCHANGED <<session, revision, turn, prefs, owed, flight>>
  BY DEF Apply, CallOK, process, preferences, sending, bounds
<1>1. /\ ProcessOK /\ n \in Nat /\ session.gen \in Nat /\ replica \in Replicas /\ replica' \in Replicas
      /\ replica.gen <= session.gen /\ replica'.gen <= session.gen /\ LoginOK(replica)
      /\ {"auth", "snapshot", "sync", "conflict"} = Channels \ {"settings"}
      /\ "settings" \in Channels /\ Known(replica, views, n)
      /\ flight["sync"] \subseteq Messages("sync") /\ flight["conflict"] \subseteq Messages("conflict")
  BY <1>0 DEF Types, ProcessOK, WindowOK, SendingOK, Channels, Parts, SessionsOK, ViewsKnown
<1>2. /\ Turns(at, n) /\ Sound(replica, at, n) /\ \A f \in 1 .. n : at[f] <= turn
      /\ OnLine(Copy(answer, "sync"), at, n) /\ OnLine(Copy(answer, "conflict"), at, n)
  BY <1>0 DEF EngineKnown
<1>3. /\ answer \in Answers /\ answer.gen \in Nat /\ answer.gen <= session.gen
      /\ (answer.gen = session.gen => answer.auth = session.loggedIn)
      /\ \A c \in Channels : Copy(answer, c) \in Messages(c) /\ Copy(answer, c).gen = answer.gen
      /\ Copy(answer, "auth").data = answer.auth /\ Copy(answer, "snapshot").data = answer.snapshot
      /\ Copy(answer, "sync").data = answer.sync /\ Copy(answer, "conflict").data = answer.conflict
      /\ Copy(answer, "settings").data = answer.settings
      /\ Copy(answer, "snapshot").event = answer.event["snapshot"]
      /\ Copy(answer, "sync").event = e /\ Copy(answer, "conflict").event = e
  <2>1. /\ answer.gen <= session.gen /\ (answer.gen = session.gen => answer.auth = session.loggedIn)
    BY <1>0 DEF SessionsOK
  <2>2. answer.gen \in Nat
    BY <1>0 DEF Types, WindowOK, Answers
  <2>3. QED BY <1>0, <2>1, <2>2, AnswerCopies
<1>4. PICK r1 \in Replicas, r2 \in Replicas, r3 \in Replicas :
        /\ ApplySteps(replica, answer, r1, r2, r3, replica')
        /\ Follows(r1, replica) /\ Follows(r2, r1) /\ Follows(r3, r2) /\ Follows(replica', r3)
        /\ Sound(r1, at, n) /\ Sound(r2, at, n) /\ Sound(r3, at, n) /\ Sound(replica', at, n)
  BY <1>0, <1>1, <1>2, <1>3, ApplyChain
<1>5. /\ r1 = Merged(replica, "auth", Copy(answer, "auth"))
      /\ r2 = Merged(r1, "snapshot", Copy(answer, "snapshot"))
      /\ r3 = Merged(r2, "sync", Copy(answer, "sync"))
      /\ replica' = IF answer.conflict.cand = None THEN r3
                    ELSE Merged(r3, "conflict", Copy(answer, "conflict"))
  BY <1>4 DEF ApplySteps
<1>6. ASSUME NEW r \in Replicas, NEW c \in {"auth", "snapshot", "sync", "conflict"},
             r.gen <= session.gen, LoginOK(r), NEW q, q = Merged(r, c, Copy(answer, c))
      PROVE  /\ q.gen <= session.gen /\ LoginOK(q) /\ (answer.gen = session.gen => q.gen = session.gen)
             /\ c = "auth" /\ answer.gen = session.gen => q.auth # None
  <2>1. c \in Channels \ {"settings"} /\ Copy(answer, c) \in Messages(c)
        /\ Copy(answer, c).gen = answer.gen
        /\ (c = "auth" /\ answer.gen = session.gen => Copy(answer, c).data = session.loggedIn)
    BY <1>1, <1>3
  <2>2. QED BY <1>1, <1>3, <1>6, <2>1, MergeIsOfSession
<1>7. /\ r1.gen <= session.gen /\ LoginOK(r1) /\ (answer.gen = session.gen => AuthShown(r1))
  BY <1>1, <1>5, <1>6 DEF AuthShown
<1>8. r2.gen <= session.gen /\ LoginOK(r2) /\ (answer.gen = session.gen => r2.gen = session.gen)
  BY <1>4, <1>5, <1>6, <1>7
<1>9. r3.gen <= session.gen /\ LoginOK(r3) /\ (answer.gen = session.gen => r3.gen = session.gen)
  BY <1>4, <1>5, <1>6, <1>8
<1>10. /\ replica'.snapshot.revision <= revision
       /\ replica'.sync # None => replica'.sync.view.turn <= turn
  <2>1. replica'.snapshot \in TaskCopies'
    BY DEF TaskCopies
  <2>2. replica'.snapshot.revision <= revision'
    BY <2>1 DEF TasksKnown, Ordered
  <2>3. QED BY <1>0, <1>2, <1>4, <2>2 DEF Sound
<1>11. Follows(replica', r2) /\ Follows(replica', r1) /\ Follows(replica', replica)
  <2>1. Follows(replica', r2)
    BY <1>1, <1>4, FollowsOn
  <2>2. Follows(replica', r1)
    BY <1>1, <1>4, <2>1, FollowsOn
  <2>3. QED BY <1>1, <1>4, <2>1, <2>2, FollowsOn
<1>12. \A r \in {replica, r1, r2, r3} :
         /\ AuthShown(r) => AuthShown(replica')
         /\ TasksShown(r) => TasksShown(replica')
         /\ EngineShown(r) => EngineShown(replica')
  BY <1>1, <1>4, <1>10, <1>11, ShownStays
<1>13. Hears /\ Hears' /\ Since' = 0
  BY <1>0 DEF Hears, Since
<1>14. AuthComing /\ SettingsComing /\ (session.loggedIn => TasksComing /\ EngineComing /\ PanelKept)
  BY <1>13 DEF Coming
<1>15. AuthComing'
  <2>1. AuthShown(replica') => AuthComing'
    BY <1>0 DEF AuthComing, AuthShown
  <2>2. AuthShown(replica) \/ answer.gen = session.gen => AuthShown(replica')
    BY <1>7, <1>12
  <2>3. QED BY <1>0, <1>14, <2>1, <2>2 DEF AuthComing
<1>16. SettingsComing'
  <2>1. Tells(Copy(answer, "settings"), told, sequence["settings"])
    BY <1>0 DEF SettingsKnown
  <2>2. answer.settings = prefs \/ (settings # None /\ settings.prefs = prefs) =>
          settings' # None /\ settings'.prefs = prefs
    BY <1>0, <1>1, <1>3, <2>1, MergeShowsSettings
  <2>3. QED BY <1>0, <1>14, <2>2 DEF SettingsComing
<1>17. session.loggedIn => TasksComing'
  <2>1. TasksShown(replica') => TasksComing'
    BY <1>0 DEF TasksComing, TasksShown
  <2>2. ASSUME answer.gen = session.gen, answer.snapshot = revision PROVE TasksShown(r2)
    <3> DEFINE m == Copy(answer, "snapshot")
    <3>1. [event |-> m.event, revision |-> m.data] \in TaskCopies /\ replica.snapshot \in TaskCopies
      BY <1>0, <1>3 DEF TaskCopies
    <3>2. /\ replica.snapshot.revision <= revision
          /\ m.event = 0 => m.data = 0
          /\ m.event <= replica.snapshot.event => m.data <= replica.snapshot.revision
      BY <3>1 DEF TasksKnown, Ordered
    <3>3. /\ "auth" \in Channels \ {"settings"} /\ Copy(answer, "auth") \in Messages("auth")
          /\ m \in Messages("snapshot") /\ m.gen = session.gen /\ m.data = revision
      BY <1>1, <1>3, <2>2
    <3>4. r1.snapshot \in {replica.snapshot, NoTasks}
      <4>1. PICK c : c = "auth"
        OBVIOUS
      <4>2. c \in Channels \ {"settings"} /\ Copy(answer, c) \in Messages(c) /\ c # "snapshot"
        BY <3>3, <4>1
      <4>3. Merged(replica, c, Copy(answer, c)).snapshot \in {replica.snapshot, NoTasks}
        BY <1>1, <4>2, MergeOfTasks
      <4>4. QED BY <1>5, <4>1, <4>3
    <3>5. /\ m.event \in Nat /\ m.data \in Nat /\ revision \in Nat
          /\ r1.snapshot.event \in Nat /\ r1.snapshot.revision \in Nat
          /\ replica.snapshot.event \in Nat /\ replica.snapshot.revision \in Nat
      BY <1>1, <1>4, <3>3 DEF Messages, Payloads, ProcessOK, Replicas
    <3> HIDE DEF m
    <3>6. /\ r1.snapshot.revision <= revision
          /\ r1.snapshot.event >= m.event => r1.snapshot.revision >= m.data
      BY <3>2, <3>4, <3>5 DEF NoTasks
    <3>7. QED BY <1>1, <1>4, <1>5, <1>7, <3>2, <3>3, <3>6, MergeShowsTasks DEF m
  <2>3. QED BY <1>0, <1>12, <1>14, <2>1, <2>2 DEF TasksComing
<1>18. answer.gen = session.gen =>
         /\ answer.sync.turn = turn => EngineShown(r3)
         /\ r3.sync # None /\ r3.sync.event >= e
  BY <1>1, <1>2, <1>3, <1>4, <1>5, <1>8, MergeShowsEngine
<1>19. session.loggedIn => EngineComing'
  <2>1. EngineShown(replica') => EngineComing'
    BY <1>0 DEF EngineComing, EngineShown
  <2>2. QED BY <1>0, <1>12, <1>14, <1>18, <2>1 DEF EngineComing
<1> DEFINE v  == Copy(answer, "sync")
           ps == IF answer.conflict.cand = None THEN {} ELSE {Copy(answer, "conflict")}
           vs == flight["sync"] \cup {v}
           cs == flight["conflict"] \cup ps
<1>20. /\ Tells(v, views, n) /\ answer.conflict.cand = answer.sync.cand
       /\ e \in 1 .. n /\ e \in Nat /\ Since \in Nat
       /\ \A m \in vs : Tells(m, views, n)
       /\ \A p \in cs : Names(p, views, n)
       /\ vs \in SUBSET Messages("sync") /\ cs \in SUBSET Messages("conflict")
  <2>1. Tells(v, views, n) /\ answer.conflict.cand = answer.sync.cand
    BY <1>0 DEF ViewsKnown
  <2>2. e \in 1 .. n /\ e \in Nat
    BY <1>1, <1>3, <2>1 DEF Tells
  <2>3. Since \in Nat
    BY <1>0, <2>2 DEF Since
  <2>4. \A p \in ps : Names(p, views, n)
    BY <1>3, <2>1 DEF Tells, Names
  <2>5. /\ \A m \in flight["sync"] : Tells(m, views, n)
        /\ \A p \in flight["conflict"] : Names(p, views, n)
    BY DEF ViewsKnown
  <2>6. vs \in SUBSET Messages("sync") /\ cs \in SUBSET Messages("conflict")
    BY <1>1, <1>3
  <2>7. QED BY <2>1, <2>2, <2>3, <2>4, <2>5, <2>6
<1>21. ASSUME NEW r \in Replicas, NEW c \in {"auth", "snapshot", "sync", "conflict"},
              Known(r, views, n), c = "conflict" => answer.conflict.cand # None
       PROVE  Known(Merged(r, c, Copy(answer, c)), views, n)
  <2>1. c \in Channels \ {"settings"} /\ Copy(answer, c) \in Messages(c)
    BY <1>1, <1>3
  <2>2. (c = "sync" => Tells(Copy(answer, c), views, n))
        /\ (c = "conflict" => Names(Copy(answer, c), views, n))
    BY <1>20, <1>21
  <2>3. QED BY <1>1, <1>21, <2>1, <2>2, MergeIsKnown
<1>22. Known(r1, views, n)
  BY <1>1, <1>5, <1>21
<1>23. Known(r2, views, n)
  BY <1>5, <1>21, <1>22
<1>24. Known(r3, views, n)
  BY <1>5, <1>21, <1>23
<1> SUFFICES ASSUME session.loggedIn PROVE PanelKept'
  BY <1>0, <1>13, <1>15, <1>16, <1>17, <1>19 DEF Coming
<1>25. PanelComing(replica, Since, vs, cs)
  <2>0. /\ v.event = e /\ v.gen = answer.gen /\ v.data.cand = answer.conflict.cand
        /\ Copy(answer, "conflict").event = e /\ Copy(answer, "conflict").gen = answer.gen
    BY <1>1, <1>3, <1>20
  <2>1. v.gen = session.gen /\ Offers(v.data) => Has(ps, v.event)
    BY <2>0 DEF Offers, Has
  <2>2. \A p \in ps : p.event = v.event /\ p.gen = v.gen
    BY <2>0
  <2>3. PanelComing(replica, Since, flight["sync"], flight["conflict"])
    BY <1>14 DEF PanelKept
  <2> HIDE DEF v, ps
  <2>4. QED BY <2>1, <2>2, <2>3, PanelSent
<1>26. ASSUME NEW r \in Replicas, NEW c \in {"auth", "snapshot", "sync", "conflict"},
              NEW ms \in SUBSET Messages("sync"), NEW os \in SUBSET Messages("conflict"),
              NEW rest, NEW others, ms \subseteq vs, os \subseteq cs,
              Known(r, views, n), r.gen <= session.gen, LoginOK(r),
              PanelComing(r, Since, ms, os),
              ms \ {m \in {Copy(answer, c)} : c = "sync"} \subseteq rest, rest \subseteq ms,
              os \ {p \in {Copy(answer, c)} : c = "conflict"} \subseteq others, others \subseteq os,
              c = "sync" => Copy(answer, c) \in ms, c = "conflict" => Copy(answer, c) \in os
       PROVE  PanelComing(Merged(r, c, Copy(answer, c)), Since, rest, others)
  <2>1. PICK m : m = Copy(answer, c)
    OBVIOUS
  <2>2. c \in Channels \ {"settings"} /\ m \in Messages(c) /\ m.gen <= session.gen
    BY <1>1, <1>3, <2>1
  <2>3. (\A x \in ms : Tells(x, views, n)) /\ (\A p \in os : Names(p, views, n))
    BY <1>20, <1>26
  <2>4. /\ ms \ {x \in {m} : c = "sync"} \subseteq rest /\ (c = "sync" => m \in ms)
        /\ os \ {p \in {m} : c = "conflict"} \subseteq others /\ (c = "conflict" => m \in os)
    BY <1>26, <2>1
  <2>5. session.gen \in Nat /\ n \in Nat /\ Since \in Nat
    BY <1>1, <1>20
  <2> HIDE DEF vs, cs, n
  <2>6. PanelComing(Merged(r, c, m), Since, rest, others)
    BY <1>26, <2>2, <2>3, <2>4, <2>5, MergePanel
  <2>7. QED BY <2>1, <2>6
<1>27. PanelComing(r1, Since, vs, cs)
  BY <1>1, <1>5, <1>20, <1>25, <1>26
<1>28. PanelComing(r2, Since, vs, cs)
  BY <1>4, <1>5, <1>7, <1>20, <1>22, <1>26, <1>27
<1>29. PanelComing(r3, Since, flight["sync"], cs)
  BY <1>1, <1>4, <1>5, <1>8, <1>20, <1>23, <1>26, <1>28
<1>30. PanelComing(replica', Since, flight["sync"], flight["conflict"])
  <2>1. CASE answer.conflict.cand = None
    BY <1>5, <1>29, <2>1
  <2>2. CASE answer.conflict.cand # None
    BY <1>1, <1>4, <1>5, <1>9, <1>20, <1>24, <1>26, <1>29, <2>2
  <2>3. QED BY <2>1, <2>2
<1>31. PanelComing(replica', 0, flight["sync"], flight["conflict"])
  <2>1. CASE phase = "ready"
    BY <1>30, <2>1 DEF Since
  <2>2. CASE phase = "asking"
    <3>1. Since = e - 1 /\ e > Since
      BY <1>20, <2>2 DEF Since
    <3>2. PanelTypes(replica', Since, flight["sync"], flight["conflict"])
      BY <1>1, <1>20 DEF PanelTypes, Replicas, SyncStates, Messages
    <3>3. CASE answer.gen = session.gen
      <4>1. replica'.sync = r3.sync /\ replica'.gen = session.gen
        BY <1>1, <1>3, <1>4, <1>5, <1>9, <1>18, <3>3, ConflictKeeps
      <4>2. replica'.sync # None /\ replica'.sync.event >= e /\ replica'.sync.event <= replica'.mark
        BY <1>4, <1>18, <3>3, <4>1 DEF Sound
      <4>3. replica'.sync.event \in Nat /\ replica'.mark \in Nat
        BY <1>1, <4>2 DEF Replicas, SyncStates
      <4>4. replica'.sync.event > Since /\ replica'.mark > Since
        BY <1>20, <3>1, <4>2, <4>3
      <4>5. QED BY <1>30, <3>2, <4>1, <4>2, <4>4, PanelCaughtUp
    <3>4. CASE answer.gen < session.gen
      <4>1. /\ \A c \in {"sync", "conflict"} : \A m \in flight[c] : m.gen = session.gen => m.event > e
            /\ AfterAnswer(replica, e)
        BY <1>0, <3>4 DEF LaterSession
      <4>2. ASSUME NEW r \in Replicas, NEW c \in {"auth", "snapshot", "sync", "conflict"},
                   AfterAnswer(r, e)
            PROVE  AfterAnswer(Merged(r, c, Copy(answer, c)), e)
        <5>1. c \in Channels \ {"settings"} /\ Copy(answer, c) \in Messages(c)
              /\ Copy(answer, c).gen # session.gen
          BY <1>1, <1>3, <3>4
        <5>2. QED BY <1>1, <1>20, <4>2, <5>1, MergeIsAfter
      <4>3. AfterAnswer(r1, e)
        BY <1>1, <1>5, <4>1, <4>2
      <4>4. AfterAnswer(r2, e)
        BY <1>5, <4>2, <4>3
      <4>5. AfterAnswer(r3, e)
        BY <1>5, <4>2, <4>4
      <4>6. AfterAnswer(replica', e)
        BY <1>5, <4>2, <4>5
      <4>7. /\ \A m \in flight["sync"] \cup flight["conflict"] : m.gen = session.gen => m.event > Since
            /\ replica'.gen = session.gen =>
                 (replica'.sync # None => replica'.sync.event > Since)
                   /\ (replica'.mark = 0 \/ replica'.mark > Since)
        <5>1. \A m \in flight["sync"] \cup flight["conflict"] : m.event \in Nat
          BY <1>1 DEF Messages
        <5>2. replica'.mark \in Nat /\ (replica'.sync # None => replica'.sync.event \in Nat)
          BY <1>1 DEF Replicas, SyncStates
        <5>3. QED BY <1>20, <3>1, <4>1, <4>6, <5>1, <5>2 DEF AfterAnswer
      <4>8. QED BY <1>30, <3>2, <4>7, PanelCaughtUp
    <3>5. QED BY <1>1, <1>3, <3>3, <3>4
  <2>3. QED BY <1>0, <2>1, <2>2
<1>32. QED BY <1>0, <1>13, <1>31, PanelOn

\* An event that is dropped was not needed, one that is merged is shown.
LEMMA ComingOfDeliver ==
  ASSUME Types, Types', NEW c \in Channels, NEW m \in flight[c], Deliver(c, m),
         NEW at, EngineKnown(at), NEW next, EngineKnown(next)', NEW told, SettingsKnown(told),
         Follows(replica', replica), NEW views, ViewsKnown(views),
         SessionsOK, SessionsOK', TasksKnown, TasksKnown', Coming
  PROVE  Coming'
<1> DEFINE n == sequence["sync"]
<1>0. /\ UNCHANGED <<session, revision, turn, prefs, owed, phase, sequence>>
      /\ phase = "asking" => UNCHANGED <<call, answer>>
      /\ replica' = IF c = "settings" THEN replica ELSE Merged(replica, c, m)
      /\ settings' = IF c = "settings" THEN MergedSettings(settings, m) ELSE settings
      /\ flight' = [flight EXCEPT ![c] = @ \ {m}]
  BY DEF Deliver, process, preferences, bounds
<1>1. /\ ProcessOK /\ n \in Nat /\ session.gen \in Nat /\ replica \in Replicas /\ replica' \in Replicas
      /\ replica.gen <= session.gen /\ replica'.gen <= session.gen /\ LoginOK(replica)
      /\ {"auth", "snapshot", "sync", "conflict"} = Channels \ {"settings"} /\ "settings" \in Channels
      /\ m \in Messages(c) /\ Known(replica, views, n)
      /\ flight["sync"] \in SUBSET Messages("sync") /\ flight["conflict"] \in SUBSET Messages("conflict")
      /\ \A s \in flight["sync"] : Tells(s, views, n)
      /\ \A p \in flight["conflict"] : Names(p, views, n)
  BY <1>0 DEF Types, ProcessOK, WindowOK, SendingOK, Channels, Parts, SessionsOK, ViewsKnown
<1>2. \A d \in Channels : flight'[d] = IF d = c THEN flight[d] \ {m} ELSE flight[d]
  BY <1>0 DEF Types, SendingOK
<1> SUFFICES ASSUME Hears'
             PROVE  /\ AuthComing' /\ SettingsComing'
                    /\ session'.loggedIn => TasksComing' /\ EngineComing' /\ PanelKept'
  BY DEF Coming
<1>3. Hears /\ Since' = Since
  BY <1>0 DEF Hears, Since
<1>4. AuthComing /\ SettingsComing /\ (session.loggedIn => TasksComing /\ EngineComing /\ PanelKept)
  BY <1>3 DEF Coming
<1>5. /\ replica'.snapshot.revision <= revision
      /\ replica'.sync # None => replica'.sync.view.turn <= turn
  <2>1. replica'.snapshot \in TaskCopies'
    BY DEF TaskCopies
  <2>2. replica'.snapshot.revision <= revision'
    BY <2>1 DEF TasksKnown, Ordered
  <2>3. replica'.sync # None => replica'.sync.view.turn <= turn'
    BY DEF EngineKnown, Sound
  <2>4. QED BY <1>0, <2>2, <2>3
<1>6. /\ AuthShown(replica) => AuthShown(replica')
      /\ TasksShown(replica) => TasksShown(replica')
      /\ EngineShown(replica) => EngineShown(replica')
  BY <1>1, <1>5, ShownStays
<1>7. AuthComing'
  <2>1. AuthShown(replica') => AuthComing'
    BY <1>0 DEF AuthComing, AuthShown
  <2>2. ASSUME c = "auth", m.gen = session.gen PROVE AuthShown(replica')
    <3>1. m.data = session.loggedIn /\ c \in Channels \ {"settings"}
      BY <1>1, <2>2 DEF SessionsOK
    <3>2. replica'.gen = session.gen /\ replica'.auth # None
      BY <1>0, <1>1, <2>2, <3>1, MergeIsOfSession
    <3>3. QED BY <3>2 DEF AuthShown
  <2>3. ASSUME NEW s \in flight["auth"], s.gen = session.gen, ~AuthShown(replica')
        PROVE  s \in flight'["auth"]
    BY <1>1, <1>2, <2>2, <2>3
  <2>4. QED BY <1>0, <1>4, <1>6, <2>1, <2>3 DEF AuthComing
<1>8. SettingsComing'
  <2>1. c = "settings" => Tells(m, told, sequence["settings"])
    BY DEF SettingsKnown
  <2>2. c = "settings" /\ (m.data = prefs \/ (settings # None /\ settings.prefs = prefs)) =>
          settings' # None /\ settings'.prefs = prefs
    BY <1>0, <1>1, <2>1, MergeShowsSettings
  <2>3. \A s \in flight["settings"] : s \in flight'["settings"] \/ (c = "settings" /\ s = m)
    BY <1>1, <1>2
  <2>4. QED BY <1>0, <1>4, <2>2, <2>3 DEF SettingsComing
<1>9. session.loggedIn => TasksComing'
  <2>1. TasksShown(replica') => TasksComing'
    BY <1>0 DEF TasksComing, TasksShown
  <2>2. ASSUME c = "snapshot", m.gen = session.gen, m.data = revision PROVE TasksShown(replica')
    <3>1. [event |-> m.event, revision |-> m.data] \in TaskCopies /\ replica.snapshot \in TaskCopies
      BY <2>2 DEF TaskCopies
    <3>2. /\ replica.snapshot.revision <= revision
          /\ m.event = 0 => m.data = 0
          /\ m.event <= replica.snapshot.event => m.data <= replica.snapshot.revision
      BY <3>1 DEF TasksKnown, Ordered
    <3>3. m \in Messages("snapshot") /\ replica' = Merged(replica, "snapshot", m)
      BY <1>0, <1>1, <2>2
    <3>4. m.event \in Nat /\ m.data \in Nat
          /\ replica.snapshot.event \in Nat /\ replica.snapshot.revision \in Nat
      BY <1>1, <3>3 DEF Messages, Payloads, Replicas
    <3>5. replica.snapshot.event >= m.event => replica.snapshot.revision >= m.data
      BY <3>2, <3>4
    <3>6. QED BY <1>1, <2>2, <3>2, <3>3, <3>5, MergeShowsTasks
  <2>3. \A s \in flight["snapshot"] : s \in flight'["snapshot"] \/ (c = "snapshot" /\ s = m)
    BY <1>1, <1>2
  <2>4. QED BY <1>0, <1>4, <1>6, <2>1, <2>2, <2>3 DEF TasksComing
<1>10. session.loggedIn => EngineComing'
  <2>1. EngineShown(replica') => EngineComing'
    BY <1>0 DEF EngineComing, EngineShown
  <2>2. ASSUME c = "sync", m.gen = session.gen, m.data.turn = turn PROVE EngineShown(replica')
    <3>1. m \in Messages("sync") /\ replica' = Merged(replica, "sync", m)
      BY <1>0, <1>1, <2>2
    <3>2. Turns(at, n) /\ Sound(replica, at, n) /\ OnLine(m, at, n) /\ \A f \in 1 .. n : at[f] <= turn
      BY <2>2 DEF EngineKnown
    <3>3. QED BY <1>1, <2>2, <3>1, <3>2, MergeShowsEngine
  <2>3. \A s \in flight["sync"] : s \in flight'["sync"] \/ (c = "sync" /\ s = m)
    BY <1>1, <1>2
  <2>4. QED BY <1>0, <1>4, <1>6, <2>1, <2>2, <2>3 DEF EngineComing
<1>11. session.loggedIn => PanelKept'
  <2> SUFFICES ASSUME session.loggedIn
               PROVE  PanelComing(replica', Since, flight'["sync"], flight'["conflict"])
    BY <1>0, <1>3, PanelOn
  <2>1. PanelComing(replica, Since, flight["sync"], flight["conflict"])
    BY <1>4 DEF PanelKept
  <2>2. CASE c = "settings"
    <3>1. flight'["sync"] = flight["sync"] /\ flight'["conflict"] = flight["conflict"]
      BY <1>1, <1>2, <2>2
    <3>2. QED BY <1>0, <2>1, <2>2, <3>1
  <2>3. CASE c # "settings"
    <3>1. Since \in Nat
      <4>1. phase = "asking" => Since = answer.event["sync"] - 1 /\ call = "answered"
        BY <1>3 DEF Since, Hears
      <4>2. phase = "asking" => Tells(Copy(answer, "sync"), views, n)
        BY <4>1 DEF ViewsKnown
      <4>3. QED BY <1>1, <4>1, <4>2, AnswerCopies DEF Since, Tells
    <3>2. /\ c \in Channels \ {"settings"} /\ replica' = Merged(replica, c, m)
          /\ m.gen <= session.gen
      BY <1>0, <2>3 DEF SessionsOK
    <3>3. /\ flight["sync"] \ {s \in {m} : c = "sync"} \subseteq flight'["sync"]
          /\ flight'["sync"] \subseteq flight["sync"] /\ (c = "sync" => m \in flight["sync"])
      BY <1>1, <1>2
    <3>4. /\ flight["conflict"] \ {p \in {m} : c = "conflict"} \subseteq flight'["conflict"]
          /\ flight'["conflict"] \subseteq flight["conflict"]
          /\ (c = "conflict" => m \in flight["conflict"])
      BY <1>1, <1>2
    <3> HIDE DEF n
    <3>5. QED BY <1>1, <2>1, <3>1, <3>2, <3>3, <3>4, MergePanel
  <2>4. QED BY <2>2, <2>3
<1>12. QED BY <1>0, <1>7, <1>8, <1>9, <1>10, <1>11

\* The window gives up what it has, and asks anew.
LEMMA ComingOfSubscribe ==
  ASSUME NEW ok \in BOOLEAN, Subscribe(ok)
  PROVE  Coming'
BY DEF Subscribe, Coming, Hears

-----------------------------------------------------------------------------
(* At rest *)

\* Before it listens the window need not know anything.
LEMMA InitReported == Init => Reported
<1> SUFFICES ASSUME Init PROVE Reported
  OBVIOUS
<1>1. /\ phase = "subscribing" /\ call = "none" /\ replica = EmptyReplica(0) /\ revision = 1
      /\ session.gen = 1
      /\ sequence = [p \in Parts |-> 0] /\ flight = [c \in Channels |-> {}]
  BY DEF Init
<1>2. /\ sequence["snapshot"] = 0 /\ sequence["sync"] = 0
      /\ \A c \in Channels : flight[c] = {}
      /\ "auth" \in Channels /\ "snapshot" \in Channels /\ "sync" \in Channels /\ "conflict" \in Channels
  BY <1>1 DEF Parts, Channels
<1>3. /\ replica.gen = 0 /\ replica.snapshot = NoTasks /\ replica.auth = None /\ replica.sync = None
      /\ replica.conflict = None /\ replica.mark = 0
  BY <1>1, EmptyFields
<1>4. CallOK /\ SessionsOK /\ LaterSession /\ Coming
  BY <1>1, <1>2, <1>3 DEF CallOK, SessionsOK, LoginOK, LaterSession, Coming, Hears
<1>5. TasksKnown
  <2>1. \A t \in TaskCopies : t = NoTasks
    BY <1>1, <1>2, <1>3 DEF TaskCopies
  <2>2. NoTasks.event = 0 /\ NoTasks.revision = 0
    BY DEF NoTasks
  <2>3. QED BY <1>1, <1>2, <2>1, <2>2 DEF TasksKnown, Ordered
<1>6. \E views : ViewsKnown(views)
  <2>1. PICK views : views = [e \in 1 .. 0 |-> SyncView]
    OBVIOUS
  <2>2. views \in [1 .. 0 -> EngineViews] /\ \A e : e \notin 1 .. 0
    BY <2>1
  <2>3. Known(replica, views, 0)
    BY <1>3 DEF Known
  <2>4. ViewsKnown(views)
    BY <1>1, <1>2, <2>2, <2>3 DEF ViewsKnown
  <2>5. QED BY <2>4
<1>7. QED BY <1>4, <1>5, <1>6 DEF Reported

\* Every step keeps what is current within reach of the window.
LEMMA StepReported ==
  ASSUME Consistent, Reported, Next
  PROVE  Reported'
<1>1. Types /\ CallOK /\ SessionsOK /\ TasksKnown /\ LaterSession /\ Coming
  BY DEF Consistent, Reported
<1>2. PICK at : EngineKnown(at)
  BY DEF Consistent
<1>3. PICK told : SettingsKnown(told)
  BY DEF Consistent
<1>4. PICK views : ViewsKnown(views)
  BY DEF Reported
<1>5. Types' /\ ProcessOK' /\ \E w : EngineKnown(w)'
  BY StepConsistent DEF Consistent, Types
<1>6. Follows(replica', replica)
  BY <1>1, <1>2, <1>5, ProcessKept, EngineStep
<1>7. SessionsOK' /\ TasksKnown' /\ LaterSession' /\ \E w : ViewsKnown(w)'
  BY <1>1, <1>2, <1>4, <1>5, SessionsStep, TasksStep, ViewsStep, LaterStep
<1>8. CallOK' /\ Coming'
  <2>1. CASE Changes
    BY <1>1, <1>5, <2>1, ComingOfChanges, StepKinds
  <2>2. ASSUME NEW p \in Parts, Sends(p) PROVE Coming'
    BY <1>1, <1>5, <2>2, ComingOfSends
  <2>3. ASSUME NEW ok \in BOOLEAN, Subscribe(ok) \/ Answer(ok) PROVE Coming'
    BY <1>1, <1>4, <1>5, <2>3, ComingOfSubscribe, ComingOfAnswer
  <2>4. CASE Apply
    BY <1>1, <1>2, <1>3, <1>4, <1>5, <1>7, <2>4, ComingOfApply, StepKinds
  <2>5. CASE Moves
    BY <1>1, <2>5, ComingOfMoves, StepKinds
  <2>6. ASSUME NEW c \in Channels, NEW m \in flight[c], Deliver(c, m) PROVE Coming'
    <3>1. PICK w : EngineKnown(w)'
      BY <1>5
    <3>2. QED BY <1>1, <1>2, <1>3, <1>4, <1>5, <1>6, <1>7, <2>6, <3>1, ComingOfDeliver
  <2>7. QED BY <1>1, <2>1, <2>2, <2>3, <2>4, <2>5, <2>6, StepKinds
<1>9. QED BY <1>7, <1>8 DEF Reported

\* What changes no variable changes nothing of this.
LEMMA StutterReported == Reported /\ UNCHANGED vars => Reported'
<1> SUFFICES ASSUME Reported, UNCHANGED vars PROVE Reported'
  OBVIOUS
<1>1. UNCHANGED <<session, revision, engine, prefs, sequence, owed, flight, phase, call,
                  answer, replica, settings, turn>>
  BY DEF vars, process, sending, window, bounds, preferences
<1>2. CallOK' /\ SessionsOK' /\ TasksKnown'
  BY <1>1 DEF Reported, CallOK, SessionsOK, LoginOK, TasksKnown, TaskCopies
<1>3. \E views : ViewsKnown(views)'
  <2>1. PICK views : ViewsKnown(views)
    BY DEF Reported
  <2>2. SyncView' = SyncView
    BY <1>1 DEF SyncView
  <2>3. ViewsKnown(views)'
    BY <1>1, <2>1, <2>2 DEF ViewsKnown, Copy
  <2>4. QED BY <2>3
<1>4. LaterSession'
  BY <1>1 DEF Reported, LaterSession, AfterAnswer
<1>5. Coming'
  <2>1. Hears' = Hears /\ Since' = Since
    BY <1>1 DEF Hears, Since
  <2>2. Coming
    BY DEF Reported
  <2>3. Hears => AuthComing' /\ SettingsComing' /\ (session.loggedIn => TasksComing' /\ EngineComing')
    BY <1>1, <2>2 DEF Coming, AuthComing, SettingsComing, TasksComing, EngineComing, AuthShown,
       TasksShown, EngineShown
  <2>4. Hears /\ session.loggedIn => PanelKept'
    BY <1>1, <2>1, <2>2, PanelOn DEF Coming, PanelKept
  <2>5. QED BY <1>1, <2>1, <2>3, <2>4 DEF Coming
<1>6. QED BY <1>2, <1>3, <1>4, <1>5 DEF Reported

\* What is neither owed, nor on the way, nor in an answer is shown.
LEMMA RestOfReported ==
  ASSUME Consistent, Reported, AtRest
  PROVE  IsCurrent
<1>1. /\ phase \in {"ready", "stale"} /\ owed = {} /\ replica \in Replicas
      /\ \A c \in {"auth", "snapshot", "sync", "conflict", "settings"} : flight[c] = {}
  BY DEF AtRest, Channels, Consistent, Types, WindowOK
<1>2. Hears /\ Since = 0
  BY <1>1 DEF Hears, Since
<1>3. AuthComing /\ SettingsComing /\ (session.loggedIn => TasksComing /\ EngineComing /\ PanelKept)
  BY <1>2 DEF Reported, Coming
<1>4. AuthShown(replica) /\ settings # None /\ settings.prefs = prefs
  BY <1>1, <1>3 DEF AuthComing, SettingsComing
<1>5. replica.gen = session.gen /\ replica.auth # None /\ replica.auth.loggedIn = session.loggedIn
  BY <1>4 DEF AuthShown, Reported, SessionsOK, LoginOK
<1>6. ASSUME session.loggedIn
      PROVE  /\ replica.snapshot.revision = revision
             /\ replica.sync # None /\ replica.sync.view.turn = turn
             /\ Panel = IF replica.conflict = None THEN None ELSE replica.conflict.cand
  <2>1. TasksShown(replica) /\ EngineShown(replica)
    BY <1>1, <1>3, <1>6 DEF TasksComing, EngineComing
  <2>2. PICK views : ViewsKnown(views)
    BY DEF Reported
  <2>3. PICK at : EngineKnown(at)
    BY DEF Consistent
  <2>4. /\ replica.sync # None /\ replica.sync.view.turn = turn
        /\ replica.sync.event \in Nat /\ replica.mark \in Nat /\ sequence["sync"] \in Nat
    BY <1>1, <2>1 DEF EngineShown, Replicas, SyncStates, Consistent, Types, SendingOK, Parts
  <2>5. /\ replica.sync.event \in 1 .. sequence["sync"] /\ replica.sync.view = SyncView
        /\ (replica.mark = replica.sync.event /\ ~Offers(replica.sync.view) => replica.conflict = None)
    BY <2>2, <2>4 DEF ViewsKnown, Known, Tells
  <2>6. replica.sync.event <= replica.mark
    BY <2>3, <2>4 DEF EngineKnown, Sound
  <2>7. PanelComing(replica, 0, {}, {})
    BY <1>1, <1>2, <1>3, <1>6 DEF PanelKept
  <2>8. replica.mark = replica.sync.event /\ replica.sync.event > 0
    BY <1>5, <2>4, <2>5, <2>6, <2>7 DEF PanelComing, Has
  <2>9. Offers(SyncView) => Shows(replica, engine.cand)
    BY <1>5, <2>4, <2>5, <2>7, <2>8 DEF PanelComing, Has, SyncView
  <2>10. ~Offers(SyncView) => replica.conflict = None
    BY <2>5, <2>8
  <2>11. Offers(SyncView) <=> Panel # None
    BY DEF Offers, SyncView, Panel
  <2>12. Panel = IF replica.conflict = None THEN None ELSE replica.conflict.cand
    BY <2>9, <2>10, <2>11 DEF Shows, Panel
  <2>13. QED BY <2>1, <2>4, <2>12 DEF TasksShown
<1>7. QED BY <1>4, <1>5, <1>6 DEF IsCurrent

\* When everything that the process has to say has arrived, the window shows its state:
\* no event that was lost before it listened, overtaken, or dropped in the merge is
\* missed for good (emit_auth, emit_snapshot, emit_sync_state, mergeReplica, applyStartup).
THEOREM RestAlwaysCurrent == Spec => []RestIsCurrent
<1>1. (Consistent /\ Reported) /\ [Next]_vars => (Consistent /\ Reported)'
  BY StepConsistent, StutterConsistent, StepReported, StutterReported
<1>2. Init => Consistent /\ Reported
  BY InitConsistent, InitReported
<1>3. Consistent /\ Reported => RestIsCurrent
  BY RestOfReported DEF RestIsCurrent
<1>4. QED BY <1>1, <1>2, <1>3, PTL DEF Spec

=============================================================================
