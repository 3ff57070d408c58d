------------------------------ MODULE Navigation ------------------------------
(***************************************************************************)
(* From a click on a notification to its acknowledgement: the pending      *)
(* route in the file, the reads and acknowledgements of the view's hook    *)
(* (useNotificationNavigation) that are on the way while sessions and      *)
(* tasks change, and the events by which the view learns of the change.    *)
(* How routes come to be is modelled by Reminder; here they are reserved   *)
(* and shown from the start.                                               *)
(*                                                                         *)
(* Each channel of events keeps them in the order of their revisions.      *)
(* They may arrive in any order, and one that a newer overtook is ignored  *)
(* (mergeReplica): it leaves the channel with the newer one.               *)
(*                                                                         *)
(* A definition whose name ends in Bug is a plausible mistake in the       *)
(* definition that follows it and is used by nothing.                      *)
(***************************************************************************)
EXTENDS Routes, Sequences

CONSTANTS
  None,        \* absent value
  MaxGens,     \* bound: session generations of one process
  MaxEdits,    \* bound: deleted tasks, cloud copies and imports
  MaxFaults,   \* bound: reads and saves of the file that fail
  MaxCrashes   \* bound: deaths of the process

ASSUME BoundsAssumption == {MaxGens, MaxEdits, MaxFaults, MaxCrashes} \subseteq Nat

ASSUME NoneAssumption == None \notin Accounts

Gens == 0 .. MaxGens

\* ScrollTargetView, acknowledgements on the way, and the payloads of events.
ScrollTargets == [id : Ids, item : Items, gen : Gens]
Acks          == [id : Ids, gen : Gens, state : {"sent", "ok", "failed"}]
AuthEvents    == [gen : Gens, in : BOOLEAN]
Snapshots     == [gen : Gens, items : SUBSET Items]
Kinds         == {"auth", "snapshot", "window"}

ASSUME NoTargetAssumption == None \notin ScrollTargets

VARIABLES
  tasks, owner,  \* ids of the tasks in the store, and whose they are
  session, gen,  \* account logged in, or None; session_generation
  blocked,       \* migration.blocks_writes
  shown,         \* ids of the notifications in the system's list
  news,          \* kinds of events about to be emitted
  auths, snaps,  \* events on the way to the view
  ui             \* replica and navigation hook of the view

\* Auxiliary variables: history that the properties talk about.
VARIABLES
  located,  \* id and generation of the targets the view scrolled to
  settled,  \* the same of those whose acknowledgement it knows to be saved
  who,      \* account of each generation
  missed,   \* may a click wait that the view has no cause to ask for?
  edits, faults, crashes

data    == <<tasks, owner>>
account == <<session, gen, blocked>>
mail    == <<news, auths, snaps>>
history == <<located, settled, who>>
bounds  == <<edits, faults, crashes>>
vars    == <<routes, issued, data, account, shown, mail, ui, history, missed, bounds>>

-----------------------------------------------------------------------------
(* Helpers *)

Spend(bad) == /\ bad => faults < MaxFaults
              /\ faults' = IF bad THEN faults + 1 ELSE faults

Count == edits < MaxEdits /\ edits' = edits + 1

\* The view does not know yet that an acknowledgement failed: it will not send it again.
Refused == \E a \in ui.acks : a.gen = gen /\ a.state = "failed"

\* An event makes up for what was missed, if the view can act on it.
Tell(kinds) == news' = news \cup kinds /\ missed' = Refused

NoUi == [ready |-> FALSE, gen |-> 0, in |-> FALSE, items |-> {},
         target |-> None, tried |-> FALSE,
         read |-> "none", answer |-> None, stray |-> FALSE, acks |-> {}]

\* What the workspace is asked to select.
Current == IF ui.in /\ ui.target # None /\ ui.target.gen = ui.gen THEN ui.target ELSE None

\* A new sequence number: the answer of a read that is out will be ignored.
Dropped(u) == [u EXCEPT !.read = "none", !.answer = None, !.stray = @ \/ u.read = "sent"]

\* read(): the later of two reads is the one that counts.
Reading(u) == IF u.ready /\ u.in THEN [Dropped(u) EXCEPT !.read = "sent"] ELSE Dropped(u)

-----------------------------------------------------------------------------
(* The process: clicks, reads, acknowledgements *)

\* The click is saved before the callback returns, then the window is shown.
ClickNewsBug == {}

ClickNews == {"window"}

Click(id, saved) ==
  /\ id \in shown
  /\ Spend(~saved)
  /\ shown' = shown \ {id}
  /\ IF saved THEN Activate(id) ELSE UNCHANGED routes
  /\ Tell(ClickNews)
  /\ UNCHANGED <<issued, data, account, auths, snaps, ui, history, edits, crashes>>

Readable == session # None /\ ~blocked /\ owner = session

Mine == {r \in Pending : Readable /\ r.target.owner = session}

\* The first click of a task that exists, as a set.
First == {r \in Mine : /\ r.target.item \in tasks
                       /\ \A s \in Mine : s.target.item \in tasks => r.id <= s.id}

\* Clicks on deleted tasks that next_notification passes on its way.
Passed == {r \in Mine : r.target.item \notin tasks /\ \A s \in First : r.id < s.id}

Consume(rs) == routes' = (routes \ rs) \cup {[r EXCEPT !.phase = "consumed"] : r \in rs}

\* next_notification for the read that counts.
ReadRuns ==
  /\ ui.read = "sent"
  /\ Consume(Passed)
  /\ ui' = [ui EXCEPT !.read = "done",
                      !.answer = IF First = {} THEN None
                                 ELSE LET r == CHOOSE r \in First : TRUE
                                      IN [id |-> r.id, item |-> r.target.item, gen |-> gen]]
  /\ UNCHANGED <<issued, data, account, shown, mail, history, missed, bounds>>

\* The file fails before or between the deleted ones.
ReadFails(last) ==
  /\ ui.read = "sent"
  /\ Spend(TRUE)
  /\ Consume({r \in Passed : r.id < last})
  /\ ui' = [ui EXCEPT !.read = "done"]
  /\ missed' = TRUE
  /\ UNCHANGED <<issued, data, account, shown, mail, history, edits, crashes>>

\* A read that no longer counts still consumes.
StrayRuns ==
  /\ ui.stray
  /\ Consume(Passed)
  /\ ui' = [ui EXCEPT !.stray = FALSE]
  /\ UNCHANGED <<issued, data, account, shown, mail, history, missed, bounds>>

\* acknowledge_notification: a stale session or a foreign account is refused.
AllowedBug(a) ==
  /\ session # None /\ ~blocked
  /\ \A r \in Pending : r.id = a.id => r.target.owner = session /\ owner = session

Allowed(a) ==
  /\ gen = a.gen /\ session # None /\ ~blocked
  /\ \A r \in Pending : r.id = a.id => r.target.owner = session /\ owner = session

AckRuns(a, saved) ==
  /\ a \in ui.acks /\ a.state = "sent"
  /\ saved \/ Allowed(a)
  /\ Spend(~saved)
  /\ IF saved /\ Allowed(a) THEN Acknowledge(a.id) ELSE UNCHANGED routes
  /\ ui' = [ui EXCEPT !.acks = (@ \ {a}) \cup
              {[a EXCEPT !.state = IF saved /\ Allowed(a) THEN "ok" ELSE "failed"]}]
  /\ missed' = (missed \/ (a.gen = gen /\ ~(saved /\ Allowed(a))))
  /\ UNCHANGED <<issued, data, account, shown, mail, history, edits, crashes>>

-----------------------------------------------------------------------------
(* The view *)

\* initState, after all listeners are registered.
UiStarts ==
  /\ ~ui.ready
  /\ ui' = Reading([ui EXCEPT !.ready = TRUE, !.gen = gen, !.in = session # None,
                              !.items = tasks])
  /\ UNCHANGED <<routes, issued, data, account, shown, mail, history, missed, bounds>>

\* The payload is that of the moment of the emission.
Emit(kind) ==
  /\ kind \in news
  /\ news' = news \ {kind}
  /\ auths' = IF kind = "auth" THEN Append(auths, [gen |-> gen, in |-> session # None])
              ELSE auths
  /\ snaps' = IF kind = "snapshot" THEN Append(snaps, [gen |-> gen, items |-> tasks])
              ELSE snaps
  /\ ui' = IF kind = "window" THEN Reading(ui) ELSE ui
  /\ UNCHANGED <<routes, issued, data, account, shown, history, missed, bounds>>

\* mergeReplica: a higher generation starts from nothing, a lower one is ignored.
Generation(e) == IF e.gen > ui.gen THEN [ui EXCEPT !.gen = e.gen, !.in = FALSE, !.items = {}]
                 ELSE ui

AuthArrives(k) ==
  /\ ui.ready /\ k \in DOMAIN auths
  /\ auths' = SubSeq(auths, k + 1, Len(auths))
  /\ ui' = IF auths[k].gen < ui.gen \/ auths[k] = [gen |-> ui.gen, in |-> ui.in] THEN ui
           ELSE Reading([Generation(auths[k]) EXCEPT !.in = auths[k].in])
  /\ UNCHANGED <<routes, issued, data, account, shown, news, snaps, history, missed, bounds>>

\* The effect forgets that data may have changed whose clicks wait.
SnapshotArrivesBug(k) ==
  /\ ui.ready /\ k \in DOMAIN snaps
  /\ snaps' = SubSeq(snaps, k + 1, Len(snaps))
  /\ ui' = IF snaps[k].gen < ui.gen THEN ui
           ELSE [Generation(snaps[k]) EXCEPT !.items = snaps[k].items]
  /\ UNCHANGED <<routes, issued, data, account, shown, news, auths, history, missed, bounds>>

SnapshotArrives(k) ==
  /\ ui.ready /\ k \in DOMAIN snaps
  /\ snaps' = SubSeq(snaps, k + 1, Len(snaps))
  /\ ui' = IF snaps[k].gen < ui.gen THEN ui
           ELSE Reading([Generation(snaps[k]) EXCEPT !.items = snaps[k].items])
  /\ UNCHANGED <<routes, issued, data, account, shown, news, auths, history, missed, bounds>>

\* The answer counts for the session it was given in; a failure shows nothing.
ReadArrives ==
  /\ ui.read = "done"
  /\ ui' = [ui EXCEPT !.read = "none", !.answer = None, !.tried = FALSE,
                      !.target = IF ui.answer # None /\ ui.answer.gen = ui.gen
                                 THEN ui.answer ELSE None]
  /\ UNCHANGED <<routes, issued, data, account, shown, mail, history, missed, bounds>>

\* The row is mounted, selected and scrolled to; then the click is acknowledged,
\* unless the same acknowledgement is on the way.
Navigate ==
  /\ Current # None /\ ~ui.tried /\ Current.item \in ui.items
  /\ ui' = IF \E a \in ui.acks : a.id = Current.id /\ a.gen = Current.gen
           THEN [ui EXCEPT !.tried = TRUE]
           ELSE [Dropped(ui) EXCEPT
                   !.tried = TRUE,
                   !.acks = @ \cup {[id |-> Current.id, gen |-> Current.gen,
                                     state |-> "sent"]}]
  /\ located' = located \cup {<<Current.id, Current.gen>>}
  /\ UNCHANGED <<routes, issued, data, account, shown, mail, settled, who, missed, bounds>>

\* A saved acknowledgement clears its target and asks for the next one.
AckedBug(u, a) ==
  [u EXCEPT !.target = IF @ # None /\ @.id = a.id /\ @.gen = a.gen THEN None ELSE @]

Acked(u, a) ==
  Reading([u EXCEPT !.target = IF @ # None /\ @.id = a.id /\ @.gen = a.gen THEN None ELSE @])

AckArrives(a) ==
  /\ a \in ui.acks /\ a.state # "sent"
  /\ LET rest == [ui EXCEPT !.acks = @ \ {a}]
         good == a.state = "ok" /\ ui.in /\ ui.gen = a.gen
     IN /\ ui' = IF good THEN Acked(rest, a) ELSE rest
        /\ settled' = IF good THEN settled \cup {<<a.id, a.gen>>} ELSE settled
  /\ UNCHANGED <<routes, issued, data, account, shown, mail, located, who, missed, bounds>>

-----------------------------------------------------------------------------
(* Tasks, sessions, crashes *)

\* commit_core refuses while an import is unfinished.
Delete(i) ==
  /\ session # None /\ ~blocked /\ i \in tasks /\ Count
  /\ tasks' = tasks \ {i}
  /\ Tell({"snapshot"})
  /\ UNCHANGED <<routes, issued, owner, account, shown, auths, snaps, ui, history,
                 faults, crashes>>

\* The account's cloud copy, with which the account takes the data over: what choose_cloud
\* and a restored baseline do.
AdoptCloud(new) ==
  /\ session # None /\ ~blocked /\ Count
  /\ tasks' = new /\ owner' = session
  /\ Tell({"snapshot"})
  /\ UNCHANGED <<routes, issued, account, shown, auths, snaps, ui, history, faults, crashes>>

\* The user gives the account the local tasks of another one.  Nobody is told: choose_local
\* and the upload that follows emit the state of the synchronisation only.
ChooseLocal ==
  /\ session \notin {None, owner} /\ ~blocked /\ Count
  /\ owner' = session
  /\ missed' = TRUE
  /\ UNCHANGED <<routes, issued, tasks, account, shown, mail, ui, history, faults, crashes>>

NewSession(a) ==
  /\ gen < MaxGens
  /\ session' = a /\ gen' = gen + 1
  /\ who' = [who EXCEPT ![gen + 1] = a]
  /\ news' = news \cup {"auth", "snapshot"} /\ missed' = FALSE
  /\ UNCHANGED <<routes, issued, data, blocked, shown, auths, snaps, ui, located, settled,
                 bounds>>

Login(a) == session = None /\ ~blocked /\ NewSession(a)

Logout == session # None /\ NewSession(None)

\* An import blocks writes.  It ends the session (Logout) before it publishes, and what it
\* publishes is left out; one that fails before, and is cancelled, leaves the session.
ImportStarts ==
  /\ ~blocked /\ Count
  /\ blocked' = TRUE
  /\ Tell({"auth", "snapshot"})
  /\ UNCHANGED <<routes, issued, data, session, gen, shown, auths, snaps, ui, history,
                 faults, crashes>>

ImportEnds ==
  /\ blocked
  /\ blocked' = FALSE
  /\ Tell({"auth", "snapshot"})
  /\ UNCHANGED <<routes, issued, data, session, gen, shown, auths, snaps, ui, history,
                 bounds>>

\* The files and the notifications stay; the session of the keychain is restored or not.
Crash(a) ==
  /\ crashes < MaxCrashes /\ crashes' = crashes + 1
  /\ session' = a /\ a \in {session, None} /\ gen' = 0
  /\ ui' = NoUi /\ news' = {} /\ auths' = <<>> /\ snaps' = <<>>
  /\ located' = {} /\ settled' = {} /\ missed' = FALSE
  /\ who' = [g \in Gens |-> IF g = 0 THEN a ELSE None]
  /\ UNCHANGED <<routes, issued, data, blocked, shown, edits, faults>>

-----------------------------------------------------------------------------
(* Specification *)

\* Every task once, for the account that owns the data, or for another one.
Init ==
  /\ routes \in {{[id |-> k, target |-> t[k], phase |-> "reserved"] : k \in Ids} :
                   t \in [Ids -> Targets]}
  /\ \A r, s \in routes : r.target = s.target => r = s
  /\ issued = MaxIds /\ shown = Ids
  /\ tasks = Items /\ owner \in Accounts
  /\ session \in {owner, None} /\ gen = 0 /\ blocked = FALSE
  /\ news = {} /\ auths = <<>> /\ snaps = <<>> /\ ui = NoUi
  /\ located = {} /\ settled = {} /\ who = [g \in Gens |-> IF g = 0 THEN session ELSE None]
  /\ missed = FALSE
  /\ edits = 0 /\ faults = 0 /\ crashes = 0

Process ==
  \/ ReadRuns \/ StrayRuns
  \/ \E a \in ui.acks : AckRuns(a, TRUE)
  \/ \E kind \in Kinds : Emit(kind)

View ==
  \/ UiStarts \/ ReadArrives \/ Navigate
  \/ \E a \in ui.acks : AckArrives(a)
  \/ \E k \in DOMAIN auths : AuthArrives(k)
  \/ \E k \in DOMAIN snaps : SnapshotArrives(k)

Failures ==
  \/ \E last \in 1 .. MaxIds + 1 : ReadFails(last)
  \/ \E a \in ui.acks : AckRuns(a, FALSE)
  \/ \E a \in Accounts \cup {None} : Crash(a)

Surroundings ==
  \/ \E id \in Ids, saved \in BOOLEAN : Click(id, saved)
  \/ \E i \in Items : Delete(i)
  \/ \E new \in SUBSET Items : AdoptCloud(new)
  \/ ChooseLocal
  \/ \E a \in Accounts : Login(a)
  \/ Logout \/ ImportStarts \/ ImportEnds

Next == Process \/ View \/ Failures \/ Surroundings

Spec == Init /\ [][Next]_vars

\* Requests are answered, events delivered and effects run; nobody has to click.
FairSpec == Spec /\ WF_vars(Process) /\ WF_vars(View)

-----------------------------------------------------------------------------
(* Properties *)

\* Every variable has its type; only a view that is logged in has a read out that counts.
TypeOK ==
  /\ RoutesOK /\ tasks \subseteq Items /\ owner \in Accounts
  /\ session \in Accounts \cup {None} /\ gen \in Gens /\ blocked \in BOOLEAN
  /\ shown \subseteq Ids /\ news \subseteq Kinds
  /\ auths \in Seq(AuthEvents) /\ snaps \in Seq(Snapshots)
  /\ ui \in [ready : BOOLEAN, gen : Gens, in : BOOLEAN, items : SUBSET Items,
             target : ScrollTargets \cup {None}, tried : BOOLEAN,
             read : {"none", "sent", "done"}, answer : ScrollTargets \cup {None},
             stray : BOOLEAN, acks : SUBSET Acks]
  /\ (ui.read # "none" => ui.in) /\ (ui.answer # None => ui.read = "done")
  /\ located \subseteq Ids \X Gens /\ settled \subseteq Ids \X Gens
  /\ who \in [Gens -> Accounts \cup {None}] /\ missed \in BOOLEAN
  /\ edits \in 0 .. MaxEdits /\ faults \in 0 .. MaxFaults /\ crashes \in 0 .. MaxCrashes

\* A task that the view selects because of a click belongs to the account of the
\* session the view is in, whatever logins and logouts are still on their way to
\* it (reminder.rs:366-369, useNotificationNavigation.ts:31, 56-57).
TargetIsPrivate ==
  Current # None =>
    \E r \in routes : r.id = Current.id /\ r.target.owner = who[Current.gen]

\* A click is consumed only when its task is gone or the view scrolled to it in the
\* very session that asks (reminder.rs:384-428, Workspace.tsx:49-60).
ConsumedIsLocated ==
  [][\A r \in Pending : r \notin routes' =>
       r.target.item \notin tasks \/ <<r.id, gen>> \in located]_vars

\* Once the view knows that a click is acknowledged, no earlier read brings its
\* target back (useNotificationNavigation.ts:43-55).
NoFlashback == Current # None => <<Current.id, Current.gen>> \notin settled

\* Both: what a click selects is the right task, in every order of sessions and answers.
TargetIsRight == TargetIsPrivate /\ NoFlashback

\* A click that the account logged in could have served, over its own data.
Waits(id) == \E r \in Pending : r.id = id /\ Readable /\ r.target.owner = session

\* Nothing is about to be emitted or on its way, no request is out, and the target of
\* the view, if any, was scrolled to or is not among its tasks.
AtRest ==
  /\ ui.ready /\ news = {} /\ auths = <<>> /\ snaps = <<>>
  /\ ui.read = "none" /\ ui.acks = {}
  /\ Current # None => ui.tried \/ Current.item \notin ui.items

\* When nothing is left to happen by itself, no click waits: the three causes for which
\* the view asks again, and the acknowledgement that does, leave none behind, whatever
\* session, data and answers they met (useNotificationNavigation.ts:41, 55).  The exceptions:
\* since the last event that can wake it, a read of the view failed, an acknowledgement was
\* refused or not saved, or the user chose the local tasks of another account (engine.rs:945).
RestIsServed == AtRest /\ ~missed => \A id \in Ids : ~Waits(id)

\* And it comes to that: a pending click of an account that stays logged in over its own
\* data is served in the end, whatever happened before: a crash, a click before the login,
\* an answer that came too late (reminder.rs:348 "A pending activation survives login and
\* renderer startup"), or a fault or a local choice, once an event has followed it.
ClickIsServed == \A id \in Ids : []<>~(Waits(id) /\ ~missed)

=============================================================================
