------------------------------- MODULE Reminder -------------------------------
(***************************************************************************)
(* Reminders: from a task that is due, by a reserved route and a native    *)
(* notification, to the mark in data.json that says it was reminded.       *)
(*                                                                         *)
(* `job` is the one pass of refresh_with that holds reminder_lock.  It     *)
(* lets go of the state's locks between its steps, so that edits, logouts, *)
(* imports and clicks come in between.  What becomes of a clicked          *)
(* notification in the view is modelled by Navigation.                     *)
(*                                                                         *)
(* A due date that has not come is None: it gives no right to a reminder.  *)
(* A lease is as good as the session generation that it belongs to.        *)
(*                                                                         *)
(* A definition whose name ends in Bug is a plausible mistake in the       *)
(* definition that follows it and is used by nothing.                      *)
(***************************************************************************)
EXTENDS Routes, Sequences

CONSTANTS
  None,          \* absent value
  HistoryLimit,  \* HISTORY_LIMIT
  MaxGens,       \* bound: session generations of one process
  MaxEdits,      \* bound: edits, cloud copies, switches and clicks
  MaxFaults      \* bound: failing stores, refused notifications, crashes

ASSUME BoundsAssumption == {HistoryLimit, MaxGens, MaxEdits, MaxFaults} \subseteq Nat

TaskStates == [due : Dues \cup {None}, done : BOOLEAN]

Gens    == 0 .. MaxGens
Tasks   == [Items -> TaskStates \cup {None}]
Entries == [tasks : Tasks, marks : SUBSET Items]
Notices == [target : Targets, gen : Gens]
Jobs    == [at : {"idle", "next", "reserve", "recheck", "submit", "record"},
            due : SUBSET Notices, cur : Notices \cup {None}, id : Ids \cup {None}]

ASSUME NoneAssumption ==
  None \notin Accounts \cup Dues /\ None \notin TaskStates /\ None \notin Notices /\ None \notin Ids

VARIABLES
  tasks, marks,  \* Store: items and notified_due_ids
  undo, redo,    \* Store: history, each entry with its own marks
  owner,         \* account the data belong to, or None
  session, gen,  \* account logged in, or None; session_generation
  enabled,       \* settings.notifications_enabled
  blocked,       \* migration.blocks_writes
  shown,         \* ids of the notifications in the system's list
  job            \* refresh_with: where it is, what is due, what it works on

\* Auxiliary variables: history that the properties talk about.
VARIABLES
  accepted,   \* task and due date of every notification the system accepted
  edits, faults

store   == <<tasks, marks, undo, redo>>
account == <<owner, session, gen, enabled, blocked>>
file    == <<routes, issued>>
vars    == <<store, account, file, shown, job, accepted, edits, faults>>

-----------------------------------------------------------------------------
(* Helpers *)

Spend(bad) == /\ bad => faults < MaxFaults
              /\ faults' = IF bad THEN faults + 1 ELSE faults

Count == edits < MaxEdits /\ edits' = edits + 1

Present == {i \in Items : tasks[i] # None}

NoJob == [at |-> "idle", due |-> {}, cur |-> None, id |-> None]

\* May this reminder be sent or recorded now?
EligibleBug(n) ==
  /\ session # None /\ ~blocked /\ gen = n.gen /\ enabled /\ owner = n.target.owner
  /\ n.target.item \in Present \ marks /\ ~tasks[n.target.item].done

Eligible(n) ==
  /\ session # None /\ ~blocked /\ gen = n.gen /\ enabled /\ owner = n.target.owner
  /\ n.target.item \in Present \ marks /\ ~tasks[n.target.item].done
  /\ tasks[n.target.item].due = n.target.due

Notice(i) == [target |-> [item |-> i, owner |-> session, due |-> tasks[i].due], gen |-> gen]

\* What refresh_with finds to be due.
Due == {Notice(i) : i \in {j \in Present : tasks[j].due # None /\ owner = session
                                           /\ Eligible(Notice(j))}}

-----------------------------------------------------------------------------
(* A pass over the due tasks *)

Refresh ==
  /\ job.at = "idle" /\ Due # {}
  /\ job' = [NoJob EXCEPT !.at = "next", !.due = Due]
  /\ UNCHANGED <<store, account, file, shown, accepted, edits, faults>>

\* The first check of one reminder; the list may have become stale.
Pick(n) ==
  /\ job.at = "next" /\ n \in job.due
  /\ job' = IF Eligible(n)
            THEN [job EXCEPT !.at = "reserve", !.due = @ \ {n}, !.cur = n]
            ELSE [job EXCEPT !.due = @ \ {n}]
  /\ UNCHANGED <<store, account, file, shown, accepted, edits, faults>>

EndPass ==
  /\ job.at = "next" /\ job.due = {}
  /\ job' = NoJob
  /\ UNCHANGED <<store, account, file, shown, accepted, edits, faults>>

\* On to the next of the list.
Continue == job' = [NoJob EXCEPT !.at = "next", !.due = job.due]

\* The route of an earlier notification of the same target is used again.
ReuseBug == {r \in LiveOf(job.cur.target) : r.phase = "reserved"}

Reuse == LiveOf(job.cur.target)

Reserve ==
  /\ job.at = "reserve"
  /\ \/ \E r \in Reuse : job' = [job EXCEPT !.at = "recheck", !.id = r.id]
        /\ UNCHANGED file
     \/ /\ Reuse = {}
        /\ Add(job.cur.target)
        /\ job' = [job EXCEPT !.at = "recheck", !.id = issued + 1]
  /\ UNCHANGED <<store, account, shown, accepted, edits, faults>>

\* The file cannot be read or saved, or it is full of live routes: nothing is sent.
ReserveFails(io) ==
  /\ job.at = "reserve"
  /\ io \/ (Reuse = {} /\ Full)
  /\ Spend(io)
  /\ Continue
  /\ UNCHANGED <<store, account, file, shown, accepted, edits>>

Recheck ==
  /\ job.at = "recheck"
  /\ IF Eligible(job.cur) THEN job' = [job EXCEPT !.at = "submit"] ELSE Continue
  /\ UNCHANGED <<store, account, file, shown, accepted, edits, faults>>

\* The system takes the notification; one with the same id is replaced.
Submit ==
  /\ job.at = "submit"
  /\ shown' = shown \cup {job.id}
  /\ accepted' = accepted \cup {<<job.cur.target.item, job.cur.target.due>>}
  /\ job' = [job EXCEPT !.at = "record"]
  /\ UNCHANGED <<store, account, file, edits, faults>>

\* No permission, or no answer, though a late one may still show it.
SubmitFails(late) ==
  /\ job.at = "submit"
  /\ Spend(TRUE)
  /\ shown' = IF late THEN shown \cup {job.id} ELSE shown
  /\ Continue
  /\ UNCHANGED <<store, account, file, accepted, edits>>

\* Only a reminder that is still the right one is recorded, outside the history.
Record(saved) ==
  /\ job.at = "record" /\ Eligible(job.cur)
  /\ Spend(~saved)
  /\ marks' = IF saved THEN marks \cup {job.cur.target.item} ELSE marks
  /\ Continue
  /\ UNCHANGED <<tasks, undo, redo, account, file, shown, accepted, edits>>

Outdated ==
  /\ job.at = "record" /\ ~Eligible(job.cur)
  /\ Continue
  /\ UNCHANGED <<store, account, file, shown, accepted, edits, faults>>

-----------------------------------------------------------------------------
(* The user's edits, undo and redo *)

Entry == [tasks |-> tasks, marks |-> marks]

Checkpoint ==
  /\ undo' = LET all == Append(undo, Entry)
             IN IF Len(all) > HistoryLimit THEN Tail(all) ELSE all
  /\ redo' = <<>>

\* commit_core refuses while an import is unfinished.
Commit(new, m) ==
  /\ session # None /\ ~blocked /\ Count
  /\ tasks' = new /\ marks' = m
  /\ UNCHANGED <<account, file, shown, job, accepted, faults>>

\* A new date gives a new right to a reminder.
MarksOfDueBug(i) == marks

MarksOfDue(i) == marks \ {i}

SetDue(i, d) ==
  /\ i \in Present /\ tasks[i].due # d
  /\ Checkpoint
  /\ Commit([tasks EXCEPT ![i].due = d], MarksOfDue(i))

\* Store::add, under an id that no mark knows.
AddTask(i, d) ==
  /\ tasks[i] = None /\ i \notin marks
  /\ Checkpoint
  /\ Commit([tasks EXCEPT ![i] = [due |-> d, done |-> FALSE]], marks)

ToggleDone(i) ==
  /\ i \in Present
  /\ Checkpoint
  /\ Commit([tasks EXCEPT ![i].done = ~@], marks)

\* rename, toggle_focus, move_before: neither dates nor marks change.
OtherEdit ==
  /\ Present # {}
  /\ Checkpoint
  /\ Commit(tasks, marks)

Delete(i) ==
  /\ i \in Present
  /\ Checkpoint
  /\ Commit([tasks EXCEPT ![i] = None], marks \ {i})

\* The marks of the removed tasks stay.
ClearCompleted ==
  /\ \E i \in Present : tasks[i].done
  /\ Checkpoint
  /\ Commit([i \in Items |-> IF i \in Present /\ tasks[i].done THEN None ELSE tasks[i]], marks)

\* Undo and redo restore the marks with the tasks.
Restored(e) == e.marks

Undo ==
  /\ undo # <<>>
  /\ undo' = SubSeq(undo, 1, Len(undo) - 1)
  /\ redo' = Append(redo, Entry)
  /\ Commit(undo[Len(undo)].tasks, Restored(undo[Len(undo)]))

Redo ==
  /\ redo # <<>>
  /\ redo' = SubSeq(redo, 1, Len(redo) - 1)
  /\ undo' = Append(undo, Entry)
  /\ Commit(redo[Len(redo)].tasks, Restored(redo[Len(redo)]))

ForgetHistory == undo' = <<>> /\ redo' = <<>>

\* The account's cloud copy replaces the tasks (Store::replace_all).
KeptMarks(new) ==
  {i \in marks : tasks[i] # None /\ new[i] # None /\ new[i].due = tasks[i].due}

Replace(new) ==
  /\ session # None /\ ~blocked /\ Count
  /\ tasks' = new
  /\ marks' = KeptMarks(new)
  /\ ForgetHistory
  /\ owner' = session
  /\ UNCHANGED <<session, gen, enabled, blocked, file, shown, job, accepted, faults>>

-----------------------------------------------------------------------------
(* Sessions, settings, imports, clicks *)

\* Login and the end of a session each start a generation and forget the history.
NewSession(a) ==
  /\ gen < MaxGens
  /\ session' = a /\ gen' = gen + 1
  /\ ForgetHistory
  /\ UNCHANGED <<tasks, marks, owner, enabled, file, shown, job, accepted, faults>>

Login(a) ==
  /\ session = None /\ ~blocked
  /\ NewSession(a)
  /\ UNCHANGED <<blocked, edits>>

Logout ==
  /\ session # None
  /\ NewSession(None)
  /\ UNCHANGED <<blocked, edits>>

SwitchReminders ==
  /\ ~blocked /\ Count
  /\ enabled' = ~enabled
  /\ UNCHANGED <<store, owner, session, gen, blocked, file, shown, job, accepted, faults>>

\* An import blocks writes.  It ends the session (Logout) before it publishes, and what it
\* publishes is left out; one that fails before, and is cancelled, leaves the session; the reload
\* forgets the history.
ImportStarts ==
  /\ ~blocked /\ Count
  /\ blocked' = TRUE
  /\ UNCHANGED <<store, owner, session, gen, enabled, file, shown, job, accepted, faults>>

ImportEnds ==
  /\ blocked
  /\ blocked' = FALSE
  /\ ForgetHistory
  /\ UNCHANGED <<tasks, marks, owner, session, gen, enabled, file, shown, job, accepted,
                 edits, faults>>

\* The callback of the system persists the click before it returns.
Click(id, saved) ==
  /\ id \in shown /\ Count
  /\ Spend(~saved)
  /\ shown' = shown \ {id}
  /\ IF saved THEN Activate(id) ELSE UNCHANGED routes
  /\ UNCHANGED <<store, account, issued, job, accepted>>

Dismiss(id) ==
  /\ id \in shown /\ Count
  /\ shown' = shown \ {id}
  /\ UNCHANGED <<store, account, file, job, accepted, faults>>

\* The view, or next_notification for a deleted task, is done with a click.
Serve(id) ==
  /\ \E r \in Pending : r.id = id
  /\ session # None /\ ~blocked
  /\ Acknowledge(id)
  /\ UNCHANGED <<store, account, issued, shown, job, accepted, edits, faults>>

\* The process dies; the files and the system's notifications stay.
Crash ==
  /\ Spend(TRUE)
  /\ ForgetHistory
  /\ session' = None /\ gen' = 0
  /\ job' = NoJob
  /\ UNCHANGED <<tasks, marks, owner, enabled, blocked, file, shown, accepted, edits>>

-----------------------------------------------------------------------------
(* Specification *)

Init ==
  /\ tasks \in Tasks /\ marks = {} /\ undo = <<>> /\ redo = <<>>
  /\ owner \in Accounts \cup {None} /\ session = None /\ gen = 0
  /\ enabled \in BOOLEAN /\ blocked = FALSE
  /\ routes = {} /\ issued = 0 /\ shown = {} /\ job = NoJob
  /\ accepted = {} /\ edits = 0 /\ faults = 0

Pass ==
  \/ Refresh \/ EndPass \/ Reserve \/ Recheck \/ Submit \/ Outdated
  \/ \E n \in Notices : Pick(n)
  \/ \E b \in BOOLEAN : ReserveFails(b) \/ SubmitFails(b) \/ Record(b)

Editing ==
  \/ \E i \in Items : ToggleDone(i) \/ Delete(i) \/ \E d \in Dues \cup {None} : SetDue(i, d) \/ AddTask(i, d)
  \/ OtherEdit \/ ClearCompleted \/ Undo \/ Redo
  \/ \E new \in Tasks : Replace(new)

Surroundings ==
  \/ \E a \in Accounts : Login(a)
  \/ Logout \/ SwitchReminders \/ ImportStarts \/ ImportEnds \/ Crash
  \/ \E id \in Ids : Serve(id) \/ Dismiss(id) \/ \E b \in BOOLEAN : Click(id, b)

Next == Pass \/ Editing \/ Surroundings

Spec == Init /\ [][Next]_vars

\* The ticker comes round and a pass that runs goes on.
FairSpec == Spec /\ WF_vars(Pass)

-----------------------------------------------------------------------------
(* Properties *)

StoreOK ==
  /\ tasks \in Tasks /\ marks \subseteq Items
  /\ undo \in Seq(Entries) /\ redo \in Seq(Entries)

AccountOK ==
  /\ owner \in Accounts \cup {None} /\ session \in Accounts \cup {None} /\ gen \in Gens
  /\ enabled \in BOOLEAN /\ blocked \in BOOLEAN

JobOK ==
  /\ job \in Jobs
  /\ job.at \in {"idle", "next"} <=> job.cur = None
  /\ job.at \in {"recheck", "submit", "record"} <=> job.id # None

HistoryOK ==
  /\ shown \subseteq Ids /\ accepted \subseteq Items \X Dues
  /\ edits \in 0 .. MaxEdits /\ faults \in 0 .. MaxFaults

\* Every variable has its type; a pass works on what its step needs.
TypeOK == StoreOK /\ AccountOK /\ RoutesOK /\ JobOK /\ HistoryOK

\* A task is marked as reminded only if the system accepted a notification of
\* just this due date, whatever edits, undos, cloud copies and sessions came
\* between the submission and the record (reminder.rs:289-303, store.rs marks).
Reminded(t, m) == \A i \in m : t[i] # None /\ t[i].due # None => <<i, t[i].due>> \in accepted

MarkMeansReminded == Reminded(tasks, marks)

\* The strengthening of MarkMeansReminded and OneRoutePerTarget that steps keep:
\* undo and redo only bring back marks that were earned, a pass records only what
\* was accepted, and an id names one route.
HistoryIsReminded ==
  /\ \A k \in 1 .. Len(undo) : Reminded(undo[k].tasks, undo[k].marks)
  /\ \A k \in 1 .. Len(redo) : Reminded(redo[k].tasks, redo[k].marks)

SentIsAccepted ==
  job.at = "record" => <<job.cur.target.item, job.cur.target.due>> \in accepted

\* A notification in the system's list can be answered: its route is in the file
\* until it was served, whatever the file had to give up to make room, and a
\* click that was persisted is never taken back (routes.rs:131-146, 158-173).
RoutesAreKept ==
  [][\A r \in Live : \E s \in routes' :
       /\ s.id = r.id /\ s.target = r.target
       /\ r.phase = "pending" => s.phase # "reserved"]_vars

\* A served click stays served: no later click, retry or new reminder of the
\* same task brings its id back (routes.rs:158-173 "Consumed IDs are never reused").
ServedStaysServed ==
  [][\A r \in routes \ Live : \A s \in routes' : s.id = r.id => s = r]_vars

\* One target never has two live routes, so that a resubmitted reminder replaces
\* the notification on the screen and one click serves it (routes.rs:125-131).
OneRoutePerTarget ==
  \A r, s \in Live : r.target = s.target => r = s

Consistent ==
  TypeOK /\ MarkMeansReminded /\ HistoryIsReminded /\ SentIsAccepted
  /\ IdsAreOwn /\ OneRoutePerTarget

\* A due task of a session that lasts is notified in the end, if it stays as it is
\* and the file has room, whatever failed before (reminder.rs:204-309): no mark of
\* another date and no stale list or pass stands in its way.
Unsent(i) ==
  /\ i \in Present /\ tasks[i].due # None /\ ~tasks[i].done
  /\ <<i, tasks[i].due>> \notin accepted
  /\ session # None /\ ~blocked /\ enabled /\ owner = session
  /\ ~Full /\ issued < MaxIds

DueIsReminded == \A i \in Items : []<>~Unsent(i)

=============================================================================
