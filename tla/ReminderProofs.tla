---------------------------- MODULE ReminderProofs ----------------------------
(***************************************************************************)
(* The invariant of Reminder, and what follows from it, for any accounts,  *)
(* tasks, due dates and bounds.  A mark is earned: the argument follows    *)
(* each entry of the undo history back to a state of the store, and each   *)
(* mark of that state to the notification that the system accepted.        *)
(***************************************************************************)
EXTENDS Reminder, SequenceTheorems, FiniteSetTheorems, TLAPS

-----------------------------------------------------------------------------
(* Where the entries of the history come from *)

\* An entry of the history, or the one that the store would make now.
Known(e) ==
  \/ e = Entry
  \/ \E k \in 1 .. Len(undo) : e = undo[k]
  \/ \E k \in 1 .. Len(redo) : e = redo[k]

\* A history of entries that were known before.
KnownSeq(h) == h \in Seq(Entries) /\ \A k \in 1 .. Len(h) : Known(h[k])

\* The store as it is makes an entry.
LEMMA EntryType == StoreOK => Entry \in Entries
BY DEF StoreOK, Entry, Entries

\* What is in the history is known, and so is what is left of it.
LEMMA OldIsKnown ==
  ASSUME StoreOK
  PROVE  KnownSeq(undo) /\ KnownSeq(redo) /\ KnownSeq(<<>>)
BY DEF StoreOK, KnownSeq, Known

\* A known history with the store's entry added is known.
LEMMA AppendIsKnown ==
  ASSUME StoreOK, NEW h, KnownSeq(h)
  PROVE  /\ KnownSeq(Append(h, Entry))
         /\ Len(Append(h, Entry)) \in Nat
<1>1. Entry \in Entries /\ h \in Seq(Entries)
  BY EntryType DEF KnownSeq
<1>2. /\ Append(h, Entry) \in Seq(Entries)
      /\ Len(Append(h, Entry)) = Len(h) + 1
      /\ \A i \in 1 .. Len(h) : Append(h, Entry)[i] = h[i]
      /\ Append(h, Entry)[Len(h) + 1] = Entry
  BY <1>1
<1>3. Len(h) \in Nat
  OBVIOUS
<1>4. \A k \in 1 .. Len(h) + 1 : k \in 1 .. Len(h) \/ k = Len(h) + 1
  OBVIOUS
<1>5. Known(Entry)
  BY DEF Known
<1>6. QED BY <1>2, <1>5 DEF KnownSeq

\* A known history without its first entry is known.
LEMMA TailIsKnown ==
  ASSUME NEW h, KnownSeq(h), h # <<>>
  PROVE  KnownSeq(Tail(h))
<1>1. h \in Seq(Entries)
  BY DEF KnownSeq
<1>2. /\ Tail(h) \in Seq(Entries) /\ Len(Tail(h)) = Len(h) - 1
      /\ \A i \in 1 .. Len(Tail(h)) : Tail(h)[i] = h[i + 1]
  BY <1>1
<1>3. Len(h) \in Nat
  OBVIOUS
<1>4. \A i \in 1 .. Len(Tail(h)) : i + 1 \in 1 .. Len(h)
  OBVIOUS
<1>5. QED BY DEF KnownSeq

\* A known history without its last entry is known.
LEMMA FrontIsKnown ==
  ASSUME NEW h, KnownSeq(h), h # <<>>
  PROVE  /\ KnownSeq(SubSeq(h, 1, Len(h) - 1))
         /\ Known(h[Len(h)]) /\ h[Len(h)] \in Entries
<1>1. h \in Seq(Entries) /\ Len(h) \in Nat \ {0}
  BY DEF KnownSeq
<1>2. \A i \in 1 .. Len(h) : h[i] \in Entries
  BY <1>1
<1>3. \A i \in 1 .. Len(h) - 1 : i \in 1 .. Len(h)
  OBVIOUS
<1>4. PICK s : s = SubSeq(h, 1, Len(h) - 1)
  OBVIOUS
<1>5. s \in Seq(Entries) /\ Len(s) = Len(h) - 1 /\ \A i \in 1 .. Len(h) - 1 : s[i] = h[i]
  <2>1. 1 \in Int /\ Len(h) - 1 \in Int /\ \A i \in 1 .. Len(h) - 1 : h[i] \in Entries
    BY <1>1
  <2>2. /\ SubSeq(h, 1, Len(h) - 1) \in Seq(Entries)
        /\ Len(SubSeq(h, 1, Len(h) - 1)) = IF 1 <= Len(h) - 1 THEN Len(h) - 1 - 1 + 1 ELSE 0
        /\ \A i \in 1 .. Len(h) - 1 - 1 + 1 : SubSeq(h, 1, Len(h) - 1)[i] = h[1 + i - 1]
    BY <2>1
  <2>3. /\ s \in Seq(Entries)
        /\ Len(s) = IF 1 <= Len(h) - 1 THEN Len(h) - 1 - 1 + 1 ELSE 0
        /\ \A i \in 1 .. Len(h) - 1 - 1 + 1 : s[i] = h[1 + i - 1]
    BY <1>4, <2>2
  <2>4. Len(s) = Len(h) - 1 /\ Len(h) - 1 - 1 + 1 = Len(h) - 1
    <3>1. PICK n \in Nat \ {0} : n = Len(h)
      BY <1>1
    <3>2. Len(s) = IF 1 <= n - 1 THEN n - 1 - 1 + 1 ELSE 0
      BY <2>3, <3>1
    <3>3. Len(s) = n - 1 /\ n - 1 - 1 + 1 = n - 1
      BY <3>2
    <3>4. QED BY <3>1, <3>3
  <2>5. ASSUME NEW i \in 1 .. Len(h) - 1 PROVE s[i] = h[i]
    <3>1. 1 + i - 1 = i
      OBVIOUS
    <3>2. s[i] = h[1 + i - 1]
      BY <2>3
    <3>3. QED BY <3>2
  <2>6. QED BY <2>3, <2>4
<1>6. \A i \in 1 .. Len(h) : Known(h[i])
  BY DEF KnownSeq
<1>7. KnownSeq(SubSeq(h, 1, Len(h) - 1))
  <2>1. \A i \in 1 .. Len(s) : Known(s[i])
    BY <1>5, <1>6
  <2>2. QED BY DEF KnownSeq
<1>8. Len(h) \in 1 .. Len(h)
  OBVIOUS
<1>9. QED BY <1>2, <1>6, <1>7

\* A checkpoint adds the store's entry, and may forget the oldest one.
LEMMA CheckpointFacts ==
  ASSUME StoreOK, Checkpoint
  PROVE  KnownSeq(undo') /\ KnownSeq(redo')
<1>1. KnownSeq(Append(undo, Entry)) /\ KnownSeq(<<>>)
  BY OldIsKnown, AppendIsKnown
<1>2. Append(undo, Entry) # <<>>
  BY AppendProperties
<1>3. KnownSeq(Tail(Append(undo, Entry)))
  BY <1>1, <1>2, TailIsKnown
<1>4. undo' = Append(undo, Entry) \/ undo' = Tail(Append(undo, Entry))
  BY DEF Checkpoint
<1>5. QED BY <1>1, <1>3 DEF Checkpoint

-----------------------------------------------------------------------------
(* What a step does to tasks, marks and history *)

\* Marks that stay belong to tasks whose due date stays.
MarksStay ==
  \A i \in marks' : i \in marks /\ (tasks'[i] = None \/ (tasks[i] # None /\ tasks'[i] # None
                                                         /\ tasks'[i].due = tasks[i].due))

\* Tasks and marks come from one known entry.
MarksReturn == \E e \in Entries : Known(e) /\ tasks' = e.tasks /\ marks' = e.marks

\* The pass records the reminder that it works on.
MarkIsSet ==
  /\ job.at = "record" /\ Eligible(job.cur)
  /\ tasks' = tasks /\ marks' = marks \cup {job.cur.target.item}

StoreStep ==
  /\ tasks' \in Tasks /\ marks' \subseteq Items
  /\ KnownSeq(undo') /\ KnownSeq(redo')
  /\ MarksStay \/ MarksReturn \/ MarkIsSet

\* Steps that leave the store alone, or only forget the history.
LEMMA StoreRests ==
  ASSUME StoreOK, UNCHANGED <<tasks, marks>>, UNCHANGED <<undo, redo>> \/ ForgetHistory
  PROVE  StoreStep
<1>1. KnownSeq(undo') /\ KnownSeq(redo')
  BY OldIsKnown DEF ForgetHistory
<1>2. MarksReturn
  BY EntryType DEF MarksReturn, Known, Entry
<1>3. QED BY <1>1, <1>2 DEF StoreStep, StoreOK

\* Edits keep marks only where the due date stays.
LEMMA EditStep ==
  ASSUME StoreOK, JobOK,
         \/ \E i \in Items : \/ ToggleDone(i) \/ Delete(i)
                           \/ \E d \in Dues \cup {None} : SetDue(i, d) \/ AddTask(i, d)
         \/ OtherEdit \/ ClearCompleted
  PROVE  StoreStep
<1>1. ASSUME NEW i \in Items, ToggleDone(i) PROVE StoreStep
  <2>1. i \in Present /\ tasks' = [tasks EXCEPT ![i].done = ~@] /\ marks' = marks
    BY <1>1 DEF ToggleDone, Commit
  <2>2. /\ tasks' \in Tasks
        /\ \A j \in Items : (tasks'[j] = None <=> tasks[j] = None)
                            /\ (tasks[j] # None => tasks'[j].due = tasks[j].due)
    BY <2>1, NoneAssumption DEF StoreOK, Tasks, TaskStates, Present
  <2>3. MarksStay
    BY <2>1, <2>2 DEF MarksStay
  <2>4. QED BY <1>1, <2>1, <2>2, <2>3, CheckpointFacts DEF StoreStep, ToggleDone,
      StoreOK
<1>2. ASSUME NEW i \in Items, Delete(i) PROVE StoreStep
  <2>1. tasks' = [tasks EXCEPT ![i] = None] /\ marks' = marks \ {i}
    BY <1>2 DEF Delete, Commit
  <2>2. tasks' \in Tasks /\ \A j \in Items : j # i => tasks'[j] = tasks[j]
    BY <2>1 DEF StoreOK, Tasks
  <2>3. MarksStay
    BY <2>1 DEF MarksStay
  <2>4. QED BY <1>2, <2>1, <2>2, <2>3, CheckpointFacts DEF StoreStep, Delete, StoreOK
<1>3. ASSUME NEW i \in Items, NEW d \in Dues \cup {None}, SetDue(i, d) PROVE StoreStep
  <2>1. i \in Present /\ tasks' = [tasks EXCEPT ![i].due = d] /\ marks' = marks \ {i}
    BY <1>3 DEF SetDue, Commit, MarksOfDue
  <2>2. tasks' \in Tasks /\ \A j \in Items : j # i => tasks'[j] = tasks[j]
    BY <2>1 DEF StoreOK, Tasks, TaskStates, Present
  <2>3. MarksStay
    BY <2>1 DEF MarksStay
  <2>4. QED BY <1>3, <2>1, <2>2, <2>3, CheckpointFacts DEF StoreStep, SetDue, StoreOK
<1>4. CASE OtherEdit
  <2>1. tasks' = tasks /\ marks' = marks
    BY <1>4 DEF OtherEdit, Commit
  <2>2. MarksReturn
    BY <2>1, EntryType DEF MarksReturn, Known, Entry
  <2>3. QED BY <1>4, <2>1, <2>2, CheckpointFacts DEF StoreStep, OtherEdit, StoreOK
<1>5. CASE ClearCompleted
  <2>1. /\ tasks' = [i \in Items |-> IF i \in Present /\ tasks[i].done THEN None ELSE tasks[i]]
        /\ marks' = marks
    BY <1>5 DEF ClearCompleted, Commit
  <2>2. tasks' \in Tasks /\ \A j \in Items : tasks'[j] = None \/ tasks'[j] = tasks[j]
    BY <2>1 DEF StoreOK, Tasks
  <2>3. MarksStay
    BY <2>1 DEF MarksStay, StoreOK
  <2>4. QED BY <1>5, <2>1, <2>2, <2>3, CheckpointFacts DEF StoreStep, ClearCompleted,
      StoreOK
<1>6. ASSUME NEW i \in Items, NEW d \in Dues \cup {None}, AddTask(i, d) PROVE StoreStep
  <2>1. /\ tasks' = [tasks EXCEPT ![i] = [due |-> d, done |-> FALSE]]
        /\ marks' = marks /\ i \notin marks
    BY <1>6 DEF AddTask, Commit
  <2>2. tasks' \in Tasks /\ \A j \in Items : j # i => tasks'[j] = tasks[j]
    BY <2>1 DEF StoreOK, Tasks, TaskStates
  <2>3. MarksStay
    BY <2>1 DEF MarksStay
  <2>4. QED BY <1>6, <2>1, <2>2, <2>3, CheckpointFacts DEF StoreStep, AddTask, StoreOK
<1>7. QED BY <1>1, <1>2, <1>3, <1>4, <1>5, <1>6

\* Undo and redo bring an entry back as a whole.
LEMMA UndoStep ==
  ASSUME StoreOK, Undo \/ Redo
  PROVE  StoreStep
<1>1. KnownSeq(undo) /\ KnownSeq(redo)
  BY OldIsKnown
<1>2. CASE Undo
  <2>1. undo # <<>> BY <1>2 DEF Undo
  <2>2. /\ KnownSeq(SubSeq(undo, 1, Len(undo) - 1))
        /\ Known(undo[Len(undo)]) /\ undo[Len(undo)] \in Entries
    BY <1>1, <2>1, FrontIsKnown
  <2>3. KnownSeq(Append(redo, Entry))
    BY <1>1, AppendIsKnown
  <2>4. /\ tasks' = undo[Len(undo)].tasks /\ marks' = undo[Len(undo)].marks
        /\ undo' = SubSeq(undo, 1, Len(undo) - 1) /\ redo' = Append(redo, Entry)
    BY <1>2 DEF Undo, Commit, Restored
  <2>5. tasks' \in Tasks /\ marks' \subseteq Items
    BY <2>2, <2>4 DEF Entries
  <2>6. MarksReturn
    BY <2>2, <2>4 DEF MarksReturn
  <2>7. QED BY <2>2, <2>3, <2>4, <2>5, <2>6 DEF StoreStep
<1>3. CASE Redo
  <2>1. redo # <<>> BY <1>3 DEF Redo
  <2>2. /\ KnownSeq(SubSeq(redo, 1, Len(redo) - 1))
        /\ Known(redo[Len(redo)]) /\ redo[Len(redo)] \in Entries
    BY <1>1, <2>1, FrontIsKnown
  <2>3. KnownSeq(Append(undo, Entry))
    BY <1>1, AppendIsKnown
  <2>4. /\ tasks' = redo[Len(redo)].tasks /\ marks' = redo[Len(redo)].marks
        /\ redo' = SubSeq(redo, 1, Len(redo) - 1) /\ undo' = Append(undo, Entry)
    BY <1>3 DEF Redo, Commit, Restored
  <2>5. tasks' \in Tasks /\ marks' \subseteq Items
    BY <2>2, <2>4 DEF Entries
  <2>6. MarksReturn
    BY <2>2, <2>4 DEF MarksReturn
  <2>7. QED BY <2>2, <2>3, <2>4, <2>5, <2>6 DEF StoreStep
<1>4. QED BY <1>2, <1>3

\* The cloud copy keeps the marks of tasks that it leaves as they are.
LEMMA ReplaceStep ==
  ASSUME StoreOK, NEW new \in Tasks, Replace(new)
  PROVE  StoreStep
<1>1. /\ tasks' = new /\ undo' = <<>> /\ redo' = <<>>
      /\ marks' = {i \in marks : tasks[i] # None /\ new[i] # None /\ new[i].due = tasks[i].due}
  BY DEF Replace, ForgetHistory, KeptMarks
<1>2. MarksStay
  BY <1>1 DEF MarksStay
<1>3. QED BY <1>1, <1>2, OldIsKnown DEF StoreStep, StoreOK

\* A pass touches the store only to record its reminder.
LEMMA RecordStep ==
  ASSUME StoreOK, JobOK, NEW saved \in BOOLEAN, Record(saved)
  PROVE  StoreStep
<1>1. job.at = "record" /\ Eligible(job.cur) /\ UNCHANGED <<tasks, undo, redo>>
  BY DEF Record
<1>2. job.cur.target.item \in Items
  BY <1>1 DEF Eligible, Present
<1>3. CASE saved
  BY <1>2, <1>3, OldIsKnown DEF Record, StoreStep, MarkIsSet, StoreOK
<1>4. CASE ~saved
  BY <1>4, StoreRests DEF Record
<1>5. QED BY <1>3, <1>4

\* Every step is one of these.
LEMMA EveryStoreStep ==
  ASSUME StoreOK, JobOK, [Next]_vars
  PROVE  StoreStep
<1>1. CASE Pass
  <2>1. CASE \E b \in BOOLEAN : Record(b)
    BY <2>1, RecordStep
  <2>2. CASE UNCHANGED store
    BY <2>2, StoreRests DEF store
  <2>3. QED BY <1>1, <2>1, <2>2 DEF Pass, Refresh, EndPass, Reserve, Recheck, Submit,
      Outdated, Pick, ReserveFails, SubmitFails
<1>2. CASE Editing
  BY <1>2, EditStep, UndoStep, ReplaceStep DEF Editing
<1>3. CASE Surroundings
  <2>1. UNCHANGED <<tasks, marks>> /\ (UNCHANGED <<undo, redo>> \/ ForgetHistory)
    BY <1>3 DEF Surroundings, Login, Logout, NewSession, SwitchReminders, ImportStarts,
        ImportEnds, Crash, Serve, Dismiss, Click, store
  <2>2. QED BY <2>1, StoreRests
<1>4. CASE UNCHANGED vars
  BY <1>4, StoreRests DEF vars, store
<1>5. QED BY <1>1, <1>2, <1>3, <1>4 DEF Next

-----------------------------------------------------------------------------
(* Types *)

\* Accounts, switches and generations keep their types.
LEMMA AccountStep ==
  ASSUME AccountOK, [Next]_vars
  PROVE  AccountOK'
<1>1. CASE Pass
  <2>1. UNCHANGED account
    BY <1>1 DEF Pass, Refresh, EndPass, Reserve, Recheck, Submit, Outdated, Pick,
        ReserveFails, SubmitFails, Record
  <2>2. QED BY <2>1 DEF AccountOK, account
<1>2. CASE Editing
  <2>1. UNCHANGED <<session, gen, enabled, blocked>> /\ owner' \in {owner, session}
    BY <1>2 DEF Editing, ToggleDone, Delete, SetDue, AddTask, OtherEdit, ClearCompleted,
        Undo, Redo, Replace, Commit, account
  <2>2. QED BY <2>1 DEF AccountOK
<1>3. CASE Surroundings
  <2>1. ASSUME NEW a \in Accounts \cup {None}, NewSession(a), blocked' = blocked PROVE AccountOK'
    BY <2>1, BoundsAssumption DEF NewSession, AccountOK, Gens
  <2>2. CASE Crash
    BY <2>2, BoundsAssumption DEF Crash, AccountOK, Gens
  <2>3. CASE SwitchReminders \/ ImportStarts \/ ImportEnds
    BY <2>3 DEF SwitchReminders, ImportStarts, ImportEnds, AccountOK
  <2>4. CASE UNCHANGED account
    BY <2>4 DEF account, AccountOK
  <2>5. QED BY <1>3, <2>1, <2>2, <2>3, <2>4 DEF Surroundings, Login, Logout, Serve,
      Dismiss, Click
<1>4. CASE UNCHANGED vars
  BY <1>4 DEF vars, account, AccountOK
<1>5. QED BY <1>1, <1>2, <1>3, <1>4 DEF Next

\* A pass works on what its step needs.
LEMMA JobStep ==
  ASSUME JobOK, RoutesOK, AccountOK, StoreOK, [Next]_vars
  PROVE  JobOK'
<1>0. NoJob \in Jobs /\ \A d \in SUBSET Notices : [NoJob EXCEPT !.at = "next", !.due = d] \in Jobs
  BY DEF NoJob, Jobs
<1>1. Due \subseteq Notices
  <2>1. ASSUME NEW j \in Present, tasks[j].due # None, Eligible(Notice(j))
        PROVE  Notice(j) \in Notices
    <3>1. j \in Items /\ tasks[j].due \in Dues
      BY <2>1 DEF Present, StoreOK, Tasks, TaskStates
    <3>2. session \in Accounts /\ gen \in Gens
      BY <2>1 DEF Eligible, AccountOK
    <3>3. QED BY <3>1, <3>2 DEF Notice, Notices, Targets
  <2>2. QED BY <2>1 DEF Due
<1>2. CASE Pass
  <2>1. ASSUME Continue PROVE JobOK'
    BY <2>1 DEF Continue, JobOK, NoJob, Jobs
  <2>2. CASE Refresh
    BY <2>2, <1>0, <1>1 DEF Refresh, JobOK, NoJob
  <2>3. CASE EndPass
    BY <2>3, <1>0 DEF EndPass, JobOK, NoJob
  <2>4. ASSUME NEW n \in Notices, Pick(n) PROVE JobOK'
    BY <2>4, NoneAssumption DEF Pick, JobOK, Jobs
  <2>5. CASE Reserve
    <3>1. PICK id \in Ids : job' = [job EXCEPT !.at = "recheck", !.id = id]
      <4>1. CASE \E r \in Reuse : job' = [job EXCEPT !.at = "recheck", !.id = r.id]
        BY <4>1 DEF Reuse, LiveOf, Live, RoutesOK, Routes
      <4>2. CASE Add(job.cur.target) /\ job' = [job EXCEPT !.at = "recheck", !.id = issued + 1]
        <5>1. issued + 1 \in Ids
          BY <4>2, RoutesAssumption DEF Add, RoutesOK, Ids
        <5>2. QED BY <4>2, <5>1
      <4>3. QED BY <2>5, <4>1, <4>2 DEF Reserve
    <3>2. job.at = "reserve"
      BY <2>5 DEF Reserve
    <3>3. QED BY <3>1, <3>2, NoneAssumption DEF JobOK, Jobs
  <2>6. CASE Recheck
    BY <2>6, <2>1 DEF Recheck, JobOK, Jobs
  <2>7. CASE Submit
    BY <2>7 DEF Submit, JobOK, Jobs
  <2>8. QED BY <1>2, <2>1, <2>2, <2>3, <2>4, <2>5, <2>6, <2>7 DEF Pass, Outdated,
      ReserveFails, SubmitFails, Record
<1>3. CASE Editing
  <2>1. UNCHANGED job
    BY <1>3 DEF Editing, ToggleDone, Delete, SetDue, AddTask, OtherEdit, ClearCompleted,
        Undo, Redo, Replace, Commit
  <2>2. QED BY <2>1 DEF JobOK
<1>4. CASE Surroundings
  <2>1. job' = job \/ job' = NoJob
    BY <1>4 DEF Surroundings, Login, Logout, NewSession, SwitchReminders, ImportStarts,
        ImportEnds, Crash, Serve, Dismiss, Click
  <2>2. CASE job' = job
    BY <2>2 DEF JobOK
  <2>3. CASE job' = NoJob
    BY <2>3, <1>0 DEF JobOK, NoJob
  <2>4. QED BY <2>1, <2>2, <2>3
<1>5. CASE UNCHANGED vars
  BY <1>5 DEF vars, JobOK
<1>6. QED BY <1>2, <1>3, <1>4, <1>5 DEF Next

\* The histories of the properties and the bounds keep their types.
LEMMA HistoryStep ==
  ASSUME HistoryOK, JobOK, StoreOK, [Next]_vars
  PROVE  HistoryOK'
<1>0. /\ \A b : Spend(b) => faults' \in 0 .. MaxFaults
      /\ Count => edits' \in 0 .. MaxEdits
  BY BoundsAssumption DEF HistoryOK, Spend, Count
<1>1. CASE Pass
  <2>0. edits' = edits /\ (faults' = faults \/ \E b : Spend(b))
    BY <1>1 DEF Pass, Refresh, EndPass, Reserve, Recheck, Outdated, Pick, ReserveFails,
        Submit, SubmitFails, Record
  <2>1. CASE Submit \/ \E b \in BOOLEAN : SubmitFails(b)
    <3>1. job.cur \in Notices /\ job.id \in Ids
      BY <2>1 DEF Submit, SubmitFails, JobOK, Jobs
    <3>2. job.cur.target.item \in Items /\ job.cur.target.due \in Dues
      BY <3>1 DEF Notices, Targets
    <3>3. shown' \subseteq Ids /\ accepted' \subseteq Items \X Dues
      <4>1. <<job.cur.target.item, job.cur.target.due>> \in Items \X Dues
        BY <3>2
      <4>2. shown' \subseteq shown \cup {job.id}
        BY <2>1 DEF Submit, SubmitFails
      <4>3. accepted' \subseteq accepted \cup {<<job.cur.target.item, job.cur.target.due>>}
        BY <2>1 DEF Submit, SubmitFails
      <4>4. QED BY <3>1, <4>1, <4>2, <4>3 DEF HistoryOK
    <3>4. QED BY <1>0, <2>0, <3>3 DEF HistoryOK
  <2>2. CASE UNCHANGED <<shown, accepted>>
    BY <1>0, <2>0, <2>2 DEF HistoryOK
  <2>3. QED BY <1>1, <2>1, <2>2 DEF Pass, Refresh, EndPass, Reserve, Recheck, Record,
      Outdated, Pick, ReserveFails
<1>2. CASE Editing
  <2>1. Count /\ UNCHANGED <<shown, accepted, faults>>
    BY <1>2 DEF Editing, ToggleDone, Delete, SetDue, AddTask, OtherEdit, ClearCompleted,
        Undo, Redo, Replace, Commit
  <2>2. QED BY <1>0, <2>1 DEF HistoryOK
<1>3. CASE Surroundings
  <2>1. /\ shown' \subseteq shown /\ accepted' = accepted
        /\ edits' = edits \/ Count
        /\ faults' = faults \/ \E b : Spend(b)
    BY <1>3 DEF Surroundings, Login, Logout, NewSession, SwitchReminders, ImportStarts,
        ImportEnds, Crash, Serve, Dismiss, Click
  <2>2. QED BY <1>0, <2>1 DEF HistoryOK
<1>4. CASE UNCHANGED vars
  BY <1>4 DEF vars, HistoryOK
<1>5. QED BY <1>1, <1>2, <1>3, <1>4 DEF Next

-----------------------------------------------------------------------------
(* Routes *)

\* No route is lost but a consumed one, a phase only goes forward, and a new route has
\* a new id and a target without a live route.
RoutesStep ==
  \A s \in routes' :
    \/ \E r \in routes : /\ s.id = r.id /\ s.target = r.target
                         /\ (r.phase = "consumed" => s = r)
                         /\ (r.phase = "pending" => s.phase # "reserved")
    \/ /\ issued' = issued + 1 /\ s.id = issued + 1 /\ LiveOf(s.target) = {}
       /\ \A r \in routes' : r # s => r \in routes

KeepStep == \A r \in Live : \E s \in routes' :
  s.id = r.id /\ s.target = r.target /\ (r.phase = "pending" => s.phase # "reserved")

\* What Activate and Acknowledge do to one route.
LEMMA MoveFacts ==
  ASSUME RoutesOK, IdsAreOwn,
         NEW id, NEW from \in {"reserved", "pending"}, NEW to \in {"pending", "consumed"},
         from # to, Move(id, from, to), issued' = issued
  PROVE  RoutesOK' /\ RoutesStep /\ KeepStep /\ IdsAreOwn'
<1>1. \A r \in routes : /\ r \in Routes
                        /\ [r EXCEPT !.phase = to] \in Routes
                        /\ [r EXCEPT !.phase = to].id = r.id
                        /\ [r EXCEPT !.phase = to].target = r.target
                        /\ [r EXCEPT !.phase = to].phase = to
  BY DEF RoutesOK, Routes
<1>2. \A s \in routes' : \E r \in routes :
        s = IF r.id = id /\ r.phase = from THEN [r EXCEPT !.phase = to] ELSE r
  BY DEF Move
<1>3. \A r \in routes :
        (IF r.id = id /\ r.phase = from THEN [r EXCEPT !.phase = to] ELSE r) \in routes'
  BY DEF Move
<1>4. RoutesOK'
  BY <1>1, <1>2 DEF RoutesOK
<1>5. RoutesStep
  <2>1. ASSUME NEW s \in routes'
        PROVE  \E r \in routes : /\ s.id = r.id /\ s.target = r.target
                                 /\ (r.phase = "consumed" => s = r)
                                 /\ (r.phase = "pending" => s.phase # "reserved")
    BY <1>1, <1>2
  <2>2. QED BY <2>1 DEF RoutesStep
<1>6. KeepStep
  BY <1>1, <1>3 DEF KeepStep, Live
<1>7. IdsAreOwn'
  <2>1. \A s \in routes' : s.id <= issued'
    BY ZenonT(60), <1>1, <1>2 DEF IdsAreOwn
  <2>2. ASSUME NEW s \in routes', NEW z \in routes', s.id = z.id PROVE s = z
    <3>1. PICK r \in routes : s = IF r.id = id /\ r.phase = from THEN [r EXCEPT !.phase = to] ELSE r
      BY <1>2
    <3>2. PICK q \in routes : z = IF q.id = id /\ q.phase = from THEN [q EXCEPT !.phase = to] ELSE q
      BY <1>2
    <3>3. r = q
      BY <2>2, <3>1, <3>2 DEF IdsAreOwn
    <3>4. QED BY <3>1, <3>2, <3>3
  <2>3. QED BY <2>1, <2>2 DEF IdsAreOwn
<1>8. QED BY <1>4, <1>5, <1>6, <1>7

\* What a reservation does to the file.
LEMMA AddFacts ==
  ASSUME RoutesOK, NEW t \in Targets, LiveOf(t) = {}, IdsAreOwn, Add(t)
  PROVE  RoutesOK' /\ RoutesStep /\ KeepStep /\ IdsAreOwn'
<1>1. PICK new : new = [id |-> issued + 1, target |-> t, phase |-> "reserved"]
  OBVIOUS
<1>2. /\ issued + 1 \in Ids /\ issued' = issued + 1 /\ issued' \in 0 .. MaxIds
      /\ new \in Routes /\ new.id = issued + 1 /\ new.target = t
  BY <1>1, RoutesAssumption DEF Add, RoutesOK, Ids, Routes
<1>3. routes' = Kept \cup {new} /\ Kept \subseteq routes /\ Live \subseteq Kept
  BY <1>1 DEF Add, Kept, Live
<1>4. RoutesOK'
  BY <1>2, <1>3 DEF RoutesOK
<1>5. RoutesStep
  <2>1. ASSUME NEW s \in Kept
        PROVE  \E r \in routes : /\ s.id = r.id /\ s.target = r.target
                                 /\ (r.phase = "consumed" => s = r)
                                 /\ (r.phase = "pending" => s.phase # "reserved")
    BY <1>3
  <2>2. LiveOf(new.target) = {} /\ \A r \in routes' : r # new => r \in routes
    BY <1>2, <1>3
  <2>3. QED BY <1>2, <1>3 DEF RoutesStep
<1>6. KeepStep
  BY <1>3 DEF KeepStep
<1>7. IdsAreOwn'
  <2>1. \A r \in routes : r.id \in Nat /\ r.id <= issued /\ r.id # new.id
    BY <1>2 DEF RoutesOK, Routes, Ids, IdsAreOwn
  <2>2. \A r \in routes' : r.id <= issued'
    BY <1>2, <1>3, <2>1 DEF RoutesOK
  <2>3. \A r, s \in routes' : r.id = s.id => r = s
    BY <1>3, <2>1 DEF IdsAreOwn
  <2>4. QED BY <2>2, <2>3 DEF IdsAreOwn
<1>8. QED BY <1>4, <1>5, <1>6, <1>7

\* A file that nobody touches.
LEMMA RoutesRest ==
  ASSUME RoutesOK, IdsAreOwn, UNCHANGED <<routes, issued>>
  PROVE  RoutesOK' /\ RoutesStep /\ KeepStep /\ IdsAreOwn'
BY DEF RoutesOK, RoutesStep, KeepStep, Live, IdsAreOwn

\* Every step is one of these.
LEMMA EveryRoutesStep ==
  ASSUME RoutesOK, IdsAreOwn, JobOK, [Next]_vars
  PROVE  RoutesOK' /\ RoutesStep /\ KeepStep /\ IdsAreOwn'
<1>1. CASE Pass
  <2>1. CASE Reserve /\ ~UNCHANGED file
    <3>1. LiveOf(job.cur.target) = {} /\ Add(job.cur.target) /\ job.cur # None
      BY <2>1 DEF Reserve, Reuse, JobOK
    <3>2. job.cur.target \in Targets
      BY <3>1 DEF JobOK, Jobs, Notices
    <3>3. QED BY <3>1, <3>2, AddFacts
  <2>2. CASE UNCHANGED file
    BY <2>2, RoutesRest DEF file
  <2>3. QED BY <1>1, <2>1, <2>2 DEF Pass, Refresh, EndPass, Recheck, Outdated, Pick,
      ReserveFails, Submit, SubmitFails, Record
<1>2. CASE Editing
  <2>1. UNCHANGED file
    BY <1>2 DEF Editing, ToggleDone, Delete, SetDue, AddTask, OtherEdit, ClearCompleted,
        Undo, Redo, Replace, Commit
  <2>2. QED BY <2>1, RoutesRest DEF file
<1>3. CASE Surroundings
  <2>1. ASSUME NEW id \in Ids, NEW saved \in BOOLEAN, Click(id, saved)
        PROVE  RoutesOK' /\ RoutesStep /\ KeepStep /\ IdsAreOwn'
    <3>1. issued' = issued /\ (Move(id, "reserved", "pending") \/ routes' = routes)
      BY <2>1 DEF Click, Activate
    <3>2. QED BY <3>1, MoveFacts, RoutesRest
  <2>2. ASSUME NEW id \in Ids, Serve(id) PROVE RoutesOK' /\ RoutesStep /\ KeepStep /\ IdsAreOwn'
    <3>1. issued' = issued /\ Move(id, "pending", "consumed")
      BY <2>2 DEF Serve, Acknowledge
    <3>2. QED BY <3>1, MoveFacts
  <2>3. CASE UNCHANGED file
    BY <2>3, RoutesRest DEF file
  <2>4. QED BY <1>3, <2>1, <2>2, <2>3 DEF Surroundings, Login, Logout, NewSession,
      SwitchReminders, ImportStarts, ImportEnds, Crash, Dismiss
<1>4. CASE UNCHANGED vars
  BY <1>4, RoutesRest DEF vars, file
<1>5. QED BY <1>1, <1>2, <1>3, <1>4 DEF Next

\* A new route has a target of its own, and the others had theirs before.
LEMMA TargetsStayOwn ==
  ASSUME RoutesOK, IdsAreOwn, OneRoutePerTarget, RoutesStep, RoutesOK', IdsAreOwn'
  PROVE  OneRoutePerTarget'
<1>1. SUFFICES ASSUME NEW r \in routes', NEW s \in routes',
                      r.phase # "consumed", s.phase # "consumed", r.target = s.target
               PROVE  r = s
  BY DEF OneRoutePerTarget, Live
<1>2. DEFINE From(x, y) == /\ x.id = y.id /\ x.target = y.target
                           /\ (y.phase = "consumed" => x = y)
             New(x) == LiveOf(x.target) = {} /\ \A y \in routes' : y # x => y \in routes
<1>3. (\E y \in routes : From(r, y)) \/ New(r)
  BY DEF RoutesStep
<1>4. (\E y \in routes : From(s, y)) \/ New(s)
  BY DEF RoutesStep
<1>5. ASSUME NEW x \in routes', NEW z \in routes', New(x), z # x, z.phase # "consumed",
             z.target = x.target
      PROVE  FALSE
  BY <1>5 DEF LiveOf, Live
<1>6. ASSUME NEW y \in routes, NEW z \in routes, From(r, y), From(s, z) PROVE r = s
  <2>1. y \in Live /\ z \in Live /\ y.target = z.target
    BY <1>1, <1>6 DEF Live
  <2>2. y = z
    BY <2>1 DEF OneRoutePerTarget
  <2>3. r.id = s.id
    BY <1>6, <2>2
  <2>4. QED BY <2>3 DEF IdsAreOwn
<1>7. QED BY <1>1, <1>3, <1>4, <1>5, <1>6

-----------------------------------------------------------------------------
(* Marks *)

\* A pass comes to its record by a notification that was just accepted.
LEMMA SentStep ==
  ASSUME JobOK, SentIsAccepted, [Next]_vars
  PROVE  SentIsAccepted' /\ accepted \subseteq accepted'
<1>1. CASE Submit
  BY <1>1 DEF Submit, SentIsAccepted
<1>2. CASE UNCHANGED <<job, accepted>>
  BY <1>2 DEF SentIsAccepted
<1>3. CASE job'.at # "record" /\ accepted' = accepted
  BY <1>3 DEF SentIsAccepted
<1>4. CASE Pass
  <2>1. ASSUME Continue PROVE job'.at = "next"
    BY <2>1 DEF Continue
  <2>2. CASE Refresh \/ EndPass
    <3>1. accepted' = accepted
      BY <2>2 DEF Refresh, EndPass
    <3>2. job' = NoJob \/ job' = [NoJob EXCEPT !.at = "next", !.due = Due]
      BY <2>2 DEF Refresh, EndPass
    <3>3. NoJob.at = "idle" /\ \A d : [NoJob EXCEPT !.at = "next", !.due = d].at = "next"
      BY DEF NoJob
    <3>4. QED BY <1>3, <3>1, <3>2, <3>3
  <2>3. CASE Reserve
    BY <1>3, <2>3 DEF Reserve, JobOK, Jobs
  <2>4. CASE Recheck
    BY <1>3, <2>1, <2>4 DEF Recheck, JobOK, Jobs
  <2>5. CASE \E n \in Notices : Pick(n)
    BY <1>3, <2>5 DEF Pick
  <2>6. QED BY <1>1, <1>3, <1>4, <2>1, <2>2, <2>3, <2>4, <2>5 DEF Pass, Outdated,
      ReserveFails, SubmitFails, Record
<1>5. CASE Editing
  BY <1>2, <1>5 DEF Editing, ToggleDone, Delete, SetDue, AddTask, OtherEdit,
      ClearCompleted, Undo, Redo, Replace, Commit
<1>6. CASE Surroundings
  <2>1. accepted' = accepted /\ (job' = job \/ job' = NoJob)
    BY <1>6 DEF Surroundings, Login, Logout, NewSession, SwitchReminders, ImportStarts,
        ImportEnds, Crash, Serve, Dismiss, Click
  <2>2. NoJob.at # "record"
    BY DEF NoJob
  <2>3. QED BY <1>2, <1>3, <2>1, <2>2
<1>7. QED BY <1>2, <1>4, <1>5, <1>6 DEF Next, vars

\* What the system accepted stays accepted.
LEMMA KnownIsReminded ==
  ASSUME MarkMeansReminded, HistoryIsReminded, NEW e, Known(e)
  PROVE  Reminded(e.tasks, e.marks)
BY DEF Known, Entry, MarkMeansReminded, HistoryIsReminded

\* The marks of the store and of its history stay earned.
LEMMA MarksStep ==
  ASSUME StoreOK, JobOK, MarkMeansReminded, HistoryIsReminded, SentIsAccepted,
         StoreStep, accepted \subseteq accepted'
  PROVE  MarkMeansReminded' /\ HistoryIsReminded'
<1>1. \A e : Known(e) => \A i \in e.marks : e.tasks[i] # None /\ e.tasks[i].due # None
                            => <<i, e.tasks[i].due>> \in accepted'
  BY KnownIsReminded DEF Reminded
<1>2. HistoryIsReminded'
  <2>1. /\ \A k \in 1 .. Len(undo') : Known(undo'[k])
        /\ \A k \in 1 .. Len(redo') : Known(redo'[k])
    BY DEF StoreStep, KnownSeq
  <2>2. QED BY <1>1, <2>1 DEF HistoryIsReminded, Reminded
<1>3. ASSUME NEW i \in marks', tasks'[i] # None, tasks'[i].due # None
      PROVE  <<i, tasks'[i].due>> \in accepted'
  <2>1. \A j \in marks : tasks[j] # None /\ tasks[j].due # None
                         => <<j, tasks[j].due>> \in accepted'
    BY DEF MarkMeansReminded, Reminded
  <2>2. CASE MarksStay
    <3>1. i \in marks /\ tasks[i] # None /\ tasks'[i].due = tasks[i].due
      BY <1>3, <2>2 DEF MarksStay
    <3>2. QED BY <1>3, <2>1, <3>1
  <2>3. CASE MarksReturn
    <3>1. PICK e \in Entries : Known(e) /\ tasks' = e.tasks /\ marks' = e.marks
      BY <2>3 DEF MarksReturn
    <3>2. QED BY <1>1, <1>3, <3>1
  <2>4. CASE MarkIsSet
    <3>1. /\ tasks' = tasks /\ (i \in marks \/ i = job.cur.target.item)
          /\ tasks[job.cur.target.item].due = job.cur.target.due
          /\ <<job.cur.target.item, job.cur.target.due>> \in accepted'
      BY <2>4 DEF MarkIsSet, Eligible, SentIsAccepted
    <3>2. QED BY <1>3, <2>1, <3>1
  <2>5. QED BY <2>2, <2>3, <2>4 DEF StoreStep
<1>4. MarkMeansReminded'
  BY <1>3 DEF MarkMeansReminded, Reminded
<1>5. QED BY <1>2, <1>4

-----------------------------------------------------------------------------
(* The theorems *)

\* The program starts without marks, history, routes or a pass.
LEMMA InitConsistent == Init => Consistent
<1>1. SUFFICES ASSUME Init PROVE Consistent
  OBVIOUS
<1>2. StoreOK /\ Len(undo) = 0 /\ Len(redo) = 0
  BY <1>1 DEF Init, StoreOK
<1>3. AccountOK
  <2>1. gen \in Gens
    BY <1>1, BoundsAssumption DEF Init, Gens
  <2>2. QED BY <1>1, <2>1 DEF Init, AccountOK
<1>4. HistoryOK
  BY <1>1, BoundsAssumption DEF Init, HistoryOK
<1>5. RoutesOK /\ IdsAreOwn /\ OneRoutePerTarget
  BY <1>1, RoutesAssumption DEF Init, RoutesOK, IdsAreOwn, OneRoutePerTarget, Live
<1>6. JobOK /\ SentIsAccepted
  BY <1>1 DEF Init, JobOK, Jobs, NoJob, SentIsAccepted
<1>7. MarkMeansReminded /\ HistoryIsReminded
  BY <1>1 DEF Init, MarkMeansReminded, Reminded, HistoryIsReminded
<1>8. QED BY <1>2, <1>3, <1>4, <1>5, <1>6, <1>7 DEF Consistent, TypeOK

\* Every step keeps the invariant.
LEMMA NextConsistent == Consistent /\ [Next]_vars => Consistent'
<1>1. SUFFICES ASSUME Consistent, [Next]_vars PROVE Consistent'
  OBVIOUS
<1>2. StoreOK /\ AccountOK /\ RoutesOK /\ JobOK /\ HistoryOK
  BY <1>1 DEF Consistent, TypeOK
<1>3. StoreStep
  BY <1>1, <1>2, EveryStoreStep
<1>4. StoreOK'
  BY <1>3 DEF StoreStep, KnownSeq, StoreOK
<1>5. AccountOK' /\ JobOK' /\ HistoryOK'
  BY <1>1, <1>2, AccountStep, JobStep, HistoryStep
<1>6. RoutesOK' /\ RoutesStep /\ IdsAreOwn'
  BY <1>1, <1>2, EveryRoutesStep DEF Consistent
<1>7. OneRoutePerTarget'
  BY <1>1, <1>2, <1>6, TargetsStayOwn DEF Consistent
<1>8. SentIsAccepted' /\ accepted \subseteq accepted'
  BY <1>1, <1>2, SentStep DEF Consistent
<1>9. MarkMeansReminded' /\ HistoryIsReminded'
  BY <1>1, <1>2, <1>3, <1>8, MarksStep DEF Consistent
<1>10. QED BY <1>4, <1>5, <1>6, <1>7, <1>8, <1>9 DEF Consistent, TypeOK

\* The strengthened invariant holds in every reachable state.
THEOREM Invariance == Spec => []Consistent
BY InitConsistent, NextConsistent, PTL DEF Spec

\* Every variable has its type (the counterpart of the borrow and type checks).
THEOREM TypeCorrect == Spec => []TypeOK
<1>1. Consistent => TypeOK
  BY DEF Consistent
<1>2. QED BY <1>1, Invariance, PTL

\* A task marked as reminded was notified for just its due date, whatever edits,
\* undos, cloud copies, sessions and crashes came between.
THEOREM MarksAreEarned == Spec => []MarkMeansReminded
<1>1. Consistent => MarkMeansReminded
  BY DEF Consistent
<1>2. QED BY <1>1, Invariance, PTL

\* A target never has two live routes.
THEOREM TargetsAreOwn == Spec => []OneRoutePerTarget
<1>1. Consistent => OneRoutePerTarget
  BY DEF Consistent
<1>2. QED BY <1>1, Invariance, PTL

\* No step loses a live route or takes a click back.
THEOREM LiveRoutesStay == Spec => RoutesAreKept
<1>1. Consistent /\ [Next]_vars =>
        [\A r \in Live : \E s \in routes' :
           /\ s.id = r.id /\ s.target = r.target
           /\ r.phase = "pending" => s.phase # "reserved"]_vars
  BY EveryRoutesStep DEF Consistent, TypeOK, KeepStep
<1>2. QED BY <1>1, Invariance, PTL DEF Spec, RoutesAreKept

\* No step changes a route that was served or gives its id to another one.
THEOREM ServedRoutesStay == Spec => ServedStaysServed
<1>1. Consistent /\ [Next]_vars =>
        [\A r \in routes \ Live : \A s \in routes' : s.id = r.id => s = r]_vars
  <2>1. SUFFICES ASSUME Consistent, [Next]_vars, NEW r \in routes \ Live, NEW s \in routes',
                        s.id = r.id
                 PROVE  s = r
    OBVIOUS
  <2>2. RoutesStep /\ IdsAreOwn /\ RoutesOK
    BY <2>1, EveryRoutesStep DEF Consistent, TypeOK
  <2>3. CASE \E q \in routes : s.id = q.id /\ (q.phase = "consumed" => s = q)
    BY <2>1, <2>2, <2>3 DEF IdsAreOwn, Live
  <2>4. CASE s.id = issued + 1
    <3>1. r.id <= issued /\ r.id \in Nat /\ issued \in Nat
      BY <2>2 DEF IdsAreOwn, RoutesOK, Routes, Ids
    <3>2. QED BY <2>1, <2>4, <3>1
  <2>5. QED BY <2>2, <2>3, <2>4 DEF RoutesStep
<1>2. QED BY <1>1, Invariance, PTL DEF Spec, ServedStaysServed

-----------------------------------------------------------------------------
(* A task that waits is not overlooked *)

\* The next pass finds a task that waits for its reminder: no mark that came from
\* another date, from an undo or from a cloud copy keeps it off the list of the due
\* (reminder.rs:207-248).  This is the safety half of DueIsReminded.
UnsentIsDue == \A i \in Items : Unsent(i) => Notice(i) \in Due

\* A task without an accepted notification has no mark, and nothing else is asked of it.
THEOREM UnsentAlwaysDue == Spec => []UnsentIsDue
<1>1. Consistent => UnsentIsDue
  <2>1. SUFFICES ASSUME Consistent, NEW i \in Items, Unsent(i)
                 PROVE  Notice(i) \in Due
    BY DEF UnsentIsDue
  <2>2. /\ i \in Present /\ tasks[i] # None /\ tasks[i].due # None /\ ~tasks[i].done
        /\ <<i, tasks[i].due>> \notin accepted
        /\ session # None /\ ~blocked /\ enabled /\ owner = session
    BY <2>1 DEF Unsent, Present
  <2>3. i \notin marks
    BY <2>1, <2>2 DEF Consistent, MarkMeansReminded, Reminded
  <2>4. /\ Notice(i).gen = gen /\ Notice(i).target.item = i
        /\ Notice(i).target.owner = session /\ Notice(i).target.due = tasks[i].due
    BY DEF Notice
  <2>5. Eligible(Notice(i))
    BY <2>2, <2>3, <2>4 DEF Eligible
  <2>6. QED BY <2>2, <2>5 DEF Due
<1>2. QED BY <1>1, Invariance, PTL

-----------------------------------------------------------------------------
(* The file of routes can always be read again *)

\* There are never more than MAX_ROUTES routes.
RoutesFit == IsFiniteSet(routes) /\ Cardinality(routes) <= Limit

\* However many notifications were reserved, clicked and served, every operation finds
\* a file that read() accepts: it refuses one with more than MAX_ROUTES routes or with
\* two of one id, and with it every later reminder and click (routes.rs:99-112).
RoutesAreReadable == RoutesFit /\ \A r, s \in routes : r.id = s.id => r = s

\* What can become of the file in one step: a new route, another phase of one, nothing.
RoutesMove ==
  \/ \E t : Add(t)
  \/ \E id, from, to : Move(id, from, to)
  \/ UNCHANGED routes

\* Every step is one of these.
LEMMA EveryRoutesMove ==
  ASSUME [Next]_vars
  PROVE  RoutesMove
<1>1. CASE Pass
  BY <1>1 DEF Pass, Refresh, EndPass, Reserve, Recheck, Submit, Outdated, Pick, ReserveFails,
     SubmitFails, Record, file, RoutesMove
<1>2. CASE Editing
  BY <1>2 DEF Editing, ToggleDone, Delete, SetDue, AddTask, OtherEdit, ClearCompleted, Undo,
     Redo, Replace, Commit, file, RoutesMove
<1>3. CASE Surroundings
  BY <1>3 DEF Surroundings, Login, Logout, NewSession, SwitchReminders, ImportStarts, ImportEnds,
     Crash, Serve, Dismiss, Click, Activate, Acknowledge, file, RoutesMove
<1>4. CASE UNCHANGED vars
  BY <1>4 DEF vars, file, RoutesMove
<1>5. QED BY <1>1, <1>2, <1>3, <1>4 DEF Next

\* No step makes the file too large: what it gives up for a new route makes the room.
LEMMA RoutesFitStep ==
  ASSUME RoutesFit, RoutesMove
  PROVE  RoutesFit'
<1>1. ASSUME NEW t, Add(t) PROVE RoutesFit'
  <2>1. Kept \subseteq routes
    BY DEF Kept, Live
  <2>2. IsFiniteSet(Kept) /\ Cardinality(Kept) \in Nat /\ Cardinality(Kept) < Limit
    <3>1. IsFiniteSet(Kept)
      BY <2>1, FS_Subset DEF RoutesFit
    <3>2. Cardinality(Kept) \in Nat
      BY <3>1, FS_CardinalityType
    <3>3. QED BY <1>1, <3>1, <3>2, RoutesAssumption DEF Add, Full
  <2>3. PICK new : routes' = Kept \cup {new}
    BY <1>1 DEF Add
  <2>4. IsFiniteSet(routes') /\ Cardinality(routes') <= Cardinality(Kept) + 1
    BY <2>2, <2>3, FS_AddElement
  <2>5. QED BY <2>2, <2>4, FS_CardinalityType, RoutesAssumption DEF RoutesFit
<1>2. ASSUME NEW id, NEW from, NEW to, Move(id, from, to) PROVE RoutesFit'
  <2> DEFINE Moved(r) == IF r.id = id /\ r.phase = from THEN [r EXCEPT !.phase = to] ELSE r
             Moves == [r \in routes |-> Moved(r)]
  <2>1. routes' = {Moved(r) : r \in routes}
    BY <1>2 DEF Move
  <2>2. Moves \in Surjection(routes, routes')
    BY <2>1 DEF Surjection
  <2>3. IsFiniteSet(routes') /\ Cardinality(routes') <= Cardinality(routes)
    BY <2>2, FS_Surjection DEF RoutesFit
  <2>4. QED BY <2>3, FS_CardinalityType, RoutesAssumption DEF RoutesFit
<1>3. CASE UNCHANGED routes
  BY <1>3 DEF RoutesFit
<1>4. QED BY <1>1, <1>2, <1>3 DEF RoutesMove

\* RoutesAreReadable, for every limit and every number of routes ever created.
THEOREM RoutesAlwaysReadable == Spec => []RoutesAreReadable
<1>1. Init => RoutesFit
  BY FS_EmptySet, RoutesAssumption DEF Init, RoutesFit
<1>2. RoutesFit /\ [Next]_vars => RoutesFit'
  BY EveryRoutesMove, RoutesFitStep
<1>3. RoutesFit /\ Consistent => RoutesAreReadable
  BY DEF RoutesAreReadable, Consistent, IdsAreOwn
<1>4. QED BY <1>1, <1>2, <1>3, Invariance, PTL DEF Spec

=============================================================================
