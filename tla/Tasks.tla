-------------------------------- MODULE Tasks --------------------------------
(***************************************************************************)
(* The task store as data: its contents, its history, and what each        *)
(* operation makes of them.  An operation that the store refuses (NoOp,    *)
(* NotFound, InvalidFocus) has no result; the others are given as the set  *)
(* of their results, for every argument they can be called with.           *)
(*                                                                         *)
(* The list of items is split in two: the order of their ids, and what is  *)
(* known of each id (None: no such item).  Texts and time stamps are left  *)
(* out, and the titles of the history with them.                           *)
(*                                                                         *)
(* A definition whose name ends in Bug is a plausible mistake in the       *)
(* definition that follows it and is used by nothing.                      *)
(***************************************************************************)
EXTENDS Naturals, Sequences, SequencesExt

CONSTANTS
  Ids,          \* ids of tasks
  Dues,         \* due dates
  None,         \* absent value
  Clouds,       \* contents that a cloud copy or an import may bring
  HistoryLimit, \* HISTORY_LIMIT
  Absent,       \* there is no file
  Unreadable,   \* what the parser refuses: damaged, or of another format
  Foreign       \* contents the file may get from somebody else

Details == [due : Dues \cup {None}, done : BOOLEAN]

\* What the history keeps of a list, and the file with the revision.
Views == [order : Seq(Ids), task : [Ids -> Details \cup {None}],
          focus : Ids \cup {None}, marks : SUBSET Ids]

Data == [order : Seq(Ids), task : [Ids -> Details \cup {None}],
         focus : Ids \cup {None}, marks : SUBSET Ids, revision : Nat]

\* What is found at the place of the file.
Contents == Data \cup {Absent, Unreadable}

ASSUME TasksAssumption ==
  /\ HistoryLimit \in Nat \ {0}
  /\ Clouds \subseteq Views /\ Foreign \subseteq Contents
  /\ None \notin Ids \cup Details

-----------------------------------------------------------------------------
(* Parts of a store *)

List(order, task, focus, marks) ==
  [order |-> order, task |-> task, focus |-> focus, marks |-> marks]

View(s) == List(s.order, s.task, s.focus, s.marks)

\* The store that has this list and this history.
With(v, undo, redo, revision) ==
  [order |-> v.order, task |-> v.task, focus |-> v.focus, marks |-> v.marks,
   undo |-> undo, redo |-> redo, revision |-> revision]

Items(s) == {i \in Ids : s.task[i] # None}

Active(s) == {i \in Items(s) : ~s.task[i].done}

\* focused_item
Focused(s) == IF s.focus \in Active(s) THEN s.focus ELSE None

\* A new id is unknown to everything the store keeps.
Known(s) == Items(s) \cup s.marks \cup UNION {Items(e) : e \in ToSet(s.undo) \cup ToSet(s.redo)}

-----------------------------------------------------------------------------
(* History *)

\* No more than the limit: the oldest entry goes.
Trim(h) == IF Len(h) > HistoryLimit THEN Tail(h) ELSE h

\* checkpoint, the change of the list, did_mutate
Step(s, v) == With(v, Trim(Append(s.undo, View(s))), <<>>, s.revision + 1)

Forgotten(s) == With(s, <<>>, <<>>, s.revision)

UndoingBug(s) ==
  IF s.undo = <<>> THEN {}
  ELSE {With([Last(s.undo) EXCEPT !.marks = s.marks],
             Front(s.undo), Append(s.redo, View(s)), s.revision + 1)}

Undoing(s) ==
  IF s.undo = <<>> THEN {}
  ELSE {With(Last(s.undo), Front(s.undo), Append(s.redo, View(s)), s.revision + 1)}

Redoing(s) ==
  IF s.redo = <<>> THEN {}
  ELSE {With(Last(s.redo), Append(s.undo, View(s)), Front(s.redo), s.revision + 1)}

-----------------------------------------------------------------------------
(* Operations on the list *)

\* Where the first completed item is, or the end.
Insertion(s) ==
  {k \in 1 .. Len(s.order) + 1 :
     /\ \A j \in 1 .. k - 1 : s.order[j] \in Active(s)
     /\ k <= Len(s.order) => s.order[k] \notin Active(s)}

Put(s, i, due, done) == [s.task EXCEPT ![i] = [due |-> due, done |-> done]]

\* The new task gets the focus when nothing has it.
Added(s, k, i, d) ==
  List(InsertAt(s.order, k, i), Put(s, i, d, FALSE),
       IF Focused(s) = None THEN i ELSE s.focus, s.marks)

Adding(s) ==
  {Step(s, Added(s, k, i, d)) : k \in Insertion(s), i \in Ids \ Known(s), d \in Dues \cup {None}}

\* Another date makes the task due for a new reminder.
Dated(s, i, d) ==
  List(s.order, Put(s, i, d, s.task[i].done), s.focus, s.marks \ {i})

SettingDue(s) ==
  {Step(s, Dated(s, c[1], c[2])) :
     c \in {p \in Items(s) \X (Dues \cup {None}) : s.task[p[1]].due # p[2]}}

\* A task that is done loses the focus.
FocusAfter(s, i) == IF i \in Active(s) /\ s.focus = i THEN None ELSE s.focus

Toggled(s, i) ==
  List(s.order, Put(s, i, s.task[i].due, ~s.task[i].done),
       FocusAfter(s, i), s.marks)

Toggling(s) == {Step(s, Toggled(s, i)) : i \in Items(s)}

\* Only the text changes.
Renaming(s) == {Step(s, View(s)) : i \in Items(s)}

\* The order without the items that go, the others as they were.
Remaining(order, gone) ==
  {o \in SeqOf(ToSet(order) \ gone, Len(order)) :
     /\ IsInjective(o) /\ ToSet(o) = ToSet(order) \ gone
     /\ \A j, k \in DOMAIN o : j < k =>
          \E p, q \in DOMAIN order : p < q /\ order[p] = o[j] /\ order[q] = o[k]}

Without(s, gone) == [i \in Ids |-> IF i \in gone THEN None ELSE s.task[i]]

Deleted(s, o, i) ==
  List(o, Without(s, {i}), IF s.focus = i THEN None ELSE s.focus, s.marks \ {i})

Deleting(s) == UNION {{Step(s, Deleted(s, o, i)) : o \in Remaining(s.order, {i})} : i \in Items(s)}

Focusing(s) ==
  {Step(s, List(s.order, s.task, IF s.focus = i THEN None ELSE i, s.marks)) : i \in Active(s)}

\* The completed items go, their marks are left behind.
Completed(s) == Items(s) \ Active(s)

Cleared(s, o) == List(o, Without(s, Completed(s)), s.focus, s.marks)

Clearing(s) ==
  IF Completed(s) = {} THEN {}
  ELSE {Step(s, Cleared(s, o)) : o \in Remaining(s.order, Completed(s))}

\* The list is one item shorter when the moved item is put back.
Place(from, to) == IF from < to THEN to - 1 ELSE to

Moved(s, from, to) ==
  List(InsertAt(RemoveAt(s.order, from), Place(from, to), s.order[from]), s.task, s.focus, s.marks)

\* One unfinished task before another, unless it is there already.
Movable(s) ==
  {m \in (1 .. Len(s.order)) \X (1 .. Len(s.order)) :
     /\ {s.order[m[1]], s.order[m[2]]} \subseteq Active(s)
     /\ m[1] # m[2] /\ m[1] + 1 # m[2]}

Moving(s) == {Step(s, Moved(s, m[1], m[2])) : m \in Movable(s)}

\* The operations that can be undone.
Steps(s) == Adding(s) \cup SettingDue(s) \cup Toggling(s) \cup Renaming(s) \cup Deleting(s)
            \cup Focusing(s) \cup Clearing(s) \cup Moving(s)

-----------------------------------------------------------------------------
(* Reminders and cloud copies *)

Marking(s) ==
  {With(List(s.order, s.task, s.focus, s.marks \cup {i}), s.undo, s.redo, s.revision + 1) :
     i \in Items(s) \ s.marks}

\* replace_all: a mark stays with an item that keeps its date, a focus must be active.
KeptMarks(s, c) == {i \in s.marks \cap Items(s) \cap Items(c) : s.task[i].due = c.task[i].due}

Replacing(s) ==
  {With(List(c.order, c.task, Focused(c), KeptMarks(s, c)), <<>>, <<>>, s.revision + 1) : c \in Clouds}

Edits(s) == Steps(s) \cup Undoing(s) \cup Redoing(s) \cup Marking(s) \cup Replacing(s)

-----------------------------------------------------------------------------
(* The store and its file *)

\* Store::new
Empty == With(List(<<>>, [i \in Ids |-> None], None, {}), <<>>, <<>>, 0)

\* to_data_file
Saved(s) == [order |-> s.order, task |-> s.task, focus |-> s.focus, marks |-> s.marks,
             revision |-> s.revision]

\* from_data: a focus on anything but an active item is dropped.
Loaded(d) == With(List(d.order, d.task, Focused(d), d.marks), <<>>, <<>>, d.revision)

\* The store of a process that starts with this file.
Start(c) == IF c = Absent THEN Empty ELSE Loaded(c)

=============================================================================
