---------------------------- MODULE StorageProofs ----------------------------
(***************************************************************************)
(* Proofs about the task store and its file: every operation keeps the     *)
(* focus on an unfinished task and the history within its limit, undo and  *)
(* redo are inverse, and Storage implements Store.                         *)
(***************************************************************************)
EXTENDS Storage, SequenceTheorems, TLAPS

\* What the focus of a list may be.
Focusable(v) == v.focus # None => v.focus \in Active(v)

GoodViews == {v \in Views : Focusable(v)}

Lists == [order : Seq(Ids), task : [Ids -> Details \cup {None}], focus : Ids \cup {None},
          marks : SUBSET Ids, undo : Seq(GoodViews), redo : Seq(GoodViews), revision : Nat]

Stores == {s \in Lists : Focusable(s) /\ Len(s.undo) + Len(s.redo) <= HistoryLimit}

-----------------------------------------------------------------------------
(* The operations of the store *)

\* The absent value is neither a task nor its details.
LEMMA NoneIsApart == None \notin Ids /\ None \notin Details
BY TasksAssumption

\* What a checkpoint puts into the history has its focus on an active task.
LEMMA ViewIsGood == ASSUME NEW s \in Stores PROVE View(s) \in GoodViews
BY DEF Stores, Lists, GoodViews, Views, View, List, Focusable, Active, Items

\* A history with one entry too many is cut to the limit.
LEMMA TrimType ==
  ASSUME NEW h \in Seq(GoodViews), Len(h) <= HistoryLimit + 1
  PROVE  Trim(h) \in Seq(GoodViews) /\ Len(Trim(h)) <= HistoryLimit
<1>1. CASE Len(h) > HistoryLimit
  BY <1>1, HeadTailProperties, LenProperties, TasksAssumption, EmptySeq DEF Trim
<1>2. CASE ~(Len(h) > HistoryLimit)
  BY <1>2, LenProperties, TasksAssumption DEF Trim
<1>3. QED
  BY <1>1, <1>2

\* Each half of the history is within the limit that both share.
LEMMA HistoryBound ==
  ASSUME NEW u \in Seq(GoodViews), NEW r \in Seq(GoodViews), Len(u) + Len(r) <= HistoryLimit
  PROVE  Len(u) <= HistoryLimit /\ Len(u) \in Nat /\ Len(r) \in Nat
BY LenProperties, TasksAssumption

\* A history with another entry is a history within the limit.
LEMMA TrimmedType ==
  ASSUME NEW u \in Seq(GoodViews), NEW v \in GoodViews, Len(u) <= HistoryLimit
  PROVE  Trim(Append(u, v)) \in Seq(GoodViews) /\ Len(Trim(Append(u, v))) <= HistoryLimit
<1>1. Append(u, v) \in Seq(GoodViews) /\ Len(Append(u, v)) = Len(u) + 1
  BY AppendProperties
<1>2. Len(Append(u, v)) <= HistoryLimit + 1
  BY <1>1, LenProperties, TasksAssumption
<1>3. QED
  BY <1>1, <1>2, TrimType

\* The parts of a store, and a store of such parts.
LEMMA StoreParts ==
  ASSUME NEW s \in Stores
  PROVE  /\ View(s) \in GoodViews /\ s.revision \in Nat
         /\ \E u, r \in Seq(GoodViews) :
              s.undo = u /\ s.redo = r /\ Len(u) + Len(r) <= HistoryLimit
<1>1. \E u, r \in Seq(GoodViews) :
        s.undo = u /\ s.redo = r /\ Len(u) + Len(r) <= HistoryLimit
  BY DEF Stores, Lists
<1>2. QED
  BY <1>1, ViewIsGood DEF Stores, Lists

\* A good list, a history within the limit and a revision make a store.
LEMMA WithType ==
  ASSUME NEW v \in GoodViews, NEW u \in Seq(GoodViews), NEW r \in Seq(GoodViews),
         Len(u) + Len(r) <= HistoryLimit, NEW n \in Nat
  PROVE  With(v, u, r, n) \in Stores
BY DEF With, Stores, Lists, GoodViews, Views, Focusable, Active, Items

\* The empty history.
LEMMA NoHistory == <<>> \in Seq(GoodViews) /\ Len(<<>>) = 0
BY EmptySeq

\* Any list with an allowed focus may follow a checkpoint.
LEMMA StepType ==
  ASSUME NEW s \in Stores, NEW v \in GoodViews
  PROVE  Step(s, v) \in Stores
<1>1. PICK u, r \in Seq(GoodViews) :
        s.undo = u /\ s.redo = r /\ Len(u) + Len(r) <= HistoryLimit
  BY StoreParts
<1>2. Trim(Append(u, View(s))) \in Seq(GoodViews) /\ Len(Trim(Append(u, View(s)))) <= HistoryLimit
  BY <1>1, HistoryBound, StoreParts, TrimmedType
<1>3. \A h \in Seq(GoodViews) : Len(h) <= HistoryLimit => Len(h) + Len(<<>>) <= HistoryLimit
  BY NoHistory, LenProperties, TasksAssumption
<1>4. s.revision + 1 \in Nat
  BY StoreParts
<1>5. With(v, Trim(Append(u, View(s))), <<>>, s.revision + 1) \in Stores
  BY <1>2, <1>3, <1>4, NoHistory, WithType
<1>6. QED
  BY <1>1, <1>5, Zenon DEF Step

\* A store without its history is a store.
LEMMA ForgottenType ==
  ASSUME NEW s \in Stores
  PROVE  Forgotten(s) \in Stores
<1>1. With(View(s), <<>>, <<>>, s.revision) \in Stores
  <2>1. Len(<<>>) + Len(<<>>) <= HistoryLimit
    BY NoHistory, TasksAssumption
  <2>2. QED
    BY <2>1, NoHistory, StoreParts, WithType
<1>2. Forgotten(s) = With(View(s), <<>>, <<>>, s.revision)
  BY DEF Forgotten, With, View, List
<1>3. QED
  BY <1>1, <1>2

\* An item can be inserted anywhere in the order.
LEMMA InsertType ==
  ASSUME NEW o \in Seq(Ids), NEW k \in 1 .. Len(o) + 1, NEW i \in Ids
  PROVE  InsertAt(o, k, i) \in Seq(Ids)
BY LenProperties, SubSeqProperties, ConcatProperties DEF InsertAt

\* Without one of its places the order is one shorter.
LEMMA RemoveType ==
  ASSUME NEW o \in Seq(Ids), NEW k \in 1 .. Len(o)
  PROVE  RemoveAt(o, k) \in Seq(Ids) /\ Len(RemoveAt(o, k)) = Len(o) - 1
<1>1. SubSeq(o, 1, k - 1) \in Seq(Ids) /\ Len(SubSeq(o, 1, k - 1)) = k - 1
  BY LenProperties, SubSeqProperties
<1>2. SubSeq(o, k + 1, Len(o)) \in Seq(Ids) /\ Len(SubSeq(o, k + 1, Len(o))) = Len(o) - k
  BY LenProperties, SubSeqProperties
<1>3. \A p, q \in Seq(Ids) : p \o q \in Seq(Ids) /\ Len(p \o q) = Len(p) + Len(q)
  BY ConcatProperties
<1>4. Len(o) \in Nat
  BY LenProperties
<1>5. RemoveAt(o, k) \in Seq(Ids)
  BY <1>1, <1>2, <1>3 DEF RemoveAt
<1>6. Len(RemoveAt(o, k)) = (k - 1) + (Len(o) - k)
  BY <1>1, <1>2, <1>3, Zenon DEF RemoveAt
<1>7. QED
  BY <1>4, <1>5, <1>6

\* What is left of an order, whichever items are gone, is an order.
LEMMA RemainingType ==
  ASSUME NEW o \in Seq(Ids), NEW gone
  PROVE  Remaining(o, gone) \subseteq Seq(Ids)
<1>1. ToSet(o) \subseteq Ids
  BY ElementOfSeq, LenProperties DEF ToSet
<1>2. ASSUME NEW r \in Remaining(o, gone)
      PROVE  r \in Seq(Ids)
  <2>1. PICK m \in 0 .. Len(o) : r \in [1 .. m -> ToSet(o) \ gone]
    BY DEF Remaining, SeqOf
  <2>2. m \in Nat
    BY <2>1, LenProperties
  <2>3. r \in [1 .. m -> Ids]
    BY <1>1, <2>1
  <2>4. QED
    BY <2>2, <2>3, IsASeq
<1>3. QED
  BY <1>2

\* Undo and redo lead from a store to a store: the halves of the history keep their sum.
LEMMA UndoType ==
  ASSUME NEW s \in Stores, NEW t \in Undoing(s) \cup Redoing(s)
  PROVE  t \in Stores
<1>1. PICK u, r \in Seq(GoodViews) :
        s.undo = u /\ s.redo = r /\ Len(u) + Len(r) <= HistoryLimit
  BY StoreParts
<1>2. \A h, g \in Seq(GoodViews) : h # <<>> /\ Len(h) + Len(g) <= HistoryLimit =>
        /\ Last(h) \in GoodViews
        /\ Front(h) \in Seq(GoodViews) /\ Append(g, View(s)) \in Seq(GoodViews)
        /\ Len(Front(h)) + Len(Append(g, View(s))) <= HistoryLimit
  <2>1. SUFFICES ASSUME NEW h \in Seq(GoodViews), NEW g \in Seq(GoodViews), h # <<>>,
                        Len(h) + Len(g) <= HistoryLimit
                 PROVE  /\ Last(h) \in GoodViews
                        /\ Front(h) \in Seq(GoodViews) /\ Append(g, View(s)) \in Seq(GoodViews)
                        /\ Len(Front(h)) + Len(Append(g, View(s))) <= HistoryLimit
    OBVIOUS
  <2>2. Len(h) \in Nat \ {0} /\ Len(g) \in Nat /\ HistoryLimit \in Nat
    BY <2>1, EmptySeq, LenProperties, TasksAssumption
  <2>3. Last(h) \in GoodViews
    BY <2>2, ElementOfSeq DEF Last
  <2>4. Front(h) \in Seq(GoodViews) /\ Len(Front(h)) = Len(h) - 1
    <3>1. \A i \in 1 .. Len(h) - 1 : h[i] \in GoodViews
      BY <2>2, ElementOfSeq
    <3>2. 1 \in Int /\ Len(h) - 1 \in Int
      BY <2>2
    <3>3. /\ SubSeq(h, 1, Len(h) - 1) \in Seq(GoodViews)
          /\ Len(SubSeq(h, 1, Len(h) - 1)) = IF 1 <= Len(h) - 1 THEN Len(h) - 1 - 1 + 1 ELSE 0
      BY <3>1, <3>2, SubSeqProperties
    <3>4. Len(SubSeq(h, 1, Len(h) - 1)) = Len(h) - 1
      <4>1. PICK n \in Nat : n = Len(h) /\ n # 0
        BY <2>2
      <4>2. (IF 1 <= n - 1 THEN n - 1 - 1 + 1 ELSE 0) = n - 1
        BY <4>1
      <4>3. QED
        BY <3>3, <4>1, <4>2, Zenon
    <3>5. QED
      BY <3>3, <3>4, Zenon DEF Front
  <2>5. Append(g, View(s)) \in Seq(GoodViews) /\ Len(Append(g, View(s))) = Len(g) + 1
    BY StoreParts, AppendProperties
  <2>6. QED
    BY <2>1, <2>2, <2>3, <2>4, <2>5
<1>3. s.revision + 1 \in Nat
  BY StoreParts
<1>4. CASE t \in Undoing(s)
  <2>1. u # <<>> /\ t = With(Last(u), Front(u), Append(r, View(s)), s.revision + 1)
    BY <1>1, <1>4, Zenon DEF Undoing
  <2>2. QED
    BY <1>1, <1>2, <1>3, <2>1, WithType
<1>5. CASE t \in Redoing(s)
  <2>1. r # <<>> /\ t = With(Last(r), Append(u, View(s)), Front(r), s.revision + 1)
    BY <1>1, <1>5, Zenon DEF Redoing
  <2>2. Len(r) + Len(u) <= HistoryLimit
    BY <1>1, LenProperties, TasksAssumption
  <2>3. Len(Append(u, View(s))) + Len(Front(r)) <= HistoryLimit
    BY <1>2, <2>1, <2>2, LenProperties
  <2>4. QED
    BY <1>1, <1>2, <1>3, <2>1, <2>2, <2>3, WithType
<1>6. QED
  BY <1>4, <1>5

\* The parts of a list.
LEMMA ListType ==
  ASSUME NEW o \in Seq(Ids), NEW t \in [Ids -> Details \cup {None}], NEW f \in Ids \cup {None},
         NEW m \in SUBSET Ids, f # None => t[f] # None /\ ~t[f].done
  PROVE  List(o, t, f, m) \in GoodViews
BY DEF List, GoodViews, Views, Focusable, Active, Items

\* What the operations read of a store.
LEMMA StoreFields ==
  ASSUME NEW s \in Stores
  PROVE  /\ s.order \in Seq(Ids) /\ s.task \in [Ids -> Details \cup {None}]
         /\ s.focus \in Ids \cup {None} /\ s.marks \in SUBSET Ids
         /\ s.focus # None => s.task[s.focus] # None /\ ~s.task[s.focus].done
BY DEF Stores, Lists, Focusable, Active, Items

\* One item's details change; no other item's do.
LEMMA PutType ==
  ASSUME NEW s \in Stores, NEW i \in Ids, NEW d \in Dues \cup {None}, NEW b \in BOOLEAN
  PROVE  /\ Put(s, i, d, b) \in [Ids -> Details \cup {None}]
         /\ Put(s, i, d, b)[i] # None
         /\ Put(s, i, d, b)[i].done <=> b
         /\ \A j \in Ids \ {i} : Put(s, i, d, b)[j] = s.task[j]
<1>1. [due |-> d, done |-> b] \in Details
  BY DEF Details
<1>2. [due |-> d, done |-> b] # None
  BY <1>1, TasksAssumption
<1>3. s.task \in [Ids -> Details \cup {None}]
  BY StoreFields
<1>4. QED
  BY <1>1, <1>2, <1>3 DEF Put

\* Each step leaves a list whose focus is on an unfinished task.
LEMMA AddingType ==
  ASSUME NEW s \in Stores, NEW t \in Adding(s)
  PROVE  t \in Stores
<1>1. PICK k \in Insertion(s), i \in Ids \ Known(s), d \in Dues \cup {None} :
        t = Step(s, Added(s, k, i, d))
  BY DEF Adding
<1>2. InsertAt(s.order, k, i) \in Seq(Ids)
  BY <1>1, StoreFields, InsertType DEF Insertion
<1> DEFINE task == Put(s, i, d, FALSE)
           focus == IF Focused(s) = None THEN i ELSE s.focus
<1>3. /\ task \in [Ids -> Details \cup {None}] /\ task[i] # None /\ ~task[i].done
      /\ \A j \in Ids \ {i} : task[j] = s.task[j]
  <2>1. [due |-> d, done |-> FALSE] \in Details
    BY DEF Details
  <2>2. [due |-> d, done |-> FALSE] # None
    BY <2>1, TasksAssumption
  <2>3. QED
    BY <1>1, <2>1, <2>2, StoreFields DEF Put
<1> HIDE DEF task
<1>4. focus \in Ids
  BY <1>1, NoneIsApart DEF Focused, Active, Items
<1>5. task[focus] # None /\ ~task[focus].done
  BY <1>3, <1>4, StoreFields DEF Focused, Active, Items
<1>6. List(InsertAt(s.order, k, i), task, focus, s.marks) \in GoodViews
  BY <1>2, <1>3, <1>4, <1>5, StoreFields, ListType
<1>7. QED
  BY <1>1, <1>6, StepType DEF Added, task

\* A due date changes the details and the mark, never the focus.
LEMMA SettingDueType ==
  ASSUME NEW s \in Stores, NEW t \in SettingDue(s)
  PROVE  t \in Stores
<1>1. PICK i \in Items(s), d \in Dues \cup {None} : t = Step(s, Dated(s, i, d))
  BY DEF SettingDue
<1> DEFINE task == Put(s, i, d, s.task[i].done)
<1>2. i \in Ids /\ s.task[i].done \in BOOLEAN
  BY <1>1, StoreFields DEF Items, Details
<1>3. /\ task \in [Ids -> Details \cup {None}] /\ task[i] # None
      /\ task[i].done <=> s.task[i].done
      /\ \A j \in Ids \ {i} : task[j] = s.task[j]
  BY <1>1, <1>2, PutType
<1> HIDE DEF task
<1>4. s.focus # None => task[s.focus] # None /\ ~task[s.focus].done
  BY <1>3, StoreFields
<1>5. Dated(s, i, d) \in GoodViews
  BY <1>3, <1>4, StoreFields, ListType DEF Dated, task
<1>6. QED
  BY <1>1, <1>5, StepType

\* A task that is completed loses the focus.
LEMMA TogglingType ==
  ASSUME NEW s \in Stores, NEW t \in Toggling(s)
  PROVE  t \in Stores
<1>1. PICK i \in Items(s) : t = Step(s, Toggled(s, i))
  BY DEF Toggling
<1> DEFINE task == Put(s, i, s.task[i].due, ~s.task[i].done)
<1>2. i \in Ids /\ s.task[i].due \in Dues \cup {None} /\ (~s.task[i].done) \in BOOLEAN
  BY <1>1, StoreFields DEF Items, Details
<1>3. /\ task \in [Ids -> Details \cup {None}] /\ task[i] # None
      /\ task[i].done <=> ~s.task[i].done
      /\ \A j \in Ids \ {i} : task[j] = s.task[j]
  <2>1. [due |-> s.task[i].due, done |-> ~s.task[i].done] \in Details
    BY <1>2 DEF Details
  <2>2. [due |-> s.task[i].due, done |-> ~s.task[i].done] # None
    BY <2>1, TasksAssumption
  <2>3. QED
    BY <1>2, <2>1, <2>2, StoreFields DEF Put
<1> HIDE DEF task
<1>4. FocusAfter(s, i) \in Ids \cup {None}
  BY StoreFields DEF FocusAfter
<1>5. FocusAfter(s, i) # None => task[FocusAfter(s, i)] # None /\ ~task[FocusAfter(s, i)].done
  BY <1>1, <1>3, StoreFields DEF FocusAfter, Active
<1>6. Toggled(s, i) \in GoodViews
  BY <1>3, <1>4, <1>5, StoreFields, ListType DEF Toggled, task
<1>7. QED
  BY <1>1, <1>6, StepType

\* A task that is deleted loses the focus.
LEMMA DeletingType ==
  ASSUME NEW s \in Stores, NEW t \in Deleting(s)
  PROVE  t \in Stores
<1>0. PICK i \in Items(s) : \E o \in Remaining(s.order, {i}) : t = Step(s, Deleted(s, o, i))
  BY DEF Deleting
<1>1. PICK o \in Remaining(s.order, {i}) : t = Step(s, Deleted(s, o, i))
  BY <1>0
<1>2. o \in Seq(Ids)
  BY <1>1, StoreFields, RemainingType
<1>3. Without(s, {i}) \in [Ids -> Details \cup {None}]
  BY StoreFields DEF Without
<1>4. s.focus # None /\ s.focus # i =>
        Without(s, {i})[s.focus] # None /\ ~Without(s, {i})[s.focus].done
  BY StoreFields DEF Without
<1>5. Deleted(s, o, i) \in GoodViews
  BY <1>2, <1>3, <1>4, StoreFields, ListType DEF Deleted
<1>6. QED
  BY <1>1, <1>5, StepType

\* The focus goes to an active task, and a new title leaves it there.
LEMMA FocusingType ==
  ASSUME NEW s \in Stores, NEW t \in Focusing(s) \cup Renaming(s)
  PROVE  t \in Stores
<1>1. CASE t \in Focusing(s)
  <2>1. PICK i \in Active(s) :
          t = Step(s, List(s.order, s.task, IF s.focus = i THEN None ELSE i, s.marks))
    BY <1>1 DEF Focusing
  <2>2. i \in Ids /\ s.task[i] # None /\ ~s.task[i].done
    BY <2>1 DEF Active, Items
  <2>3. List(s.order, s.task, IF s.focus = i THEN None ELSE i, s.marks) \in GoodViews
    BY <2>2, StoreFields, ListType
  <2>4. QED
    BY <2>1, <2>3, StepType
<1>2. CASE t \in Renaming(s)
  BY <1>2, StoreParts, StepType DEF Renaming
<1>3. QED
  BY <1>1, <1>2

\* Only completed tasks go, so the focus stays.
LEMMA ClearingType ==
  ASSUME NEW s \in Stores, NEW t \in Clearing(s)
  PROVE  t \in Stores
<1>1. PICK o \in Remaining(s.order, Completed(s)) : t = Step(s, Cleared(s, o))
  BY DEF Clearing
<1>2. o \in Seq(Ids)
  BY <1>1, StoreFields, RemainingType
<1>3. Without(s, Completed(s)) \in [Ids -> Details \cup {None}]
  BY StoreFields DEF Without
<1>4. s.focus # None =>
        Without(s, Completed(s))[s.focus] # None /\ ~Without(s, Completed(s))[s.focus].done
  BY StoreFields DEF Without, Completed, Active, Items
<1>5. Cleared(s, o) \in GoodViews
  BY <1>2, <1>3, <1>4, StoreFields, ListType DEF Cleared
<1>6. QED
  BY <1>1, <1>5, StepType

\* A move changes the order and nothing else.
LEMMA MovingType ==
  ASSUME NEW s \in Stores, NEW t \in Moving(s)
  PROVE  t \in Stores
<1>1. PICK from \in 1 .. Len(s.order), to \in 1 .. Len(s.order) :
        /\ s.order[from] \in Active(s) /\ from # to
        /\ t = Step(s, Moved(s, from, to))
  BY DEF Moving, Movable
<1>2. PICK o \in Seq(Ids) : o = s.order
  BY StoreFields
<1>3. RemoveAt(o, from) \in Seq(Ids) /\ Len(RemoveAt(o, from)) = Len(o) - 1
  BY <1>1, <1>2, RemoveType
<1>4. Place(from, to) \in 1 .. Len(RemoveAt(o, from)) + 1
  BY <1>1, <1>2, <1>3, LenProperties DEF Place
<1>5. o[from] \in Ids
  BY <1>1, <1>2, ElementOfSeq
<1>6. InsertAt(RemoveAt(o, from), Place(from, to), o[from]) \in Seq(Ids)
  BY <1>3, <1>4, <1>5, InsertType
<1>7. Moved(s, from, to) \in GoodViews
  BY <1>2, <1>6, StoreFields, ListType DEF Moved
<1>8. QED
  BY <1>1, <1>7, StepType

\* The marks change without a checkpoint.
LEMMA MarkingType ==
  ASSUME NEW s \in Stores, NEW t \in Marking(s)
  PROVE  t \in Stores
<1>1. PICK i \in Items(s) :
        t = With(List(s.order, s.task, s.focus, s.marks \cup {i}), s.undo, s.redo, s.revision + 1)
  BY DEF Marking
<1>2. PICK u, r \in Seq(GoodViews) :
        s.undo = u /\ s.redo = r /\ Len(u) + Len(r) <= HistoryLimit
  BY StoreParts
<1>3. i \in Ids
  BY <1>1 DEF Items
<1>4. List(s.order, s.task, s.focus, s.marks \cup {i}) \in GoodViews
  BY <1>3, StoreFields, ListType
<1>5. s.revision + 1 \in Nat
  BY StoreParts
<1>6. QED
  BY <1>1, <1>2, <1>4, <1>5, WithType

\* The cloud copy has its own focus, and no history.
LEMMA ReplacingType ==
  ASSUME NEW s \in Stores, NEW t \in Replacing(s)
  PROVE  t \in Stores
<1>1. PICK c \in Clouds :
        t = With(List(c.order, c.task, Focused(c), KeptMarks(s, c)), <<>>, <<>>, s.revision + 1)
  BY DEF Replacing
<1>2. c \in Views
  BY TasksAssumption
<1>3. KeptMarks(s, c) \in SUBSET Ids
  BY StoreFields DEF KeptMarks
<1>4. List(c.order, c.task, Focused(c), KeptMarks(s, c)) \in GoodViews
  BY <1>2, <1>3, ListType DEF Views, Focused, Active, Items
<1>5. s.revision + 1 \in Nat /\ Len(<<>>) + Len(<<>>) <= HistoryLimit
  BY StoreParts, NoHistory, TasksAssumption
<1>6. QED
  BY <1>1, <1>4, <1>5, NoHistory, WithType

\* Whatever the operation, the focus is on an unfinished task and the history
\* within its limit.
LEMMA EditsType ==
  ASSUME NEW s \in Stores
  PROVE  Edits(s) \subseteq Stores
BY AddingType, SettingDueType, TogglingType, FocusingType, DeletingType, ClearingType,
   MovingType, UndoType, MarkingType, ReplacingType DEF Edits, Steps

\* Whatever a supported file holds, it is loaded as a store.
LEMMA LoadedType ==
  ASSUME NEW d \in Data
  PROVE  Loaded(d) \in Stores
<1>1. List(d.order, d.task, Focused(d), d.marks) \in GoodViews
  BY ListType DEF Data, Focused, Active, Items
<1>2. d.revision \in Nat /\ Len(<<>>) + Len(<<>>) <= HistoryLimit
  BY NoHistory, TasksAssumption DEF Data
<1>3. QED
  BY <1>1, <1>2, NoHistory, WithType DEF Loaded

\* The store of a process without a file.
LEMMA EmptyType == Empty \in Stores
<1>1. List(<<>>, [i \in Ids |-> None], None, {}) \in GoodViews
  BY EmptySeq, ListType
<1>2. 0 \in Nat /\ Len(<<>>) + Len(<<>>) <= HistoryLimit
  BY NoHistory, TasksAssumption
<1>3. QED
  BY <1>1, <1>2, NoHistory, WithType DEF Empty

\* What is saved of a store is supported.
LEMMA SavedType ==
  ASSUME NEW s \in Stores
  PROVE  Saved(s) \in Data
BY DEF Stores, Lists, Data, Saved

\* A restart brings back what was saved, without the history.
LEMMA RoundTrip ==
  ASSUME NEW s \in Stores
  PROVE  Start(Saved(s)) = Forgotten(s)
<1>1. Saved(s) # Absent
  BY SavedType, StorageAssumption
<1>2. Focused(Saved(s)) = s.focus
  BY StoreFields DEF Focused, Saved, Active, Items
<1>3. Loaded(Saved(s)) = Forgotten(s)
  BY <1>2 DEF Loaded, Forgotten, With, List, Saved
<1>4. QED
  BY <1>1, <1>3 DEF Start

-----------------------------------------------------------------------------
(* The inductive invariant *)

Jobs == [next : Stores, old : Contents, raced : BOOLEAN, step : {"backup", "publish", "return"}]

TypeOK ==
  /\ store \in Stores \cup {None} /\ saveFailed \in BOOLEAN /\ job \in Jobs \cup {Idle}
  /\ main \in Files /\ bak \in Files
  /\ blind \in BOOLEAN /\ touched \in BOOLEAN /\ edits \in Nat /\ upsets \in Nat

\* A save belongs to a running process; it has read what it is about to replace,
\* unless somebody else has changed it since.
JobOK ==
  job # Idle =>
    /\ store # None
    /\ job.step # "return" => job.next = store \/ job.next \in Edits(store)
    /\ job.old # Unreadable
    /\ job.step # "return" /\ ~job.raced => main.now = job.old
    /\ job.step = "return" => ~blind

Consistent == TypeOK /\ JobOK /\ MemoryIsSaved /\ BackupIsGood

\* Forgetting the history twice is forgetting it once.
LEMMA ForgottenSame ==
  ASSUME NEW s \in Stores
  PROVE  Forgotten(Forgotten(s)) = Forgotten(s)
BY DEF Forgotten, With

\* A refused mutation changes nothing but the warning.
LEMMA RefuseStep ==
  ASSUME Consistent, NEW next, Refuse(next), edits' \in Nat, upsets' \in Nat, ~At("return")
  PROVE  Consistent'
<1>1. TypeOK' /\ JobOK' /\ BackupIsGood'
  BY DEF Consistent, TypeOK, JobOK, BackupIsGood, Refuse, Refused, files, history
<1>2. MemoryIsSaved'
  BY DEF Consistent, TypeOK, MemoryIsSaved, Current, At, Idle, Refuse, Refused, files, history
<1>3. QED
  BY <1>1, <1>2 DEF Consistent

\* The bounds of the model keep their types.
LEMMA BoundsType ==
  ASSUME TypeOK, NEW bad \in BOOLEAN
  PROVE  /\ Spend(bad) => upsets' \in Nat
         /\ Count(bad) => edits' \in Nat
BY DEF TypeOK, Spend, Count

\* A mutation that starts is refused, or has read the file that it will replace.
LEMMA BeginStep ==
  ASSUME Consistent, store # None, job = Idle, NEW next \in Copies, NEW ok \in BOOLEAN,
         Begin(next, ok)
  PROVE  Consistent'
<1>1. store \in Stores /\ next \in Stores
  BY EditsType DEF Consistent, TypeOK, Copies
<1>2. edits' \in Nat /\ upsets' \in Nat
  BY BoundsType DEF Consistent, Begin
<1>3. CASE ok /\ Supported(main.now)
  <2>1. job' = [next |-> next, old |-> main.now, raced |-> FALSE,
                step |-> IF main.now = Absent THEN "publish" ELSE "backup"]
    BY <1>3 DEF Begin
  <2>2. UNCHANGED <<store, saveFailed, files, history>>
    BY <1>3 DEF Begin
  <2>3. TypeOK'
    BY <1>1, <1>2, <2>1, <2>2 DEF Consistent, TypeOK, Jobs, Files, files, history
  <2>4. JobOK'
    BY <1>3, <2>1, <2>2 DEF JobOK, Copies, Supported, files, history
  <2>5. MemoryIsSaved' /\ BackupIsGood'
    BY <2>1, <2>2 DEF Consistent, MemoryIsSaved, BackupIsGood, Current, At, Idle, files, history
  <2>6. QED
    BY <2>3, <2>4, <2>5 DEF Consistent
<1>4. CASE ~(ok /\ Supported(main.now))
  BY <1>2, <1>4, RefuseStep DEF Begin, At, Idle
<1>5. QED
  BY <1>3, <1>4

\* The backup is only ever written from a supported file.
LEMMA BackupStep ==
  ASSUME Consistent, NEW ok \in BOOLEAN, NEW flushed \in BOOLEAN, Backup(ok, flushed)
  PROVE  Consistent'
<1>1. job \in Jobs /\ job.step = "backup"
  BY DEF Consistent, TypeOK, Backup, At, Idle
<1>2. edits' \in Nat /\ upsets' \in Nat
  BY BoundsType DEF Consistent, TypeOK, Backup
<1>3. CASE ok
  <2>1. job' = [job EXCEPT !.step = "publish"] /\ UNCHANGED <<store, saveFailed, main, history>>
    BY <1>3 DEF Backup
  <2>2. bak' = IF flushed THEN Flushed(Replaced(bak, job.old)) ELSE Replaced(bak, job.old)
    BY <1>3 DEF Backup
  <2>3. bak' \in Files /\ Unreadable \notin bak'.power \cup {bak'.now}
    BY <1>1, <2>2 DEF Consistent, TypeOK, JobOK, Jobs, Backup, At, Idle, BackupIsGood, Files,
        Flushed, Replaced, Written
  <2>4. TypeOK'
    BY <1>1, <1>2, <2>1, <2>3 DEF Consistent, TypeOK, Jobs, history
  <2>5. JobOK'
    BY <1>1, <2>1 DEF Consistent, JobOK, Jobs, Backup, At, Idle
  <2>6. MemoryIsSaved'
    BY <1>1, <2>1 DEF Consistent, MemoryIsSaved, Current, Jobs, At, Idle, history
  <2>7. QED
    BY <2>3, <2>4, <2>5, <2>6 DEF Consistent, BackupIsGood
<1>4. CASE ~ok
  BY <1>1, <1>2, <1>4, RefuseStep DEF Backup, At, Idle
<1>5. QED
  BY <1>3, <1>4

\* The new file appears at once, or not at all.
LEMMA PublishStep ==
  ASSUME Consistent, NEW ok \in BOOLEAN, Publish(ok)
  PROVE  Consistent'
<1>1. job \in Jobs /\ job.step = "publish"
  BY DEF Consistent, TypeOK, Publish, At, Idle
<1>2. edits' \in Nat /\ upsets' \in Nat
  BY BoundsType DEF Consistent, TypeOK, Publish
<1>3. CASE ok
  <2>1. /\ job' = [job EXCEPT !.step = "return"] /\ UNCHANGED <<store, saveFailed, bak>>
        /\ main' = Replaced(main, Saved(job.next)) /\ blind' = FALSE /\ touched' = FALSE
    BY <1>3 DEF Publish
  <2>2. job' \in Jobs /\ job' # Idle /\ job'.next = job.next /\ job'.step = "return" /\ job'.old = job.old
    BY <1>1, <2>1 DEF Jobs, Idle
  <2>3. Saved(job.next) \in Contents
    BY <1>1, SavedType DEF Jobs, Contents
  <2>4. main' \in Files /\ main'.now = Saved(job.next)
    BY <2>1, <2>3 DEF Consistent, TypeOK, Files, Replaced, Written
  <2>5. TypeOK'
    BY <1>2, <2>1, <2>2, <2>4 DEF Consistent, TypeOK
  <2>6. JobOK'
    BY <1>1, <2>1, <2>2 DEF Consistent, JobOK, Jobs, Publish, At, Idle
  <2>7. MemoryIsSaved'
    <3>1. Current' = job.next
      BY <1>1, <2>1, <2>2 DEF Current, At, Idle, Consistent, JobOK, Publish
    <3>2. Forgotten(job.next) = Start(Saved(job.next))
      BY <1>1, RoundTrip DEF Jobs
    <3>3. QED
      BY <2>1, <2>4, <3>1, <3>2, Zenon DEF MemoryIsSaved
  <2>8. QED
    BY <2>1, <2>5, <2>6, <2>7 DEF Consistent, BackupIsGood
<1>4. CASE ~ok
  BY <1>1, <1>2, <1>4, RefuseStep DEF Publish, At, Idle
<1>5. QED
  BY <1>3, <1>4

\* Memory follows the file after the save, not before.
LEMMA ReturnStep ==
  ASSUME Consistent, NEW flushed \in BOOLEAN, Return(flushed)
  PROVE  Consistent'
<1>1. job \in Jobs /\ job.step = "return" /\ job # Idle
  BY DEF Consistent, TypeOK, Return, At, Idle
<1>2. edits' \in Nat /\ upsets' \in Nat
  BY BoundsType DEF Consistent, TypeOK, Return
<1>3. /\ store' = job.next /\ saveFailed' = FALSE /\ job' = Idle
      /\ main' = (IF flushed THEN Flushed(main) ELSE main)
      /\ UNCHANGED <<bak, blind, touched>>
  BY DEF Return, Returned, history
<1>4. main' \in Files /\ main'.now = main.now
  BY <1>3 DEF Consistent, TypeOK, Files, Flushed
<1>5. TypeOK' /\ JobOK'
  BY <1>1, <1>2, <1>3, <1>4 DEF Consistent, TypeOK, JobOK, Jobs
<1>6. MemoryIsSaved'
  <2>1. ~touched /\ ~blind => Forgotten(job.next) = Start(main.now)
    BY <1>1 DEF Consistent, MemoryIsSaved, JobOK, Current, At
  <2>2. Current' = job.next /\ ~blind
    BY <1>1, <1>3 DEF Consistent, JobOK, Current, At, Idle
  <2>3. QED
    BY <1>3, <1>4, <2>1, <2>2, Zenon DEF MemoryIsSaved
<1>7. QED
  BY <1>3, <1>5, <1>6 DEF Consistent, BackupIsGood

\* Memory alone forgets the history: what a restart would read is the same.
LEMMA ForgetStep ==
  ASSUME Consistent, Forget
  PROVE  Consistent'
<1>1. store \in Stores /\ store' = Forgotten(store) /\ job = Idle
      /\ UNCHANGED <<saveFailed, job, main, bak, blind, touched, edits, upsets>>
  BY DEF Consistent, TypeOK, Forget, files, history, bounds
<1>2. store' \in Stores
  BY <1>1, ForgottenType
<1>3. TypeOK' /\ JobOK' /\ BackupIsGood'
  BY <1>1, <1>2 DEF Consistent, TypeOK, JobOK, BackupIsGood
<1>4. MemoryIsSaved'
  <2>1. Current = store /\ Current' = store'
    BY <1>1 DEF Current, At, Idle
  <2>2. Forgotten(store') = Forgotten(store)
    BY <1>1, ForgottenSame
  <2>3. ~touched /\ ~blind => Forgotten(store) = Start(main.now)
    BY <1>1, <2>1 DEF Consistent, MemoryIsSaved, Forget
  <2>4. blind => saveFailed
    BY DEF Consistent, MemoryIsSaved, Forget
  <2>5. QED
    BY <1>1, <2>1, <2>2, <2>3, <2>4, Zenon DEF MemoryIsSaved
<1>5. QED
  BY <1>3, <1>4 DEF Consistent

\* What a process starts with has no history, and is a store.
LEMMA StartType ==
  ASSUME NEW c \in Contents, c # Unreadable
  PROVE  Start(c) \in Stores /\ Forgotten(Start(c)) = Start(c)
<1>1. Forgotten(Empty) = Empty
  BY DEF Forgotten, Empty, With, List
<1>2. CASE c = Absent
  BY <1>1, <1>2, EmptyType DEF Start
<1>3. CASE c \in Data
  <2>1. c # Absent
    BY <1>3, StorageAssumption
  <2>2. Start(c) = Loaded(c)
    BY <2>1 DEF Start
  <2>3. Forgotten(Loaded(c)) = Loaded(c)
    BY DEF Forgotten, Loaded, With, List
  <2>4. QED
    BY <1>3, <2>2, <2>3, LoadedType
<1>4. QED
  BY <1>2, <1>3 DEF Contents

\* A process that starts shows the file, or an empty list and a warning.
LEMMA OpenStep ==
  ASSUME Consistent, NEW ok \in BOOLEAN, Open(ok)
  PROVE  Consistent'
<1>1. edits' \in Nat /\ upsets' \in Nat
  BY BoundsType DEF Consistent, TypeOK, Open
<1>2. job = Idle /\ UNCHANGED <<job, main, bak>> /\ main.now \in Contents
  BY DEF Consistent, TypeOK, JobOK, Open, files, Files
<1>3. /\ blind' = (~ok \/ main.now = Unreadable) /\ saveFailed' = blind' /\ touched' = FALSE
      /\ store' = IF blind' THEN Empty ELSE Start(main.now)
  BY DEF Open
<1>4. /\ store' \in Stores
      /\ ~blind' => store' = Start(main.now) /\ Forgotten(store') = store'
  BY <1>2, <1>3, EmptyType, StartType
<1>5. TypeOK' /\ JobOK' /\ BackupIsGood'
  BY <1>1, <1>2, <1>3, <1>4 DEF Consistent, TypeOK, JobOK, BackupIsGood
<1>6. MemoryIsSaved'
  <2>1. Current' = store'
    BY <1>2 DEF Current, At, Idle
  <2>2. QED
    BY <1>2, <1>3, <1>4, <2>1, Zenon DEF MemoryIsSaved
<1>7. QED
  BY <1>5, <1>6 DEF Consistent

\* After the end of the process, or of the power, each file is one that was being kept.
LEMMA DieStep ==
  ASSUME Consistent, NEW power \in BOOLEAN, Die(power)
  PROVE  Consistent'
<1>1. edits' \in Nat /\ upsets' \in Nat
  BY BoundsType DEF Consistent, TypeOK, Die
<1>2. store' = None /\ job' = Idle /\ saveFailed' = FALSE /\ blind' = FALSE /\ touched' = FALSE
  BY DEF Die
<1>3. main' \in Files /\ bak' \in Files /\ BackupIsGood'
  <2>1. CASE power
    <3>1. PICK m \in main.power, b \in bak.power :
            main' = [now |-> m, power |-> {m}] /\ bak' = [now |-> b, power |-> {b}]
      BY <2>1 DEF Die
    <3>2. QED
      BY <3>1 DEF Consistent, TypeOK, Files, BackupIsGood
  <2>2. CASE ~power
    BY <2>2 DEF Die, files, Consistent, TypeOK, BackupIsGood
  <2>3. QED
    BY <2>1, <2>2
<1>4. QED
  BY <1>1, <1>2, <1>3 DEF Consistent, TypeOK, JobOK, MemoryIsSaved

\* Others may change or damage the file; what they do is remembered as a difference.
LEMMA DisturbStep ==
  ASSUME Consistent, Disturb
  PROVE  Consistent'
<1>1. upsets' \in Nat /\ UNCHANGED <<edits, store, saveFailed, bak, blind>>
  BY BoundsType DEF Consistent, Disturb
<1>2. PICK c \in Foreign : main' = [now |-> c, power |-> main.power \cup {c}]
  BY DEF Disturb
<1>3. main' \in Files
  BY <1>2, TasksAssumption DEF Consistent, TypeOK, Files
<1>4. touched' = (store # None)
  BY DEF Disturb
<1>5. CASE job = Idle
  <2>1. job' = Idle
    BY <1>5 DEF Disturb
  <2>2. QED
    BY <1>1, <1>3, <1>4, <2>1 DEF Consistent, TypeOK, JobOK, MemoryIsSaved, BackupIsGood
<1>6. CASE job # Idle
  <2>1. job \in Jobs /\ job' = [job EXCEPT !.raced = TRUE]
    BY <1>6 DEF Consistent, TypeOK, Disturb
  <2>2. /\ job' \in Jobs /\ job' # Idle /\ job'.raced
        /\ job'.next = job.next /\ job'.old = job.old /\ job'.step = job.step
    BY <2>1 DEF Jobs, Idle
  <2>3. TypeOK'
    BY <1>1, <1>3, <1>4, <2>2 DEF Consistent, TypeOK
  <2>4. JobOK' /\ BackupIsGood'
    BY <1>1, <1>6, <2>2 DEF Consistent, JobOK, BackupIsGood
  <2>5. MemoryIsSaved'
    BY <1>1, <1>4 DEF Consistent, MemoryIsSaved
  <2>6. QED
    BY <2>3, <2>4, <2>5 DEF Consistent
<1>7. QED
  BY <1>5, <1>6

\* The invariant holds at the start.
LEMMA InitOK == Init => Consistent
<1> SUFFICES ASSUME Init PROVE Consistent
  OBVIOUS
<1>1. PICK c \in Foreign : main = [now |-> c, power |-> {c}]
  BY DEF Init
<1>2. main \in Files /\ bak \in Files
  BY <1>1, TasksAssumption DEF Init, Files, Contents
<1>3. TypeOK /\ JobOK /\ MemoryIsSaved
  BY <1>2 DEF Init, TypeOK, JobOK, MemoryIsSaved
<1>4. BackupIsGood
  BY StorageAssumption DEF Init, BackupIsGood
<1>5. QED
  BY <1>3, <1>4 DEF Consistent

\* Every step keeps it.
LEMMA StepOK == Consistent /\ [Next]_vars => Consistent'
<1> SUFFICES ASSUME Consistent, [Next]_vars PROVE Consistent'
  OBVIOUS
<1>1. CASE Saves
  BY <1>1, BeginStep, BackupStep, PublishStep, ReturnStep DEF Saves
<1>2. CASE Forget \/ Disturb
  BY <1>2, ForgetStep, DisturbStep
<1>3. CASE \E ok \in BOOLEAN : Open(ok)
  BY <1>3, OpenStep
<1>4. CASE \E power \in BOOLEAN : Die(power)
  BY <1>4, DieStep
<1>5. CASE UNCHANGED vars
  BY <1>5 DEF vars, process, files, history, bounds, Consistent, TypeOK, JobOK, MemoryIsSaved,
     BackupIsGood, Current, At
<1>6. QED
  BY <1>1, <1>2, <1>3, <1>4, <1>5 DEF Next

\* In every run of the program the store is a store and the files are files, a
\* save under way replaces what it has read, and memory and backup are right.
THEOREM Invariance == Spec => []Consistent
<1>1. QED
  BY InitOK, StepOK, PTL DEF Spec

-----------------------------------------------------------------------------
(* What the runs check, for every value of the constants *)

\* MemoryIsSaved: the process shows what a restart would read, unless others changed
\* the file or it could not be read, and that it could not is shown until a save.
THEOREM MemoryAlwaysSaved == Spec => []MemoryIsSaved
<1>1. Consistent => MemoryIsSaved
  BY DEF Consistent
<1>2. QED
  BY <1>1, Invariance, PTL

\* BackupIsGood: whatever fails, and after a power failure, the backup can be read.
THEOREM BackupAlwaysGood == Spec => []BackupIsGood
<1>1. Consistent => BackupIsGood
  BY DEF Consistent
<1>2. QED
  BY <1>1, Invariance, PTL

\* FocusIsActive: no operation, undo or redo puts the focus on a completed task.
THEOREM FocusAlwaysActive == Spec => []FocusIsActive
<1>1. ASSUME NEW s \in Stores
      PROVE  \A v \in {s} \cup ToSet(s.undo) \cup ToSet(s.redo) : v.focus # None => v.focus \in Active(v)
  <2>1. PICK u, r \in Seq(GoodViews) : s.undo = u /\ s.redo = r
    BY StoreParts
  <2>2. ToSet(u) \subseteq GoodViews /\ ToSet(r) \subseteq GoodViews
    BY ElementOfSeq, LenProperties DEF ToSet
  <2>3. Focusable(s)
    BY DEF Stores
  <2>4. QED
    BY <2>1, <2>2, <2>3 DEF GoodViews, Focusable
<1>2. Consistent => FocusIsActive
  <2> SUFFICES ASSUME Consistent,
                      NEW s \in {store} \cup (IF job = Idle THEN {} ELSE {job.next}), s # None
               PROVE  s \in Stores
    BY <1>1 DEF FocusIsActive
  <2>1. QED
    BY DEF Consistent, TypeOK, Jobs
<1>3. QED
  BY <1>2, Invariance, PTL

\* The history stays within HISTORY_LIMIT however often the tasks change: what can be
\* undone and redone is together never more.
HistoryIsBounded == store # None => Len(store.undo) + Len(store.redo) <= HistoryLimit

\* HistoryIsBounded: no operation, undo or redo adds more than it takes away.
THEOREM HistoryAlwaysBounded == Spec => []HistoryIsBounded
<1>1. Consistent => HistoryIsBounded
  BY DEF Consistent, TypeOK, HistoryIsBounded, Stores
<1>2. QED
  BY <1>1, Invariance, PTL

\* UnreadableIsKept: a file that is not understood is replaced only when it came
\* after the check.
THEOREM UnreadableAlwaysKept == Spec => UnreadableIsKept
<1>1. Consistent /\ [Next]_vars =>
        [At("publish") /\ At("return")' /\ main.now = Unreadable => job.raced]_vars
  BY DEF Consistent, JobOK, At, Idle
<1>2. QED
  BY <1>1, Invariance, PTL DEF Spec, UnreadableIsKept

-----------------------------------------------------------------------------
(* Undo and redo *)

\* What an operation does is a checkpoint and another list.
LEMMA StepsAreSteps ==
  ASSUME NEW s \in Stores, NEW t \in Steps(s)
  PROVE  \E v : t = Step(s, v)
<1>1. CASE t \in Adding(s)
  BY <1>1 DEF Adding
<1>2. CASE t \in SettingDue(s)
  BY <1>2 DEF SettingDue
<1>3. CASE t \in Toggling(s) \cup Renaming(s) \cup Focusing(s) \cup Moving(s)
  BY <1>3 DEF Toggling, Renaming, Focusing, Moving
<1>4. CASE t \in Deleting(s) \cup Clearing(s)
  BY <1>4 DEF Deleting, Clearing
<1>5. QED
  BY <1>1, <1>2, <1>3, <1>4 DEF Steps

\* The entry that a checkpoint adds is the last one, and the others are before it.
LEMMA CheckpointEntry ==
  ASSUME NEW u \in Seq(GoodViews), NEW v \in GoodViews, Len(u) <= HistoryLimit
  PROVE  LET h == Trim(Append(u, v)) IN
         h # <<>> /\ Last(h) = v /\ Append(Front(h), v) = h
<1> DEFINE a == Append(u, v)
           h == Trim(a)
<1>1. a \in Seq(GoodViews) /\ Len(a) = Len(u) + 1 /\ a[Len(u) + 1] = v
  BY AppendProperties
<1>2. Len(u) \in Nat
  BY LenProperties
<1>3. /\ h \in Seq(GoodViews) /\ Len(h) \in Nat \ {0} /\ h[Len(h)] = v
  <2>1. CASE Len(a) > HistoryLimit
    <3>1. a # <<>> /\ Len(a) >= 2
      BY <1>1, <1>2, <2>1, EmptySeq, TasksAssumption
    <3>2. /\ Tail(a) \in Seq(GoodViews) /\ Len(Tail(a)) = Len(a) - 1
          /\ \A i \in 1 .. Len(Tail(a)) : Tail(a)[i] = a[i + 1]
      BY <1>1, <3>1, HeadTailProperties
    <3>3. h = Tail(a)
      BY <2>1 DEF Trim
    <3>4. Len(Tail(a)) = Len(u) /\ Len(u) \in Nat \ {0}
      BY <1>1, <1>2, <3>1, <3>2
    <3>5. Tail(a)[Len(u)] = v
      BY <1>1, <3>2, <3>4
    <3>6. QED
      BY <3>2, <3>3, <3>4, <3>5
  <2>2. CASE ~(Len(a) > HistoryLimit)
    <3>1. h = a
      BY <2>2 DEF Trim
    <3>2. QED
      BY <1>1, <1>2, <3>1
  <2>3. QED
    BY <2>1, <2>2
<1> HIDE DEF h
<1>4. h # <<>> /\ Last(h) = v
  BY <1>3, EmptySeq DEF Last
<1>5. Append(Front(h), v) = h
  <2>1. PICK n \in Nat : Len(h) = n + 1
    BY <1>3
  <2>2. Front(h) = SubSeq(h, 1, n)
    BY <2>1 DEF Front
  <2>3. h = Append(SubSeq(h, 1, n), h[n + 1])
    BY <1>3, <2>1
  <2>4. QED
    BY <1>3, <2>1, <2>2, <2>3
<1>6. QED
  BY <1>4, <1>5 DEF h

\* After an operation, undo brings back the list before it, and redo the list after it.
LEMMA UndoRedo ==
  ASSUME NEW s \in Stores, NEW t \in Steps(s)
  PROVE  /\ t.redo = <<>>
         /\ \E u \in Undoing(t) : /\ View(u) = View(s)
                                  /\ \E r \in Redoing(u) : View(r) = View(t) /\ r.undo = t.undo
<1>1. PICK v : t = Step(s, v)
  BY StepsAreSteps
<1>2. PICK h \in Seq(GoodViews) : s.undo = h /\ Len(h) <= HistoryLimit
  BY StoreParts, HistoryBound
<1> DEFINE g == Trim(Append(h, View(s)))
           u == With(View(s), Front(g), <<View(t)>>, t.revision + 1)
           r == With(View(t), g, <<>>, u.revision + 1)
<1>3. t.undo = g /\ t.redo = <<>>
  BY <1>1, <1>2 DEF Step, With
<1>4. g # <<>> /\ Last(g) = View(s) /\ Append(Front(g), View(s)) = g
  BY <1>2, StoreParts, CheckpointEntry
<1> HIDE DEF g
<1>5. u \in Undoing(t)
  BY <1>3, <1>4 DEF Undoing
<1>6. View(u) = View(s) /\ u.undo = Front(g) /\ u.redo = <<View(t)>>
  BY DEF View, With, List
<1>7. r \in Redoing(u)
  <2>1. Last(<<View(t)>>) = View(t) /\ Front(<<View(t)>>) = <<>> /\ <<View(t)>> # <<>>
    BY DEF Last, Front
  <2>2. QED
    BY <1>4, <1>6, <2>1, Zenon DEF Redoing
<1>8. View(r) = View(t) /\ r.undo = t.undo
  BY <1>3 DEF View, With, List
<1> HIDE DEF u, r
<1>9. QED
  BY <1>3, <1>5, <1>6, <1>7, <1>8, Zenon

\* UndoIsInverse: undo brings back what was before a step, redo what was after it.
THEOREM UndoAlwaysInverse == Spec => []UndoIsInverse
<1>1. Consistent => UndoIsInverse
  <2> SUFFICES ASSUME Consistent, store # None, NEW t \in Steps(store)
               PROVE  /\ t.redo = <<>>
                      /\ \E u \in Undoing(t) :
                           /\ View(u) = View(store)
                           /\ \E r \in Redoing(u) : View(r) = View(t) /\ r.undo = t.undo
    BY DEF UndoIsInverse
  <2>1. store \in Stores
    BY DEF Consistent, TypeOK
  <2>2. QED
    BY <2>1, UndoRedo
<1>2. QED
  BY <1>1, Invariance, PTL

\* HistoryIsSound: both of it, for any tasks, operations and limit of the history.
THEOREM HistoryAlwaysSound == Spec => []HistoryIsSound
<1>1. FocusIsActive /\ UndoIsInverse => HistoryIsSound
  BY DEF HistoryIsSound
<1>2. QED
  BY <1>1, FocusAlwaysActive, UndoAlwaysInverse, PTL

-----------------------------------------------------------------------------
(* Storage implements Store *)

\* The program starts as the abstract store does.
LEMMA InitMaps == Init => Promise!Init
<1> SUFFICES ASSUME Init PROVE Promise!Init
  OBVIOUS
<1>1. PICK c \in Foreign : main = [now |-> c, power |-> {c}]
  BY DEF Init
<1>2. Current = None
  BY DEF Init, Current, At, Idle
<1>3. QED
  BY <1>1, <1>2 DEF Promise!Init

\* A refused mutation is invisible to the abstract store.
LEMMA RefuseMaps ==
  ASSUME ~At("return"), NEW next, Refuse(next)
  PROVE  UNCHANGED Promise!vars
BY DEF Refuse, Refused, Current, At, Idle, files, Promise!vars

\* A save is one step of the abstract store, where the file is replaced, or none.
LEMMA SavesMap ==
  ASSUME Consistent, Saves
  PROVE  [Promise!Next]_(Promise!vars)
<1>1. ASSUME store # None, job = Idle, NEW next \in Copies, NEW ok \in BOOLEAN, Begin(next, ok)
      PROVE  UNCHANGED Promise!vars
  <2>1. CASE ok /\ Supported(main.now)
    BY <1>1, <2>1 DEF Begin, Current, At, Idle, files, Promise!vars
  <2>2. CASE ~(ok /\ Supported(main.now))
    BY <1>1, <2>2, RefuseMaps DEF Begin, At, Idle
  <2>3. QED
    BY <2>1, <2>2
<1>2. ASSUME NEW ok \in BOOLEAN, NEW flushed \in BOOLEAN, Backup(ok, flushed)
      PROVE  UNCHANGED Promise!vars
  <2>1. job.step = "backup" /\ job \in Jobs
    BY <1>2 DEF Backup, At, Idle, Consistent, TypeOK
  <2>2. CASE ok
    <3>1. job' = [job EXCEPT !.step = "publish"] /\ UNCHANGED <<store, main>>
      BY <1>2, <2>2 DEF Backup
    <3>2. ~At("return") /\ ~At("return")'
      BY <2>1, <3>1 DEF At, Jobs
    <3>3. QED
      BY <3>1, <3>2 DEF Current, Promise!vars
  <2>3. CASE ~ok
    BY <1>2, <2>1, <2>3, RefuseMaps DEF Backup, At
  <2>4. QED
    BY <2>2, <2>3
<1>3. ASSUME NEW ok \in BOOLEAN, Publish(ok)
      PROVE  [Promise!Next]_(Promise!vars)
  <2>1. job.step = "publish" /\ job \in Jobs /\ job # Idle
    BY <1>3 DEF Publish, At, Idle, Consistent, TypeOK
  <2>2. CASE ok
    <3>1. job' = [job EXCEPT !.step = "return"] /\ main' = Replaced(main, Saved(job.next))
          /\ store' = store
      BY <1>3, <2>2 DEF Publish
    <3>2. ~At("return") /\ At("return")' /\ job'.next = job.next
      BY <2>1, <3>1 DEF At, Jobs
    <3>3. Current = store /\ Current' = job.next
      BY <3>2 DEF Current
    <3>4. store # None /\ (job.next = store \/ job.next \in Edits(store))
      BY <2>1 DEF Consistent, JobOK
    <3>5. main'.now = Saved(job.next) /\ main'.power = main.power \cup {Saved(job.next)}
      BY <3>1 DEF Replaced, Written
    <3>6. Promise!Commit
      BY <3>3, <3>4, <3>5, Zenon DEF Promise!Commit, Promise!Become
    <3>7. QED
      BY <3>6 DEF Promise!Next
  <2>3. CASE ~ok
    BY <1>3, <2>1, <2>3, RefuseMaps DEF Publish, At
  <2>4. QED
    BY <2>2, <2>3
<1>4. ASSUME NEW flushed \in BOOLEAN, Return(flushed)
      PROVE  [Promise!Next]_(Promise!vars)
  <2>1. Current' = Current
    BY <1>4 DEF Return, Returned, Current, At, Idle
  <2>2. CASE flushed
    <3>1. main' = Flushed(main)
      BY <1>4, <2>2 DEF Return
    <3>2. main'.now = main.now /\ main'.power = {main.now}
      BY <3>1 DEF Flushed, Consistent, TypeOK, Files
    <3>3. Promise!Settle
      BY <2>1, <3>2, Zenon DEF Promise!Settle
    <3>4. QED
      BY <3>3 DEF Promise!Next
  <2>3. CASE ~flushed
    BY <1>4, <2>1, <2>3 DEF Return, Promise!vars
  <2>4. QED
    BY <2>2, <2>3
<1>5. QED
  BY <1>1, <1>2, <1>3, <1>4 DEF Saves

\* Starts, ends and changes by others are steps of the abstract store.
LEMMA OthersMap ==
  ASSUME Consistent, Next, ~Saves
  PROVE  Promise!Next
<1>1. CASE Forget
  <2>1. job = Idle /\ job' = Idle /\ store # None /\ store' = Forgotten(store) /\ main' = main
    BY <1>1 DEF Forget, files
  <2>2. Current = store /\ Current' = store'
    BY <2>1 DEF Current, At, Idle
  <2>3. QED
    BY <2>1, <2>2, Zenon DEF Promise!Forget, Promise!Next
<1>2. CASE Disturb
  <2>1. PICK c \in Foreign : main' = [now |-> c, power |-> main.power \cup {c}]
    BY <1>2 DEF Disturb
  <2>2. store' = store /\ job' = IF job = Idle THEN job ELSE [job EXCEPT !.raced = TRUE]
    BY <1>2 DEF Disturb
  <2>3. Current' = Current
    BY <2>2 DEF Current, At, Idle, Consistent, TypeOK, Jobs
  <2>4. QED
    BY <2>1, <2>3 DEF Promise!Disturb, Promise!Become, Promise!Next
<1>3. CASE \E ok \in BOOLEAN : Open(ok)
  <2>1. PICK ok \in BOOLEAN : Open(ok)
    BY <1>3
  <2>2. job = Idle /\ job' = Idle /\ store = None /\ main' = main
    BY <2>1 DEF Open, files, Consistent, JobOK
  <2>3. Current = None /\ Current' = store'
    BY <2>2 DEF Current, At, Idle
  <2>4. (main.now # Unreadable /\ store' = Start(main.now)) \/ store' = Empty
    BY <2>1 DEF Open
  <2>5. Promise!Open
    BY <2>2, <2>3, <2>4, Zenon DEF Promise!Open
  <2>6. QED
    BY <2>5 DEF Promise!Next
<1>4. CASE \E power \in BOOLEAN : Die(power)
  <2>1. PICK power \in BOOLEAN : Die(power)
    BY <1>4
  <2>2. Current' = None
    BY <2>1 DEF Die, Current, At, Idle
  <2>3. main' = main \/ \E m \in main.power : main' = [now |-> m, power |-> {m}]
    BY <2>1 DEF Die, files
  <2>4. Promise!Die
    BY <2>2, <2>3 DEF Promise!Die
  <2>5. QED
    BY <2>4 DEF Promise!Next
<1>5. QED
  BY <1>1, <1>2, <1>3, <1>4 DEF Next

\* Every step is a step of the abstract store or invisible to it.
LEMMA StepMaps == Consistent /\ [Next]_vars => [Promise!Next]_(Promise!vars)
<1>1. CASE UNCHANGED vars
  BY <1>1 DEF vars, process, files, Current, At, Promise!vars
<1>2. QED
  BY <1>1, SavesMap, OthersMap DEF Next

\* CommitsAreAtomic: whatever fails and whenever the process or the power dies, a
\* change of the tasks and its saving look like one step: Storage implements Store.
THEOREM Refinement == Spec => CommitsAreAtomic
<1>1. QED
  BY InitMaps, StepMaps, Invariance, PTL DEF Spec, CommitsAreAtomic, Promise!Spec

=============================================================================
