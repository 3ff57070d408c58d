------------------------------- MODULE Storage -------------------------------
(***************************************************************************)
(* How a change of the tasks reaches data.json: commit_core and            *)
(* persist_all save a copy of the store through the repository, and only a *)
(* copy that is saved becomes the store.  The repository checks the file   *)
(* it is about to replace, keeps it as the backup, and replaces it; each   *)
(* of the two files is staged, synced, published under its name, and its   *)
(* directory flushed.  The program may be the victim of failing reads and  *)
(* writes, of changes made to the file by others, of its own death and of  *)
(* power failures.                                                         *)
(*                                                                         *)
(* Saves hold the core lock, so one is under way at a time.  Whether a     *)
(* session or an import allows the change is modelled in Sync and Journal. *)
(*                                                                         *)
(* A definition whose name ends in Bug is a plausible mistake in the       *)
(* definition that follows it and is used by nothing.                      *)
(***************************************************************************)
EXTENDS Tasks

CONSTANTS
  MaxEdits,  \* bound: changes of the tasks
  MaxUpsets  \* bound: failures, foreign changes, power failures

ASSUME StorageAssumption ==
  /\ None \notin Contents /\ {Absent, Unreadable} \cap Data = {} /\ Absent # Unreadable
  /\ MaxEdits \in Nat /\ MaxUpsets \in Nat

VARIABLES
  store,       \* CoreInner.store, or None when the process is not running
  saveFailed,  \* CoreInner.save_failed
  job,         \* the save under way, or Idle
  main, bak    \* data.json and its backup: the contents that are read now,
               \* and those that a power failure may leave

\* Auxiliary variables: history that the properties talk about.
VARIABLES
  blind,    \* the process started without reading the file, and has not saved since
  touched,  \* the file was changed by others since the process last read or wrote it
  edits, upsets

process == <<store, saveFailed, job>>
files   == <<main, bak>>
history == <<blind, touched>>
bounds  == <<edits, upsets>>
vars    == <<process, files, history, bounds>>

Files == [now : Contents, power : SUBSET Contents]

Spend(bad) == /\ bad => upsets < MaxUpsets
              /\ upsets' = IF bad THEN upsets + 1 ELSE upsets

Count(edit) == /\ edit => edits < MaxEdits
               /\ edits' = IF edit THEN edits + 1 ELSE edits

-----------------------------------------------------------------------------
(* One file: stage_and_publish *)

\* The contents are synced before they get their name.
WrittenBug(c) == {c, Unreadable}

Written(c) == {c}

Replaced(f, c) == [now |-> c, power |-> f.power \cup Written(c)]

\* A flush that fails is ignored.
Flushed(f) == [f EXCEPT !.power = {f.now}]

-----------------------------------------------------------------------------
(* The save of a store: commit_core, persist_all, JsonRepo::save *)

Idle == [step |-> "idle"]

At(step) == job.step = step

\* An error before the publication: the copy is dropped.
RefusedBug(next) == store' = next

Refused(next) == store' = store

Refuse(next) ==
  /\ Refused(next)
  /\ saveFailed' = TRUE /\ job' = Idle
  /\ UNCHANGED <<files, history>>

\* require_supported: what is not understood is neither replaced nor copied.
SupportedBug(c) == TRUE

Supported(c) == c # Unreadable

\* An edit works on a copy; save-now and quitting save the store as it is.
Copies == Edits(store) \cup {store}

\* The save begins with the present file: it is read and checked.
Begin(next, ok) ==
  /\ Spend(~ok) /\ Count(next # store)
  /\ IF ok /\ Supported(main.now)
     THEN /\ job' = [next |-> next, old |-> main.now, raced |-> FALSE,
                     step |-> IF main.now = Absent THEN "publish" ELSE "backup"]
          /\ UNCHANGED <<store, saveFailed, files, history>>
     ELSE Refuse(next)

\* Its contents become the backup.
Backup(ok, flushed) ==
  /\ At("backup") /\ Spend(~(ok /\ flushed)) /\ UNCHANGED edits
  /\ IF ok
     THEN /\ job' = [job EXCEPT !.step = "publish"]
          /\ bak' = IF flushed THEN Flushed(Replaced(bak, job.old)) ELSE Replaced(bak, job.old)
          /\ UNCHANGED <<store, saveFailed, main, history>>
     ELSE Refuse(job.next)

\* The new contents get the name of the file.
Publish(ok) ==
  /\ At("publish") /\ Spend(~ok) /\ UNCHANGED edits
  /\ IF ok
     THEN /\ job' = [job EXCEPT !.step = "return"]
          /\ main' = Replaced(main, Saved(job.next))
          /\ blind' = FALSE /\ touched' = FALSE
          /\ UNCHANGED <<store, saveFailed, bak>>
     ELSE Refuse(job.next)

\* Published is saved: the copy becomes the store, flushed or not.
ReturnedBug(flushed) ==
  IF flushed THEN store' = job.next /\ saveFailed' = FALSE
             ELSE store' = store /\ saveFailed' = TRUE

Returned(flushed) == store' = job.next /\ saveFailed' = FALSE

Return(flushed) ==
  /\ At("return") /\ Spend(~flushed) /\ UNCHANGED edits
  /\ Returned(flushed)
  /\ job' = Idle
  /\ main' = IF flushed THEN Flushed(main) ELSE main
  /\ UNCHANGED <<bak, history>>

\* Logging in or out forgets the history.
Forget ==
  /\ store # None /\ job = Idle
  /\ store' = Forgotten(store)
  /\ UNCHANGED <<saveFailed, job, files, history, bounds>>

-----------------------------------------------------------------------------
(* Start, death, and others *)

\* load_persisted: a file that is not understood, or cannot be read, leaves the list empty.
Open(ok) ==
  /\ store = None /\ Spend(~ok) /\ UNCHANGED edits
  /\ blind' = (~ok \/ main.now = Unreadable)
  /\ saveFailed' = blind'
  /\ store' = IF blind' THEN Empty ELSE Start(main.now)
  /\ touched' = FALSE
  /\ UNCHANGED <<job, files>>

\* The process ends, by itself or with the power.
Die(power) ==
  /\ Spend(power) /\ UNCHANGED edits
  /\ store # None \/ power
  /\ store' = None /\ job' = Idle
  /\ saveFailed' = FALSE /\ blind' = FALSE /\ touched' = FALSE
  /\ IF power
     THEN \E m \in main.power, b \in bak.power :
            main' = [now |-> m, power |-> {m}] /\ bak' = [now |-> b, power |-> {b}]
     ELSE UNCHANGED files

\* Another program, or the user, changes the file, at any moment.
Disturb ==
  /\ Spend(TRUE) /\ UNCHANGED edits
  /\ \E c \in Foreign :
       /\ c # main.now
       /\ main' = [now |-> c, power |-> main.power \cup {c}]
  /\ touched' = (store # None)
  /\ job' = IF job = Idle THEN job ELSE [job EXCEPT !.raced = TRUE]
  /\ UNCHANGED <<store, saveFailed, bak, blind>>

-----------------------------------------------------------------------------

Init ==
  /\ store = None /\ saveFailed = FALSE /\ job = Idle
  /\ \E c \in Foreign : main = [now |-> c, power |-> {c}]
  /\ bak = [now |-> Absent, power |-> {Absent}]
  /\ blind = FALSE /\ touched = FALSE /\ edits = 0 /\ upsets = 0

Saves ==
  \/ store # None /\ job = Idle /\ \E next \in Copies, ok \in BOOLEAN : Begin(next, ok)
  \/ \E ok \in BOOLEAN : Publish(ok) \/ Return(ok)
  \/ \E ok, flushed \in BOOLEAN : Backup(ok, flushed)

Next ==
  \/ Saves \/ Forget \/ Disturb
  \/ \E ok \in BOOLEAN : Open(ok)
  \/ \E power \in BOOLEAN : Die(power)

Spec == Init /\ [][Next]_vars

-----------------------------------------------------------------------------
(* Properties *)

\* What the file holds is what others see of the store: from its publication
\* on, a copy is the store.
Current == IF At("return") THEN job.next ELSE store

Promise == INSTANCE Store WITH store <- Current, saved <- main.now, after <- main.power

\* A change of the tasks and its saving are one step, whatever fails: commit_core
\* with JsonRepo::save implements Store.
CommitsAreAtomic == Promise!Spec

\* The process shows what a restart would read, unless others changed the file or
\* it could not be read at the start; and that it could not is shown until a save.
MemoryIsSaved ==
  store # None =>
    /\ ~touched /\ ~blind => Forgotten(Current) = Start(main.now)
    /\ blind => saveFailed

\* The backup can always be read, after a power failure too (JsonRepo::save: an
\* unknown or damaged file must not spoil the known good backup).
BackupIsGood == Unreadable \notin bak.power \cup {bak.now}

\* A file that the program does not understand is never replaced, unless it came
\* between the check and the publication.
UnreadableIsKept ==
  [][At("publish") /\ At("return")' /\ main.now = Unreadable => job.raced]_vars

\* The focus is on an unfinished task: now, and in whatever undo or redo brings back.
FocusIsActive ==
  \A s \in {store} \cup (IF job = Idle THEN {} ELSE {job.next}) :
    s # None =>
      \A v \in {s} \cup ToSet(s.undo) \cup ToSet(s.redo) : v.focus # None => v.focus \in Active(v)

\* Undoing a step brings back the tasks, the focus and the marks of before, redoing
\* those of after, at the limit of the history too.
UndoIsInverse ==
  store # None /\ job = Idle =>
    \A t \in Steps(store) :
      /\ t.redo = <<>>
      /\ \E u \in Undoing(t) : /\ View(u) = View(store)
                               /\ \E r \in Redoing(u) : View(r) = View(t) /\ r.undo = t.undo

\* What undo and redo bring back can be worked with, and is what was there
\* (DoingStore::undo, redo, restore).
HistoryIsSound == FocusIsActive /\ UndoIsInverse

=============================================================================
