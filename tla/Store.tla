-------------------------------- MODULE Store --------------------------------
(***************************************************************************)
(* What the task store and its file promise together, whatever the tasks   *)
(* and their operations are.  A change of the tasks and its saving are one *)
(* step: at no moment does the file hold less or more than the tasks the   *)
(* process works with, a death of the process loses nothing, and a power   *)
(* failure leaves the present contents or, until they have settled on the  *)
(* disk, earlier ones, but never a mixture.  Storage shows how the program *)
(* reaches this with files that are staged, published and flushed one      *)
(* after the other.                                                        *)
(***************************************************************************)
CONSTANTS
  None,          \* absent value
  Unreadable,    \* contents of a file that is not understood
  Foreign,       \* contents the file may get from somebody else
  Empty,         \* store of a process that has no file to read
  Start(_),      \* store of a process that starts with these contents
  Edits(_),      \* stores that an operation may make of a store
  Forgotten(_),  \* a store without its history
  Saved(_)       \* contents of the file of a store

VARIABLES
  store,  \* the tasks of the process, or None when it is not running
  saved,  \* contents of the file
  after   \* contents that a power failure may leave

vars == <<store, saved, after>>

Init ==
  /\ store = None
  /\ saved \in Foreign
  /\ after = {saved}

Become(c) == saved' = c /\ after' = after \cup {c}

\* The process starts; without a readable file it works on an empty list.
Open ==
  /\ store = None
  /\ \/ saved # Unreadable /\ store' = Start(saved)
     \/ store' = Empty
  /\ UNCHANGED <<saved, after>>

\* A change of the tasks, or the tasks as they are, with the file.
Commit ==
  /\ store # None
  /\ UNCHANGED store \/ store' \in Edits(store)
  /\ Become(Saved(store'))

\* Logging in or out forgets the history.
Forget ==
  /\ store # None
  /\ store' = Forgotten(store)
  /\ UNCHANGED <<saved, after>>

Settle ==
  /\ after' = {saved}
  /\ UNCHANGED <<store, saved>>

\* The process ends, or the power fails.
Die ==
  /\ store' = None
  /\ \/ UNCHANGED <<saved, after>>
     \/ saved' \in after /\ after' = {saved'}

\* Another program, or the user, changes the file.
Disturb ==
  /\ \E c \in Foreign : Become(c)
  /\ UNCHANGED store

Next == Open \/ Commit \/ Forget \/ Settle \/ Die \/ Disturb

Spec == Init /\ [][Next]_vars

=============================================================================
