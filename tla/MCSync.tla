------------------------------- MODULE MCSync -------------------------------
(***************************************************************************)
(* Instances of Sync for TLC.  The full specification is checked with one  *)
(* account; two accounts are checked with the actions of the hand-over of  *)
(* a device from one account to the other.                                 *)
(***************************************************************************)
EXTENDS Sync

CONSTANTS alice, bob, task, old

OneAccount  == {alice}
TwoAccounts == {alice, bob}

OneTask == {task}

\* The task is created while the store belongs to ...
HomeAlice == [i \in OneTask |-> alice]
HomeBob   == [i \in OneTask |-> bob]

\* Besides, a task that was imported before anybody logged in.
ImportedTask == {task, old}
HomeImported == [i \in ImportedTask |-> IF i = old THEN None ELSE alice]

\* Two people take turns on one device; the automatic switch stays as it is.
HandOver ==
  \/ \E new \in SUBSET Items, ok \in BOOLEAN : Edit(new, ok)
  \/ Flush \/ RetryTick
  \/ \E ok \in BOOLEAN : ChooseLocal(ok) \/ ChooseCloud(ok)
  \/ Sessions \/ Flows \/ Server

HandOverSpec == Init /\ [][HandOver]_vars

\* The disk works and the user stays, who leaves uploads to the automatic flows;
\* requests may fail, the process may die and the server may end the session.
\* Left out for the size: Logout, Flush, DeferConflict, MarkNotified and SaveNow.
StayingUser ==
  \/ \E new \in SUBSET Items : Edit(new, TRUE)
  \/ \E on \in BOOLEAN : SetAutomatic(on)
  \/ RestoreFromCloud \/ RetryTick
  \/ ChooseLocal(TRUE) \/ ChooseCloud(TRUE)
  \/ \E a \in Accounts : Login(a)
  \/ \E keep, late \in BOOLEAN : Restart(keep, late)
  \/ AuthRejected \/ LoseSession \/ Flows

WorkingDisk == (StayingUser /\ ~saveFailed') \/ Server

WorkingDiskSpec == Init /\ [][WorkingDisk]_vars /\ Fairness

\* Anything may happen except that a save fails.
NoFailedSave == Next /\ ~saveFailed'

NoFailedSaveSpec == Init /\ [][NoFailedSave]_vars

QuietHandOverSpec == Init /\ [][HandOver /\ ~saveFailed']_vars /\ Fairness
=============================================================================
