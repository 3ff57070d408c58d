---------------------------- MODULE MCNavigation ----------------------------
(***************************************************************************)
(* The instance of Navigation for TLC: two accounts, and the data that are *)
(* there at the start are alice's.  Changes of the data, imports, faults,  *)
(* crashes and new sessions have a common bound beside their own ones.     *)
(***************************************************************************)
EXTENDS Navigation

CONSTANTS
  alice,
  MaxTroubles  \* bound: all of them together

AliceInit == Init /\ owner = alice

\* None of the steps that are fair adds to the sum.
Few == edits' + faults' + crashes' + gen' <= MaxTroubles

AliceSpec ==
  AliceInit /\ [][Next /\ Few]_vars /\ WF_vars(Process) /\ WF_vars(View)
=============================================================================
