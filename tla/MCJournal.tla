------------------------------ MODULE MCJournal ------------------------------
(***************************************************************************)
(* Journal for TLC.                                                        *)
(***************************************************************************)
EXTENDS Journal

CONSTANTS c1, c2

TwoContents == {c1, c2}
=============================================================================
