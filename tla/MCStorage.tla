------------------------------ MODULE MCStorage ------------------------------
(***************************************************************************)
(* Storage for TLC: three tasks, one date.  The file of the start holds an *)
(* unfinished task with a date and a mark, and a completed one that has    *)
(* the focus.                                                              *)
(***************************************************************************)
EXTENDS Storage

CONSTANTS a, b, c, d1

ThreeIds == {a, b, c}
OneDue   == {d1}

Late    == [due |-> d1, done |-> FALSE]
Undated == [due |-> None, done |-> FALSE]
Done    == [due |-> None, done |-> TRUE]

AtStart == Saved(With(List(<<a, c>>, a :> Late @@ b :> None @@ c :> Done, c, {a}), <<>>, <<>>, 0))

OneCloud == {List(<<b, a>>, a :> Late @@ b :> Undated @@ c :> None, b, {})}

Others == {Absent, Unreadable, AtStart}
=============================================================================
