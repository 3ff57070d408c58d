-------------------------------- MODULE Routes --------------------------------
(***************************************************************************)
(* notification-routes.json: which task a system notification stands for,  *)
(* and whether its click still waits to be served.  Every operation holds  *)
(* the lock of the file, reads it, and saves it atomically; Reminder and   *)
(* Navigation use these operations in their steps.                         *)
(*                                                                         *)
(* Ids are random in the code and numbered here: none is ever used twice,  *)
(* and pending() returns the routes in the order of their numbers.         *)
(*                                                                         *)
(* A definition whose name ends in Bug is a plausible mistake in the       *)
(* definition that follows it and is used by nothing.                      *)
(***************************************************************************)
EXTENDS Naturals, FiniteSets

CONSTANTS
  Accounts,  \* account owners
  Items,     \* ids of tasks
  Dues,      \* due dates that have passed
  Limit,     \* MAX_ROUTES
  MaxIds     \* bound: routes ever created

ASSUME RoutesAssumption == Limit \in Nat /\ MaxIds \in Nat

VARIABLES
  routes,  \* the routes in the file
  issued   \* auxiliary: ids given out so far

Ids     == 1 .. MaxIds
Targets == [item : Items, owner : Accounts, due : Dues]
Routes  == [id : Ids, target : Targets, phase : {"reserved", "pending", "consumed"}]

RoutesOK == routes \subseteq Routes /\ issued \in 0 .. MaxIds

\* An id names one route, and those to come are new.
IdsAreOwn == \A r \in routes : r.id <= issued /\ \A s \in routes : r.id = s.id => r = s

Live    == {r \in routes : r.phase # "consumed"}
Pending == {r \in routes : r.phase = "pending"}

\* The live route of a target, as a set: there is one or none.
LiveOf(t) == {r \in Live : r.target = t}

\* A full file gives up its consumed routes, never a live one.
KeptBug == IF Cardinality(routes) >= Limit THEN Pending ELSE routes

Kept == IF Cardinality(routes) >= Limit THEN Live ELSE routes

Full == Cardinality(Kept) >= Limit

\* reserve, for a target without a live route.
Add(t) ==
  /\ ~Full /\ issued < MaxIds
  /\ issued' = issued + 1
  /\ routes' = Kept \cup {[id |-> issued + 1, target |-> t, phase |-> "reserved"]}

\* A route goes from one phase to another; any other phase is left alone.
Move(id, from, to) ==
  routes' = {IF r.id = id /\ r.phase = from THEN [r EXCEPT !.phase = to] ELSE r : r \in routes}

\* The click on a notification: only a reserved route changes.
ActivateBug(id) ==
  routes' = {IF r.id = id THEN [r EXCEPT !.phase = "pending"] ELSE r : r \in routes}

Activate(id) == Move(id, "reserved", "pending")

\* The view has shown the task: only a pending route changes.
Acknowledge(id) == Move(id, "pending", "consumed")

=============================================================================
