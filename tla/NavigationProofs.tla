--------------------------- MODULE NavigationProofs ---------------------------
(***************************************************************************)
(* The invariant of Navigation, and what follows from it, for any          *)
(* accounts, tasks and bounds.  The argument: the routes of the file only  *)
(* ever go on from reserved to pending to consumed (Evolves), whatever the *)
(* view has in its hands was pending when it got it, in a session whose    *)
(* account is known, and what it knows to be acknowledged is consumed.     *)
(*                                                                         *)
(* A second invariant, Tracked, says why the view is never left behind:    *)
(* what it does not know of the session and the tasks is about to be       *)
(* emitted or on its way (Channels), and while a click waits there is a    *)
(* Cause for which the view asks, or asked, for it, or else it is recorded *)
(* as missed.  RestIsServed follows.                                       *)
(***************************************************************************)
EXTENDS Navigation, SequenceTheorems, WellFoundedInduction, TLAPS

-----------------------------------------------------------------------------
(* The invariant *)

Uis == [ready : BOOLEAN, gen : Gens, in : BOOLEAN, items : SUBSET Items,
        target : ScrollTargets \cup {None}, tried : BOOLEAN,
        read : {"none", "sent", "done"}, answer : ScrollTargets \cup {None},
        stray : BOOLEAN, acks : SUBSET Acks]

\* The steps that change the tasks or whose they are.
DataChanges ==
  (\E i \in Items : Delete(i)) \/ (\E new \in SUBSET Items : AdoptCloud(new)) \/ ChooseLocal

\* No two routes have the same id.
OwnIds == \A r, s \in routes : r.id = s.id => r = s

\* Clicked, at least.
Seen(id) == \A r \in routes : r.id = id => r.phase # "reserved"

Served(id) == \A r \in routes : r.id = id => r.phase = "consumed"

\* A target belongs to the account of its generation.
Private(t) ==
  t.gen <= gen /\ \E r \in routes : r.id = t.id /\ r.target.owner = who[t.gen]

\* What the view may hold as its target.
GoodTarget(t) == t # None => Private(t) /\ Seen(t.id) /\ <<t.id, t.gen>> \notin settled

GoodAck(a) ==
  <<a.id, a.gen>> \in located /\ Seen(a.id) /\ (a.state = "ok" => Served(a.id))

InHand ==
  /\ GoodTarget(ui.target) /\ GoodTarget(ui.answer)
  /\ \A k \in ui.acks : GoodAck(k)
  /\ \A p \in settled : Served(p[1])

Consistent == TypeOK /\ OwnIds /\ who[gen] = session /\ InHand

-----------------------------------------------------------------------------
(* Routes *)

\* Routes keep their ids and targets and never go back.
Evolves ==
  /\ \A r \in routes : \E s \in routes' : s.id = r.id /\ s.target = r.target
  /\ \A s \in routes' : \E r \in routes :
       /\ s.id = r.id /\ s.target = r.target
       /\ r.phase = "consumed" => s.phase = "consumed"
       /\ r.phase # "reserved" => s.phase # "reserved"

\* Activate and Acknowledge.
LEMMA MoveEvolves ==
  ASSUME RoutesOK, OwnIds, NEW id, NEW from, NEW to,
         <<from, to>> \in {<<"reserved", "pending">>, <<"pending", "consumed">>},
         Move(id, from, to), UNCHANGED issued
  PROVE  Evolves /\ RoutesOK' /\ OwnIds'
<1> DEFINE Moved(r) == IF r.id = id /\ r.phase = from THEN [r EXCEPT !.phase = to] ELSE r
<1>1. from # to /\ from # "consumed" /\ to \in {"pending", "consumed"}
  OBVIOUS
<1>2. routes' = {Moved(r) : r \in routes}
  BY DEF Move
<1>3. \A r \in routes :
        /\ Moved(r) \in Routes /\ Moved(r).id = r.id /\ Moved(r).target = r.target
        /\ r.phase = "consumed" => Moved(r).phase = "consumed"
        /\ r.phase # "reserved" => Moved(r).phase # "reserved"
  <2> SUFFICES ASSUME NEW r \in routes
               PROVE  /\ Moved(r) \in Routes /\ Moved(r).id = r.id /\ Moved(r).target = r.target
                      /\ r.phase = "consumed" => Moved(r).phase = "consumed"
                      /\ r.phase # "reserved" => Moved(r).phase # "reserved"
    OBVIOUS
  <2>1. r \in Routes
    BY DEF RoutesOK
  <2>2. CASE r.id = id /\ r.phase = from
    BY <1>1, <2>1, <2>2 DEF Routes
  <2>3. CASE ~(r.id = id /\ r.phase = from)
    BY <2>1, <2>3
  <2>4. QED BY <2>2, <2>3
<1> HIDE DEF Moved
<1>4. Evolves
  BY <1>2, <1>3 DEF Evolves
<1>5. RoutesOK'
  BY <1>2, <1>3 DEF RoutesOK
<1>6. OwnIds'
  <2> SUFFICES ASSUME NEW r \in routes', NEW s \in routes', r.id = s.id PROVE r = s
    BY DEF OwnIds
  <2>1. PICK r0 \in routes : r = Moved(r0)
    BY <1>2
  <2>2. PICK s0 \in routes : s = Moved(s0)
    BY <1>2
  <2>3. r0 = s0
    BY <1>3, <2>1, <2>2 DEF OwnIds
  <2>4. QED BY <2>1, <2>2, <2>3
<1>7. QED BY <1>4, <1>5, <1>6

\* Clicks on deleted tasks are consumed unseen.
LEMMA ConsumeEvolves ==
  ASSUME RoutesOK, OwnIds, NEW rs \in SUBSET routes, Consume(rs), UNCHANGED issued
  PROVE  Evolves /\ RoutesOK' /\ OwnIds'
<1> DEFINE Done(r) == [r EXCEPT !.phase = "consumed"]
<1>1. routes' = (routes \ rs) \cup {Done(r) : r \in rs}
  BY DEF Consume
<1>2. \A r \in routes : /\ Done(r) \in Routes /\ Done(r).id = r.id /\ Done(r).target = r.target
                        /\ Done(r).phase = "consumed" /\ r \in Routes
  BY DEF RoutesOK, Routes
<1> HIDE DEF Done
<1>3. Evolves
  <2>1. \A r \in routes : \E s \in routes' : s.id = r.id /\ s.target = r.target
    <3> SUFFICES ASSUME NEW r \in routes PROVE \E s \in routes' : s.id = r.id /\ s.target = r.target
      OBVIOUS
    <3>1. CASE r \in rs
      BY <1>1, <1>2, <3>1
    <3>2. CASE r \notin rs
      BY <1>1, <3>2
    <3>3. QED BY <3>1, <3>2
  <2>2. ASSUME NEW s \in routes'
        PROVE  \E r \in routes : /\ s.id = r.id /\ s.target = r.target
                                 /\ r.phase = "consumed" => s.phase = "consumed"
                                 /\ r.phase # "reserved" => s.phase # "reserved"
    <3>1. CASE s \in routes
      BY <3>1
    <3>2. CASE s \notin routes
      <4>1. PICK r \in rs : s = Done(r)
        BY <1>1, <3>2
      <4>2. QED BY <1>2, <4>1
    <3>3. QED BY <3>1, <3>2
  <2>3. QED BY <2>1, <2>2 DEF Evolves
<1>4. RoutesOK'
  BY <1>1, <1>2 DEF RoutesOK
<1>5. OwnIds'
  <2> SUFFICES ASSUME NEW r \in routes', NEW s \in routes', r.id = s.id PROVE r = s
    BY DEF OwnIds
  <2>1. \E r0 \in routes :
          r0.id = r.id /\ ((r = r0 /\ r0 \notin rs) \/ (r = Done(r0) /\ r0 \in rs))
    <3>1. CASE r \in routes \ rs
      BY <3>1
    <3>2. CASE r \in {Done(q) : q \in rs}
      BY <1>2, <3>2
    <3>3. QED BY <1>1, <3>1, <3>2
  <2>2. \E s0 \in routes :
          s0.id = s.id /\ ((s = s0 /\ s0 \notin rs) \/ (s = Done(s0) /\ s0 \in rs))
    <3>1. CASE s \in routes \ rs
      BY <3>1
    <3>2. CASE s \in {Done(q) : q \in rs}
      BY <1>2, <3>2
    <3>3. QED BY <1>1, <3>1, <3>2
  <2>3. PICK r0 \in routes :
          r0.id = r.id /\ ((r = r0 /\ r0 \notin rs) \/ (r = Done(r0) /\ r0 \in rs))
    BY <2>1
  <2>4. PICK s0 \in routes :
          s0.id = s.id /\ ((s = s0 /\ s0 \notin rs) \/ (s = Done(s0) /\ s0 \in rs))
    BY <2>2
  <2>5. r0 = s0
    BY <2>3, <2>4 DEF OwnIds
  <2>6. QED BY <2>3, <2>4, <2>5
<1>6. QED BY <1>3, <1>4, <1>5

\* Nothing happens to them.
LEMMA RestEvolves ==
  ASSUME RoutesOK, OwnIds, UNCHANGED <<routes, issued>>
  PROVE  Evolves /\ RoutesOK' /\ OwnIds'
BY DEF Evolves, RoutesOK, OwnIds

\* So does every step.
LEMMA StepEvolves ==
  ASSUME RoutesOK, OwnIds, [Next]_vars
  PROVE  Evolves /\ RoutesOK' /\ OwnIds'
<1>1. CASE UNCHANGED vars
  BY <1>1, RestEvolves DEF vars
<1>2. ASSUME NEW id \in Ids, NEW saved \in BOOLEAN, Click(id, saved)
      PROVE  Evolves /\ RoutesOK' /\ OwnIds'
  BY <1>2, MoveEvolves, RestEvolves DEF Click, Activate
<1>3. Passed \subseteq routes
  BY DEF Passed, Mine, Pending
<1>4. CASE ReadRuns
  BY <1>3, <1>4, ConsumeEvolves DEF ReadRuns
<1>5. ASSUME NEW last \in 1 .. MaxIds + 1, ReadFails(last)
      PROVE  Evolves /\ RoutesOK' /\ OwnIds'
  <2>1. {r \in Passed : r.id < last} \in SUBSET routes
    BY <1>3
  <2>2. QED BY <1>5, <2>1, ConsumeEvolves DEF ReadFails
<1>6. CASE StrayRuns
  BY <1>3, <1>6, ConsumeEvolves DEF StrayRuns
<1>7. ASSUME NEW a \in ui.acks, NEW saved \in BOOLEAN, AckRuns(a, saved)
      PROVE  Evolves /\ RoutesOK' /\ OwnIds'
  BY <1>7, MoveEvolves, RestEvolves DEF AckRuns, Acknowledge
<1>8. CASE \E kind \in Kinds : Emit(kind)
  BY <1>8, RestEvolves DEF Emit
<1>9. CASE View
  BY <1>9, RestEvolves DEF View, UiStarts, ReadArrives, Navigate, AckArrives, AuthArrives,
     SnapshotArrives
<1>10. CASE \E a \in Accounts \cup {None} : Crash(a)
  BY <1>10, RestEvolves DEF Crash
<1>11. CASE \E i \in Items : Delete(i)
  BY <1>11, RestEvolves DEF Delete
<1>12. CASE (\E new \in SUBSET Items : AdoptCloud(new)) \/ ChooseLocal
  BY <1>12, RestEvolves DEF AdoptCloud, ChooseLocal
<1>13. CASE (\E a \in Accounts : Login(a)) \/ Logout
  BY <1>13, RestEvolves DEF Login, Logout, NewSession
<1>14. CASE ImportStarts \/ ImportEnds
  BY <1>14, RestEvolves DEF ImportStarts, ImportEnds
<1>15. QED BY <1>1, <1>2, <1>4, <1>5, <1>6, <1>7, <1>8, <1>9, <1>10, <1>11, <1>12, <1>13, <1>14
          DEF Next, Process, Failures, Surroundings

-----------------------------------------------------------------------------
(* Types *)

\* A read that is dropped or started leaves the rest of the view alone.
LEMMA ReadingKeeps ==
  ASSUME NEW u \in Uis
  PROVE  /\ Dropped(u) \in Uis /\ Reading(u) \in Uis
         /\ Dropped(u).answer = None /\ Reading(u).answer = None
         /\ Dropped(u).target = u.target /\ Reading(u).target = u.target
         /\ Dropped(u).acks = u.acks /\ Reading(u).acks = u.acks
         /\ Dropped(u).read = "none" /\ (Reading(u).read # "none" => Reading(u).in)
<1>1. Dropped(u) = [u EXCEPT !.read = "none", !.answer = None, !.stray = @ \/ u.read = "sent"]
  BY DEF Dropped
<1>2. /\ Dropped(u) \in Uis /\ Dropped(u).answer = None /\ Dropped(u).target = u.target
      /\ Dropped(u).acks = u.acks /\ Dropped(u).read = "none" /\ Dropped(u).in = u.in
  <2>1. (u.stray \/ u.read = "sent") \in BOOLEAN
    OBVIOUS
  <2>2. QED BY <1>1, <2>1 DEF Uis
<1>3. CASE u.ready /\ u.in
  <2>1. Reading(u) = [Dropped(u) EXCEPT !.read = "sent"]
    BY <1>3 DEF Reading
  <2> HIDE DEF Reading, Dropped
  <2>2. QED BY <1>2, <1>3, <2>1 DEF Uis
<1>4. CASE ~(u.ready /\ u.in)
  BY <1>2, <1>4 DEF Reading
<1>5. QED BY <1>2, <1>3, <1>4

\* What an event does to the view before it reads.
LEMMA GenerationKeeps ==
  ASSUME ui \in Uis, NEW e, e.gen \in Gens
  PROVE  /\ Generation(e) \in Uis
         /\ Generation(e).target = ui.target /\ Generation(e).acks = ui.acks
BY DEF Generation, Uis

\* The answer of a read.
LEMMA FirstIsGood ==
  ASSUME RoutesOK, OwnIds, NEW r \in First
  PROVE  /\ r \in routes /\ r \in Routes /\ r.phase = "pending"
         /\ session # None /\ r.target.owner = session
BY DEF First, Mine, Pending, Readable, RoutesOK

\* The view is well formed.
UiOK ==
  ui \in Uis /\ (ui.read # "none" => ui.in) /\ (ui.answer # None => ui.read = "done")

\* The rest of TypeOK, by what it is about.
MailOK == news \subseteq Kinds /\ auths \in Seq(AuthEvents) /\ snaps \in Seq(Snapshots)

HistoryOK ==
  /\ located \subseteq Ids \X Gens /\ settled \subseteq Ids \X Gens
  /\ who \in [Gens -> Accounts \cup {None}]

MissedOK == missed \in BOOLEAN

BoundsOK == edits \in 0 .. MaxEdits /\ faults \in 0 .. MaxFaults /\ crashes \in 0 .. MaxCrashes

WorldOK ==
  /\ tasks \subseteq Items /\ owner \in Accounts
  /\ session \in Accounts \cup {None} /\ gen \in Gens /\ blocked \in BOOLEAN
  /\ shown \subseteq Ids

\* TypeOK is the conjunction of these parts, before and after a step.
LEMMA TypeParts ==
  /\ TypeOK <=>
       RoutesOK /\ WorldOK /\ MailOK /\ UiOK /\ HistoryOK /\ MissedOK /\ BoundsOK
  /\ TypeOK' <=>
       RoutesOK' /\ WorldOK' /\ MailOK' /\ UiOK' /\ HistoryOK' /\ MissedOK' /\ BoundsOK'
BY DEF TypeOK, WorldOK, MailOK, UiOK, HistoryOK, MissedOK, BoundsOK, Uis

\* The view, step by step.
LEMMA UiKept ==
  ASSUME TypeOK, Next
  PROVE  UiOK'
<1> USE TypeParts
<1>1. ui \in Uis /\ UiOK /\ gen \in Gens /\ RoutesOK
  BY DEF UiOK, WorldOK
<1>2. CASE UNCHANGED ui
  BY <1>1, <1>2 DEF UiOK
<1>3. CASE ReadRuns
  <2>1. CASE First = {}
    BY <1>1, <1>3, <2>1 DEF ReadRuns, UiOK, Uis
  <2>2. CASE First # {}
    <3> DEFINE r == CHOOSE r \in First : TRUE
               t == [id |-> r.id, item |-> r.target.item, gen |-> gen]
    <3>1. r \in First
      BY <2>2
    <3>2. r \in Routes
      BY <1>1, <3>1 DEF First, Mine, Pending, RoutesOK
    <3>3. t \in ScrollTargets
      BY <1>1, <3>2 DEF Routes, Targets, ScrollTargets
    <3>4. ui' = [ui EXCEPT !.read = "done", !.answer = t] /\ ui.read = "sent"
      BY <1>3, <2>2 DEF ReadRuns
    <3> HIDE DEF t, r
    <3>5. QED BY <1>1, <3>3, <3>4 DEF UiOK, Uis
  <2>3. QED BY <2>1, <2>2
<1>4. CASE \E last \in 1 .. MaxIds + 1 : ReadFails(last)
  BY <1>1, <1>4 DEF ReadFails, UiOK, Uis
<1>5. CASE StrayRuns
  BY <1>1, <1>5 DEF StrayRuns, UiOK, Uis
<1>6. ASSUME NEW a \in ui.acks, NEW saved \in BOOLEAN, AckRuns(a, saved)
      PROVE  UiOK'
  <2>1. a \in Acks
    BY <1>1 DEF Uis
  <2> DEFINE b == [a EXCEPT !.state = IF saved /\ Allowed(a) THEN "ok" ELSE "failed"]
  <2>2. b \in Acks
    BY <2>1 DEF Acks
  <2>3. ui' = [ui EXCEPT !.acks = (@ \ {a}) \cup {b}]
    BY <1>6 DEF AckRuns
  <2> HIDE DEF b
  <2>4. QED BY <1>1, <2>2, <2>3 DEF UiOK, Uis
<1>7. ASSUME NEW u \in Uis, ui' = Reading(u) PROVE UiOK'
  BY <1>7, ReadingKeeps DEF UiOK
<1>8. CASE UiStarts
  <2> DEFINE u == [ui EXCEPT !.ready = TRUE, !.gen = gen, !.in = session # None, !.items = tasks]
  <2>1. u \in Uis
    BY <1>1 DEF Uis, WorldOK
  <2>2. ui' = Reading(u)
    BY <1>8 DEF UiStarts
  <2>3. QED BY <1>7, <2>1, <2>2
<1>9. CASE \E kind \in Kinds : Emit(kind)
  BY <1>1, <1>2, <1>7, <1>9 DEF Emit
<1>10. ASSUME NEW k \in DOMAIN auths, AuthArrives(k) PROVE UiOK'
  <2>1. auths[k] \in AuthEvents
    BY <1>10, ElementOfSeq DEF MailOK
  <2> DEFINE u == [Generation(auths[k]) EXCEPT !.in = auths[k].in]
  <2>2. u \in Uis
    BY <1>1, <2>1, GenerationKeeps DEF AuthEvents, Uis
  <2>3. CASE ui' = Reading(u)
    BY <1>7, <2>2, <2>3
  <2>4. QED BY <1>2, <1>10, <2>3 DEF AuthArrives
<1>11. ASSUME NEW k \in DOMAIN snaps, SnapshotArrives(k) PROVE UiOK'
  <2>1. snaps[k] \in Snapshots
    BY <1>11, ElementOfSeq DEF MailOK
  <2> DEFINE u == [Generation(snaps[k]) EXCEPT !.items = snaps[k].items]
  <2>2. u \in Uis
    BY <1>1, <2>1, GenerationKeeps DEF Snapshots, Uis
  <2>3. CASE ui' = Reading(u)
    BY <1>7, <2>2, <2>3
  <2>4. QED BY <1>2, <1>11, <2>3 DEF SnapshotArrives
<1>12. CASE ReadArrives
  <2> DEFINE t == IF ui.answer # None /\ ui.answer.gen = ui.gen THEN ui.answer ELSE None
  <2>1. t \in ScrollTargets \cup {None}
    BY <1>1 DEF Uis
  <2>2. ui' = [ui EXCEPT !.read = "none", !.answer = None, !.tried = FALSE, !.target = t]
    BY <1>12 DEF ReadArrives
  <2> HIDE DEF t
  <2>3. QED BY <1>1, <2>1, <2>2 DEF UiOK, Uis
<1>13. CASE Navigate
  <2>1. Current \in ScrollTargets
    BY <1>1, <1>13 DEF Navigate, Current, Uis
  <2> DEFINE a == [id |-> Current.id, gen |-> Current.gen, state |-> "sent"]
  <2>2. a \in Acks
    BY <2>1 DEF ScrollTargets, Acks
  <2>3. CASE ui' = [ui EXCEPT !.tried = TRUE]
    BY <1>1, <2>3 DEF UiOK, Uis
  <2>4. CASE ui' = [Dropped(ui) EXCEPT !.tried = TRUE, !.acks = @ \cup {a}]
    <3>1. /\ Dropped(ui) \in Uis /\ Dropped(ui).answer = None /\ Dropped(ui).read = "none"
      BY <1>1, ReadingKeeps
    <3> HIDE DEF a
    <3>2. QED BY <2>2, <2>4, <3>1 DEF UiOK, Uis
  <2>5. QED BY <1>13, <2>3, <2>4 DEF Navigate
<1>14. ASSUME NEW a \in ui.acks, AckArrives(a) PROVE UiOK'
  <2> DEFINE rest == [ui EXCEPT !.acks = @ \ {a}]
             t == IF rest.target # None /\ rest.target.id = a.id /\ rest.target.gen = a.gen
                  THEN None ELSE rest.target
             u == [rest EXCEPT !.target = t]
  <2>1. rest \in Uis
    BY <1>1 DEF Uis
  <2>2. t \in ScrollTargets \cup {None}
    BY <2>1 DEF Uis
  <2>3. u \in Uis
    <3> HIDE DEF rest, t
    <3>1. QED BY <2>1, <2>2 DEF Uis
  <2>4. CASE ui' = rest
    BY <1>1, <2>4 DEF UiOK, Uis
  <2>5. CASE ui' = Reading(u)
    BY <1>7, <2>3, <2>5
  <2>6. QED BY <1>14, <2>4, <2>5 DEF AckArrives, Acked
<1>15. CASE \E a \in Accounts \cup {None} : Crash(a)
  <2>1. ui' = NoUi
    BY <1>15 DEF Crash
  <2>2. NoUi \in Uis /\ NoUi.read = "none" /\ NoUi.answer = None
    BY <1>1, BoundsAssumption DEF NoUi, Uis, Gens
  <2>3. QED BY <2>1, <2>2 DEF UiOK
<1>16. CASE \E id \in Ids, saved \in BOOLEAN : Click(id, saved)
  BY <1>2, <1>16 DEF Click
<1>17. CASE DataChanges
  BY <1>2, <1>17 DEF DataChanges, Delete, AdoptCloud, ChooseLocal
<1>18. CASE (\E a \in Accounts : Login(a)) \/ Logout
  BY <1>2, <1>18 DEF Login, Logout, NewSession
<1>19. CASE ImportStarts \/ ImportEnds
  BY <1>2, <1>19 DEF ImportStarts, ImportEnds
<1>20. QED BY <1>3, <1>4, <1>5, <1>6, <1>8, <1>9, <1>10, <1>11, <1>12, <1>13, <1>14, <1>15,
             <1>16, <1>17, <1>18, <1>19
          DEF Next, Process, View, Failures, Surroundings, DataChanges

\* Everything else.
LEMMA RestKept ==
  ASSUME TypeOK, Next
  PROVE  WorldOK' /\ MailOK' /\ HistoryOK' /\ MissedOK' /\ BoundsOK'
<1> USE TypeParts
<1>0. WorldOK /\ MailOK /\ UiOK /\ HistoryOK /\ MissedOK /\ BoundsOK
  OBVIOUS
<1>1. WorldOK'
  <2>1. CASE UNCHANGED <<tasks, owner, session, gen, blocked, shown>>
    BY <1>0, <2>1 DEF WorldOK
  <2>2. CASE Process \/ View
    BY <2>1, <2>2 DEF Process, View, ReadRuns, StrayRuns, AckRuns, Emit, UiStarts, ReadArrives,
       Navigate, AckArrives, AuthArrives, SnapshotArrives, data, account
  <2>3. CASE Failures
    <3>1. CASE \E last \in 1 .. MaxIds + 1 : ReadFails(last)
      BY <2>1, <3>1 DEF ReadFails, data, account
    <3>2. CASE \E a \in ui.acks : AckRuns(a, FALSE)
      BY <2>1, <3>2 DEF AckRuns, data, account
    <3>3. CASE \E a \in Accounts \cup {None} : Crash(a)
      BY <1>0, <3>3, BoundsAssumption DEF Crash, data, WorldOK, Gens
    <3>4. QED BY <2>3, <3>1, <3>2, <3>3 DEF Failures
  <2>4. CASE \E id \in Ids, saved \in BOOLEAN : Click(id, saved)
    BY <1>0, <2>4 DEF Click, data, account, WorldOK
  <2>5. CASE DataChanges
    BY <1>0, <2>5 DEF DataChanges, Delete, AdoptCloud, ChooseLocal, account, WorldOK
  <2>6. CASE (\E a \in Accounts : Login(a)) \/ Logout
    BY <1>0, <2>6, BoundsAssumption DEF Login, Logout, NewSession, data, WorldOK, Gens
  <2>7. CASE ImportStarts \/ ImportEnds
    BY <1>0, <2>7 DEF ImportStarts, ImportEnds, data, WorldOK
  <2>8. QED BY <2>2, <2>3, <2>4, <2>5, <2>6, <2>7 DEF Next, Surroundings, DataChanges
<1>2. MailOK'
  <2>1. CASE UNCHANGED mail
    BY <1>0, <2>1 DEF MailOK, mail
  <2>2. CASE ReadRuns \/ StrayRuns \/ (\E a \in ui.acks, saved \in BOOLEAN : AckRuns(a, saved))
    BY <2>1, <2>2 DEF ReadRuns, StrayRuns, AckRuns, mail
  <2>3. ASSUME NEW kind \in Kinds, Emit(kind) PROVE MailOK'
    <3>1. [gen |-> gen, in |-> session # None] \in AuthEvents
      BY <1>0 DEF WorldOK, AuthEvents
    <3>2. [gen |-> gen, items |-> tasks] \in Snapshots
      BY <1>0 DEF WorldOK, Snapshots
    <3>3. auths' \in Seq(AuthEvents)
      BY <1>0, <2>3, <3>1, AppendProperties DEF Emit, MailOK
    <3>4. snaps' \in Seq(Snapshots)
      BY <1>0, <2>3, <3>2, AppendProperties DEF Emit, MailOK
    <3>5. QED BY <1>0, <2>3, <3>3, <3>4 DEF Emit, MailOK
  <2>4. CASE UiStarts \/ ReadArrives \/ Navigate \/ \E a \in ui.acks : AckArrives(a)
    BY <2>1, <2>4 DEF UiStarts, ReadArrives, Navigate, AckArrives
  <2>5. ASSUME NEW k \in DOMAIN auths, AuthArrives(k) PROVE MailOK'
    <3>1. k \in 1 .. Len(auths)
      BY <1>0, <2>5, LenProperties DEF MailOK
    <3>2. SubSeq(auths, k + 1, Len(auths)) \in Seq(AuthEvents)
      BY <1>0, <3>1, SubSeqProperties, LenProperties DEF MailOK
    <3>3. QED BY <1>0, <2>5, <3>2 DEF AuthArrives, MailOK
  <2>6. ASSUME NEW k \in DOMAIN snaps, SnapshotArrives(k) PROVE MailOK'
    <3>1. k \in 1 .. Len(snaps)
      BY <1>0, <2>6, LenProperties DEF MailOK
    <3>2. SubSeq(snaps, k + 1, Len(snaps)) \in Seq(Snapshots)
      BY <1>0, <3>1, SubSeqProperties, LenProperties DEF MailOK
    <3>3. QED BY <1>0, <2>6, <3>2 DEF SnapshotArrives, MailOK
  <2>7. CASE \E last \in 1 .. MaxIds + 1 : ReadFails(last)
    BY <2>1, <2>7 DEF ReadFails
  <2>8. CASE \E a \in Accounts \cup {None} : Crash(a)
    BY <2>8, EmptySeq DEF Crash, MailOK
  <2>9. CASE Surroundings
    BY <1>0, <2>9 DEF Surroundings, Click, Delete, AdoptCloud, ChooseLocal, Login, Logout,
       NewSession, ImportStarts, ImportEnds, Tell, ClickNews, MailOK, mail, Kinds
  <2>10. QED BY <2>2, <2>3, <2>4, <2>5, <2>6, <2>7, <2>8, <2>9
             DEF Next, Process, View, Failures
<1>3. HistoryOK'
  <2>1. CASE UNCHANGED history
    BY <1>0, <2>1 DEF HistoryOK, history
  <2>2. CASE Navigate
    <3>1. Current \in ScrollTargets
      BY <1>0, <2>2 DEF Navigate, Current, UiOK, Uis
    <3>2. QED BY <1>0, <2>2, <3>1 DEF Navigate, HistoryOK, ScrollTargets
  <2>3. ASSUME NEW a \in ui.acks, AckArrives(a) PROVE HistoryOK'
    <3>1. a \in Acks
      BY <1>0 DEF UiOK, Uis
    <3>2. QED BY <1>0, <2>3, <3>1 DEF AckArrives, HistoryOK, Acks
  <2>4. CASE \E a \in Accounts \cup {None} : Crash(a)
    BY <2>4 DEF Crash, HistoryOK
  <2>5. CASE (\E a \in Accounts : Login(a)) \/ Logout
    BY <1>0, <2>5 DEF Login, Logout, NewSession, HistoryOK
  <2>6. CASE Process \/ (\E last \in 1 .. MaxIds + 1 : ReadFails(last))
             \/ (\E a \in ui.acks : AckRuns(a, FALSE))
    BY <2>1, <2>6 DEF Process, ReadRuns, ReadFails, StrayRuns, AckRuns, Emit
  <2>7. CASE UiStarts \/ ReadArrives \/ (\E k \in DOMAIN auths : AuthArrives(k))
             \/ (\E k \in DOMAIN snaps : SnapshotArrives(k))
    BY <2>1, <2>7 DEF UiStarts, ReadArrives, AuthArrives, SnapshotArrives
  <2>8. CASE (\E id \in Ids, saved \in BOOLEAN : Click(id, saved)) \/ ImportStarts \/ ImportEnds
             \/ DataChanges
    BY <2>1, <2>8 DEF Click, ImportStarts, ImportEnds, DataChanges, Delete, AdoptCloud,
       ChooseLocal
  <2>9. QED BY <2>2, <2>3, <2>4, <2>5, <2>6, <2>7, <2>8
            DEF Next, View, Failures, Surroundings, DataChanges
<1>4. BoundsOK'
  <2> USE BoundsAssumption
  <2>1. CASE UNCHANGED bounds
    BY <1>0, <2>1 DEF BoundsOK, bounds
  <2>2. ASSUME NEW bad \in BOOLEAN, Spend(bad), UNCHANGED <<edits, crashes>>
        PROVE  BoundsOK'
    BY <1>0, <2>2 DEF BoundsOK, Spend
  <2>3. CASE Process
    BY <2>1, <2>2, <2>3 DEF Process, ReadRuns, StrayRuns, AckRuns, Emit
  <2>4. CASE View
    BY <2>1, <2>4 DEF View, UiStarts, ReadArrives, Navigate, AckArrives, AuthArrives,
       SnapshotArrives
  <2>5. CASE Failures
    <3>1. CASE \E last \in 1 .. MaxIds + 1 : ReadFails(last)
      BY <2>2, <3>1 DEF ReadFails
    <3>2. CASE \E a \in ui.acks : AckRuns(a, FALSE)
      BY <2>2, <3>2 DEF AckRuns
    <3>3. CASE \E a \in Accounts \cup {None} : Crash(a)
      BY <1>0, <3>3 DEF Crash, BoundsOK
    <3>4. QED BY <2>5, <3>1, <3>2, <3>3 DEF Failures
  <2>6. CASE \E id \in Ids, saved \in BOOLEAN : Click(id, saved)
    BY <2>2, <2>6 DEF Click
  <2>7. CASE DataChanges
             \/ ImportStarts
    BY <1>0, <2>7 DEF DataChanges, Delete, AdoptCloud, ChooseLocal, ImportStarts, Count, BoundsOK
  <2>8. CASE (\E a \in Accounts : Login(a)) \/ Logout \/ ImportEnds
    BY <2>1, <2>8 DEF Login, Logout, NewSession, ImportEnds
  <2>9. QED BY <2>3, <2>4, <2>5, <2>6, <2>7, <2>8 DEF Next, Surroundings, DataChanges
<1>5. MissedOK'
  <2>1. CASE UNCHANGED missed
    BY <1>0, <2>1 DEF MissedOK
  <2>2. CASE Process \/ Failures
    <3>1. CASE ReadRuns \/ StrayRuns \/ (\E kind \in Kinds : Emit(kind))
      BY <2>1, <3>1 DEF ReadRuns, StrayRuns, Emit
    <3>2. ASSUME NEW a \in ui.acks, NEW saved \in BOOLEAN, AckRuns(a, saved) PROVE MissedOK'
      BY <3>2 DEF AckRuns, MissedOK
    <3>3. CASE (\E last \in 1 .. MaxIds + 1 : ReadFails(last))
               \/ (\E a \in Accounts \cup {None} : Crash(a))
      BY <3>3 DEF ReadFails, Crash, MissedOK
    <3>4. QED BY <2>2, <3>1, <3>2, <3>3 DEF Process, Failures
  <2>3. CASE View
    BY <2>1, <2>3 DEF View, UiStarts, ReadArrives, Navigate, AckArrives, AuthArrives,
       SnapshotArrives
  <2>4. CASE Surroundings
    BY <2>4 DEF Surroundings, Click, Delete, AdoptCloud, ChooseLocal, Login, Logout, NewSession,
       ImportStarts, ImportEnds, Tell, Refused, MissedOK
  <2>5. QED BY <2>2, <2>3, <2>4 DEF Next
<1>6. QED BY <1>1, <1>2, <1>3, <1>4, <1>5

-----------------------------------------------------------------------------
(* What the view has in its hands *)

\* What the process remembers of earlier sessions stays as it is, within one life.
Remembers ==
  /\ gen' \in Nat /\ gen <= gen' /\ located \subseteq located'
  /\ \A g \in Gens : g <= gen => who'[g] = who[g]

\* GoodTarget and its parts after a step, of what is known before it.
SeenNext(id)    == \A r \in routes' : r.id = id => r.phase # "reserved"
ServedNext(id)  == \A r \in routes' : r.id = id => r.phase = "consumed"
PrivateNext(t)  ==
  t.gen <= gen' /\ \E r \in routes' : r.id = t.id /\ r.target.owner = who'[t.gen]
TargetNext(t)   ==
  t # None => PrivateNext(t) /\ SeenNext(t.id) /\ <<t.id, t.gen>> \notin settled'
AckNext(a)      ==
  <<a.id, a.gen>> \in located' /\ SeenNext(a.id) /\ (a.state = "ok" => ServedNext(a.id))

\* InHand after a step, by these.
LEMMA HandNext ==
  InHand' <=> /\ TargetNext(ui'.target) /\ TargetNext(ui'.answer)
              /\ \A a \in ui'.acks : AckNext(a)
              /\ \A p \in settled' : ServedNext(p[1])
BY DEF InHand, GoodTarget, GoodAck, Private, Seen, Served, TargetNext, AckNext, PrivateNext,
       SeenNext, ServedNext

\* What was good to hold stays so.
LEMMA GoodStays ==
  ASSUME TypeOK, InHand, Evolves, Remembers
  PROVE  /\ \A t \in ScrollTargets \cup {None} :
              GoodTarget(t) /\ (t # None => <<t.id, t.gen>> \notin settled') => TargetNext(t)
         /\ \A a \in Acks : GoodAck(a) => AckNext(a)
         /\ \A id : (Served(id) => ServedNext(id)) /\ (Seen(id) => SeenNext(id))
<1>1. \A id : (Served(id) => ServedNext(id)) /\ (Seen(id) => SeenNext(id))
  <2> SUFFICES ASSUME NEW id PROVE (Served(id) => ServedNext(id)) /\ (Seen(id) => SeenNext(id))
    OBVIOUS
  <2>1. \A s \in routes' : \E r \in routes :
          /\ s.id = r.id
          /\ (r.phase = "consumed" => s.phase = "consumed")
          /\ (r.phase # "reserved" => s.phase # "reserved")
    BY DEF Evolves
  <2>2. QED BY <2>1 DEF Served, Seen, ServedNext, SeenNext
<1>2. ASSUME NEW a \in Acks, GoodAck(a) PROVE AckNext(a)
  BY <1>1, <1>2 DEF GoodAck, AckNext, Remembers
<1>3. ASSUME NEW t \in ScrollTargets, GoodTarget(t), <<t.id, t.gen>> \notin settled'
      PROVE  TargetNext(t)
  <2>1. Private(t) /\ Seen(t.id) /\ t.gen \in Gens
    BY <1>3, NoTargetAssumption DEF GoodTarget, ScrollTargets
  <2>2. PICK r \in routes : r.id = t.id /\ r.target.owner = who[t.gen]
    BY <2>1 DEF Private
  <2>3. PICK s \in routes' : s.id = t.id /\ s.target.owner = who[t.gen]
    BY <2>2 DEF Evolves
  <2>4. t.gen <= gen' /\ who'[t.gen] = who[t.gen]
    BY <2>1 DEF Private, Remembers, TypeOK, Gens
  <2>5. PrivateNext(t)
    BY <2>3, <2>4 DEF PrivateNext
  <2>6. QED BY <1>1, <1>3, <2>1, <2>5 DEF GoodTarget, TargetNext
<1>4. TargetNext(None)
  BY DEF TargetNext
<1>5. QED BY <1>1, <1>2, <1>3, <1>4

\* A step that gives the view nothing new.
LEMMA NothingNew ==
  ASSUME TypeOK, InHand, Evolves, Remembers, UNCHANGED settled,
         ui'.target \in {ui.target, ui.answer, None}, ui'.answer \in {ui.answer, None},
         ui'.acks \subseteq ui.acks
  PROVE  InHand'
<1>1. ui.target \in ScrollTargets \cup {None} /\ ui.answer \in ScrollTargets \cup {None}
      /\ ui.acks \subseteq Acks
  BY DEF TypeOK
<1>2. \A t \in ScrollTargets \cup {None} : GoodTarget(t) => TargetNext(t)
  BY GoodStays DEF GoodTarget
<1>3. TargetNext(None)
  BY DEF TargetNext
<1>4. TargetNext(ui'.target)
  BY <1>1, <1>2, <1>3 DEF InHand
<1>5. TargetNext(ui'.answer)
  BY <1>1, <1>2, <1>3 DEF InHand
<1>6. \A a \in ui'.acks : AckNext(a)
  BY <1>1, GoodStays DEF InHand
<1>7. \A p \in settled' : ServedNext(p[1])
  BY GoodStays DEF InHand
<1>8. QED BY <1>4, <1>5, <1>6, <1>7, HandNext

\* Every step keeps what the view holds good.
LEMMA HandKept ==
  ASSUME Consistent, Next, TypeOK'
  PROVE  InHand'
<1> USE TypeParts
<1>0. TypeOK /\ OwnIds /\ InHand /\ who[gen] = session /\ RoutesOK /\ gen \in Gens /\ ui \in Uis
      /\ gen \in Nat /\ gen <= gen
  BY DEF Consistent, WorldOK, UiOK, Gens
<1>1. Evolves
  BY <1>0, StepEvolves
<1>2. ASSUME UNCHANGED <<gen, who, located, settled>>,
             ui'.target \in {ui.target, ui.answer, None}, ui'.answer \in {ui.answer, None},
             ui'.acks \subseteq ui.acks
      PROVE  InHand'
  BY <1>0, <1>1, <1>2, NothingNew DEF Remembers
<1>3. ASSUME UNCHANGED <<gen, who, located, settled>>,
             NEW u \in Uis, u.target \in {ui.target, None}, u.acks \subseteq ui.acks,
             ui' = Reading(u)
      PROVE  InHand'
  <2>1. /\ ui'.answer = None /\ ui'.target = u.target /\ ui'.acks = u.acks
    BY <1>3, ReadingKeeps
  <2>2. QED BY <1>2, <1>3, <2>1
<1>4. CASE UNCHANGED <<gen, who, located, settled, ui>>
  BY <1>2, <1>4
<1>5. CASE ReadRuns
  <2>1. CASE First = {}
    <3>1. ui' = [ui EXCEPT !.read = "done", !.answer = None]
      BY <1>5, <2>1 DEF ReadRuns
    <3>2. /\ ui'.target = ui.target /\ ui'.acks = ui.acks /\ ui'.answer = None
      BY <1>0, <3>1 DEF Uis
    <3>3. QED BY <1>2, <1>5, <3>2 DEF ReadRuns, account, history
  <2>2. CASE First # {}
    <3> DEFINE r == CHOOSE r \in First : TRUE
               t == [id |-> r.id, item |-> r.target.item, gen |-> gen]
    <3>1. r \in First
      BY <2>2
    <3>2. ui' = [ui EXCEPT !.read = "done", !.answer = t]
      BY <1>5, <2>2 DEF ReadRuns
    <3>3. /\ r \in routes /\ r \in Routes /\ r.phase = "pending"
          /\ session # None /\ r.target.owner = session
      BY <1>0, <3>1, FirstIsGood
    <3> HIDE DEF r
    <3>4. t \in ScrollTargets /\ t.id = r.id /\ t.gen = gen
      BY <1>0, <3>3 DEF Routes, Targets, ScrollTargets
    <3> HIDE DEF t
    <3>5. ui'.target = ui.target /\ ui'.acks = ui.acks /\ ui'.answer = t
      BY <1>0, <3>2 DEF Uis
    <3>6. Private(t)
      BY <1>0, <3>3, <3>4 DEF Private
    <3>7. Seen(t.id) /\ ~Served(t.id)
      BY <1>0, <3>3, <3>4 DEF Seen, Served, OwnIds
    <3>8. <<t.id, t.gen>> \notin settled
      BY <1>0, <3>7 DEF InHand
    <3>9. GoodTarget(t)
      BY <3>6, <3>7, <3>8 DEF GoodTarget
    <3>10. UNCHANGED <<gen, who, located, settled>> /\ Remembers
      BY <1>0, <1>5 DEF ReadRuns, account, history, Remembers
    <3>11. TargetNext(t) /\ TargetNext(ui.target)
      <4>1. ui.target \in ScrollTargets \cup {None} /\ GoodTarget(ui.target)
        BY <1>0 DEF Uis, InHand
      <4>2. QED
        BY <1>0, <1>1, <3>4, <3>8, <3>9, <3>10, <4>1, GoodStays DEF GoodTarget
    <3>12. (\A a \in ui.acks : AckNext(a)) /\ (\A p \in settled : ServedNext(p[1]))
      BY <1>0, <1>1, <3>10, GoodStays DEF InHand, Uis
    <3>13. /\ TargetNext(ui'.target) /\ TargetNext(ui'.answer)
           /\ \A a \in ui'.acks : AckNext(a)
           /\ \A p \in settled' : ServedNext(p[1])
      BY <3>5, <3>10, <3>11, <3>12
    <3>14. QED BY <3>13, HandNext
  <2>3. QED BY <2>1, <2>2
<1>6. CASE \E last \in 1 .. MaxIds + 1 : ReadFails(last)
  <2>1. ui' = [ui EXCEPT !.read = "done"]
    BY <1>6 DEF ReadFails
  <2>2. ui'.target = ui.target /\ ui'.acks = ui.acks /\ ui'.answer = ui.answer
    BY <1>0, <2>1 DEF Uis
  <2>3. QED BY <1>2, <1>6, <2>2 DEF ReadFails, account, history
<1>7. CASE StrayRuns
  <2>1. ui' = [ui EXCEPT !.stray = FALSE]
    BY <1>7 DEF StrayRuns
  <2>2. ui'.target = ui.target /\ ui'.acks = ui.acks /\ ui'.answer = ui.answer
    BY <1>0, <2>1 DEF Uis
  <2>3. QED BY <1>2, <1>7, <2>2 DEF StrayRuns, account, history
<1>8. ASSUME NEW a \in ui.acks, NEW saved \in BOOLEAN, AckRuns(a, saved)
      PROVE  InHand'
  <2> DEFINE b == [a EXCEPT !.state = IF saved /\ Allowed(a) THEN "ok" ELSE "failed"]
  <2>1. a \in Acks /\ GoodAck(a)
    BY <1>0 DEF Uis, InHand
  <2>2. b \in Acks /\ b.id = a.id /\ b.gen = a.gen /\ (b.state = "ok" => saved /\ Allowed(a))
    BY <2>1 DEF Acks
  <2>3. ui' = [ui EXCEPT !.acks = (@ \ {a}) \cup {b}]
    BY <1>8 DEF AckRuns
  <2> HIDE DEF b
  <2>4. ui'.target = ui.target /\ ui'.answer = ui.answer /\ ui'.acks = (ui.acks \ {a}) \cup {b}
    BY <1>0, <2>3 DEF Uis
  <2>5. UNCHANGED <<gen, who, located, settled>> /\ Remembers
    BY <1>0, <1>8 DEF AckRuns, account, history, Remembers
  <2>6. TargetNext(ui.target) /\ TargetNext(ui.answer)
    BY <1>0, <1>1, <2>5, GoodStays DEF GoodTarget, InHand, Uis
  <2>7. (\A k \in ui.acks : AckNext(k)) /\ (\A p \in settled : ServedNext(p[1]))
    BY <1>0, <1>1, <2>5, GoodStays DEF InHand, Uis
  <2>8. b.state = "ok" => ServedNext(b.id)
    <3> SUFFICES ASSUME saved /\ Allowed(a) PROVE ServedNext(a.id)
      BY <2>2
    <3>1. routes' = {IF r.id = a.id /\ r.phase = "pending" THEN [r EXCEPT !.phase = "consumed"]
                     ELSE r : r \in routes}
      BY <1>8 DEF AckRuns, Acknowledge, Move
    <3>2. Seen(a.id)
      BY <2>1 DEF GoodAck
    <3>3. ASSUME NEW s \in routes', s.id = a.id PROVE s.phase = "consumed"
      <4>1. PICK r \in routes : s = IF r.id = a.id /\ r.phase = "pending"
                                    THEN [r EXCEPT !.phase = "consumed"] ELSE r
        BY <3>1
      <4>2. r \in Routes
        BY <1>0 DEF RoutesOK
      <4>3. r.id = a.id
        BY <3>3, <4>1, <4>2 DEF Routes
      <4>4. r.phase # "reserved"
        BY <3>2, <4>3 DEF Seen
      <4>5. QED BY <4>1, <4>2, <4>3, <4>4 DEF Routes
    <3>4. QED BY <3>3 DEF ServedNext
  <2>9. AckNext(b)
    BY <2>1, <2>2, <2>5, GoodStays, <1>0, <1>1, <2>8 DEF GoodAck, AckNext
  <2>10. /\ TargetNext(ui'.target) /\ TargetNext(ui'.answer)
         /\ \A k \in ui'.acks : AckNext(k)
         /\ \A p \in settled' : ServedNext(p[1])
    BY <2>4, <2>5, <2>6, <2>7, <2>9
  <2>11. QED BY <2>10, HandNext
<1>9. CASE UiStarts
  <2> DEFINE u == [ui EXCEPT !.ready = TRUE, !.gen = gen, !.in = session # None, !.items = tasks]
  <2>1. u \in Uis /\ u.target = ui.target /\ u.acks = ui.acks
    BY <1>0 DEF Uis, WorldOK
  <2>2. ui' = Reading(u)
    BY <1>9 DEF UiStarts
  <2> HIDE DEF u
  <2>3. QED BY <1>3, <1>9, <2>1, <2>2 DEF UiStarts, account, history
<1>10. CASE \E kind \in Kinds : Emit(kind)
  <2>1. UNCHANGED <<gen, who, located, settled>> /\ (ui' = ui \/ ui' = Reading(ui))
    BY <1>10 DEF Emit, account, history
  <2>2. QED BY <1>0, <1>3, <1>4, <2>1
<1>11. ASSUME NEW k \in DOMAIN auths, AuthArrives(k) PROVE InHand'
  <2>1. auths[k].gen \in Gens /\ auths[k].in \in BOOLEAN
    <3>1. auths[k] \in AuthEvents
      BY <1>0, <1>11, ElementOfSeq, LenProperties DEF MailOK
    <3>2. QED BY <3>1 DEF AuthEvents
  <2> DEFINE u == [Generation(auths[k]) EXCEPT !.in = auths[k].in]
  <2>2. u \in Uis /\ u.target = ui.target /\ u.acks = ui.acks
    BY <1>0, <2>1, GenerationKeeps DEF Uis
  <2>3. UNCHANGED <<gen, who, located, settled>> /\ (ui' = ui \/ ui' = Reading(u))
    BY <1>11 DEF AuthArrives, account, history
  <2> HIDE DEF u
  <2>4. QED BY <1>3, <1>4, <2>2, <2>3
<1>12. ASSUME NEW k \in DOMAIN snaps, SnapshotArrives(k) PROVE InHand'
  <2>1. snaps[k].gen \in Gens /\ snaps[k].items \subseteq Items
    <3>1. snaps[k] \in Snapshots
      BY <1>0, <1>12, ElementOfSeq, LenProperties DEF MailOK
    <3>2. QED BY <3>1 DEF Snapshots
  <2> DEFINE u == [Generation(snaps[k]) EXCEPT !.items = snaps[k].items]
  <2>2. u \in Uis /\ u.target = ui.target /\ u.acks = ui.acks
    BY <1>0, <2>1, GenerationKeeps DEF Uis
  <2>3. UNCHANGED <<gen, who, located, settled>> /\ (ui' = ui \/ ui' = Reading(u))
    BY <1>12 DEF SnapshotArrives, account, history
  <2> HIDE DEF u
  <2>4. QED BY <1>3, <1>4, <2>2, <2>3
<1>13. CASE ReadArrives
  <2> DEFINE t == IF ui.answer # None /\ ui.answer.gen = ui.gen THEN ui.answer ELSE None
  <2>1. ui' = [ui EXCEPT !.read = "none", !.answer = None, !.tried = FALSE, !.target = t]
    BY <1>13 DEF ReadArrives
  <2>2. t \in {ui.answer, None}
    OBVIOUS
  <2> HIDE DEF t
  <2>3. ui'.target = t /\ ui'.answer = None /\ ui'.acks = ui.acks
    BY <1>0, <2>1 DEF Uis
  <2>4. QED BY <1>2, <1>13, <2>2, <2>3 DEF ReadArrives, account, history
<1>14. CASE Navigate
  <2> DEFINE a == [id |-> ui.target.id, gen |-> ui.target.gen, state |-> "sent"]
  <2>1. /\ Current = ui.target /\ ui.target # None /\ ui.target \in ScrollTargets
        /\ GoodTarget(ui.target)
    BY <1>0, <1>14 DEF Navigate, Current, Uis, InHand
  <2>2. a \in Acks /\ a.id = ui.target.id /\ a.gen = ui.target.gen /\ a.state = "sent"
    BY <2>1 DEF ScrollTargets, Acks
  <2>3. /\ UNCHANGED <<gen, who, settled>>
        /\ located' = located \cup {<<ui.target.id, ui.target.gen>>}
    BY <1>14, <2>1 DEF Navigate, account
  <2>4. Remembers
    BY <1>0, <2>3 DEF Remembers
  <2>5. CASE ui' = [ui EXCEPT !.tried = TRUE]
    <3>1. ui'.target = ui.target /\ ui'.answer = ui.answer /\ ui'.acks = ui.acks
      BY <1>0, <2>5 DEF Uis
    <3>2. QED BY <1>0, <1>1, <2>3, <2>4, <3>1, NothingNew
  <2>6. CASE ui' = [Dropped(ui) EXCEPT !.tried = TRUE, !.acks = @ \cup {a}]
    <3>1. /\ Dropped(ui) \in Uis /\ Dropped(ui).answer = None
          /\ Dropped(ui).target = ui.target /\ Dropped(ui).acks = ui.acks
      BY <1>0, ReadingKeeps
    <3>2. /\ ui'.target = ui.target /\ ui'.answer = None /\ ui'.acks = ui.acks \cup {a}
      <4> HIDE DEF a
      <4>1. QED BY <2>6, <3>1 DEF Uis
    <3>3. TargetNext(ui.target) /\ TargetNext(None)
      BY <1>0, <1>1, <2>1, <2>3, <2>4, GoodStays DEF GoodTarget
    <3>4. (\A k \in ui.acks : AckNext(k)) /\ (\A p \in settled : ServedNext(p[1]))
      BY <1>0, <1>1, <2>4, GoodStays DEF InHand, Uis
    <3>5. SeenNext(ui.target.id)
      BY <1>0, <1>1, <2>1, <2>4, GoodStays DEF GoodTarget
    <3>6. <<ui.target.id, ui.target.gen>> \in located'
      BY <2>3
    <3> HIDE DEF a
    <3>7. AckNext(a)
      BY <2>2, <3>5, <3>6 DEF AckNext
    <3>8. /\ TargetNext(ui'.target) /\ TargetNext(ui'.answer)
          /\ \A k \in ui'.acks : AckNext(k)
          /\ \A p \in settled' : ServedNext(p[1])
      BY <2>3, <3>2, <3>3, <3>4, <3>7
    <3>9. QED BY <3>8, HandNext
  <2>7. QED BY <1>14, <2>1, <2>5, <2>6 DEF Navigate
<1>15. ASSUME NEW a \in ui.acks, AckArrives(a) PROVE InHand'
  <2> DEFINE rest == [ui EXCEPT !.acks = @ \ {a}]
             t == IF rest.target # None /\ rest.target.id = a.id /\ rest.target.gen = a.gen
                  THEN None ELSE rest.target
             u == [rest EXCEPT !.target = t]
             good == a.state = "ok" /\ ui.in /\ ui.gen = a.gen
  <2>1. /\ rest \in Uis /\ rest.target = ui.target /\ rest.answer = ui.answer
        /\ rest.acks \subseteq ui.acks
    BY <1>0 DEF Uis
  <2>2. UNCHANGED <<gen, who, located>>
    BY <1>15 DEF AckArrives, account
  <2>3. CASE ~good
    <3>1. ui' = rest /\ UNCHANGED settled
      BY <1>15, <2>3 DEF AckArrives
    <3> HIDE DEF rest
    <3>2. QED BY <1>2, <2>1, <2>2, <3>1
  <2>4. CASE good
    <3>1. ui' = Reading(u) /\ settled' = settled \cup {<<a.id, a.gen>>}
      BY <1>15, <2>4 DEF AckArrives, Acked
    <3>2. GoodAck(a) /\ a.state = "ok" /\ a \in Acks
      BY <1>0, <2>4 DEF InHand, Uis
    <3> HIDE DEF rest
    <3>3. t \in {ui.target, None} /\ t \in ScrollTargets \cup {None}
      BY <1>0, <2>1 DEF Uis
    <3>4. u \in Uis /\ u.target = t /\ u.acks \subseteq ui.acks
      <4> HIDE DEF t
      <4>1. QED BY <2>1, <3>3 DEF Uis
    <3>5. t # None => <<t.id, t.gen>> # <<a.id, a.gen>>
      BY <2>1
    <3> HIDE DEF t, u
    <3>6. ui'.answer = None /\ ui'.target = t /\ ui'.acks \subseteq ui.acks
      BY <3>1, <3>4, ReadingKeeps
    <3>7. Remembers
      BY <1>0, <2>2 DEF Remembers
    <3>8. GoodTarget(t) /\ (t # None => <<t.id, t.gen>> \notin settled')
      BY <1>0, <3>1, <3>3, <3>5 DEF InHand, GoodTarget
    <3>9. TargetNext(t) /\ TargetNext(None)
      BY <1>0, <1>1, <3>3, <3>7, <3>8, GoodStays DEF GoodTarget
    <3>10. \A k \in ui.acks : AckNext(k)
      BY <1>0, <1>1, <3>7, GoodStays DEF InHand, Uis
    <3>11. ServedNext(a.id) /\ \A p \in settled : ServedNext(p[1])
      BY <1>0, <1>1, <3>2, <3>7, GoodStays DEF InHand, GoodAck
    <3>12. /\ TargetNext(ui'.target) /\ TargetNext(ui'.answer)
           /\ \A k \in ui'.acks : AckNext(k)
           /\ \A p \in settled' : ServedNext(p[1])
      BY <3>1, <3>6, <3>9, <3>10, <3>11
    <3>13. QED BY <3>12, HandNext
  <2>5. QED BY <2>3, <2>4
<1>16. CASE \E a \in Accounts \cup {None} : Crash(a)
  <2>1. /\ ui'.target = None /\ ui'.answer = None /\ ui'.acks = {} /\ settled' = {}
    BY <1>16 DEF Crash, NoUi
  <2>2. TargetNext(None)
    BY DEF TargetNext
  <2>3. /\ TargetNext(ui'.target) /\ TargetNext(ui'.answer)
        /\ \A k \in ui'.acks : AckNext(k)
        /\ \A p \in settled' : ServedNext(p[1])
    BY <2>1, <2>2
  <2>4. QED BY <2>3, HandNext
<1>17. CASE \E id \in Ids, saved \in BOOLEAN : Click(id, saved)
  BY <1>4, <1>17 DEF Click, account, history
<1>18. CASE DataChanges
  BY <1>4, <1>18 DEF DataChanges, Delete, AdoptCloud, ChooseLocal, account, history
<1>19. CASE (\E a \in Accounts : Login(a)) \/ Logout
  <2>1. PICK a \in Accounts \cup {None} : NewSession(a)
    BY <1>19 DEF Login, Logout
  <2>2. Remembers
    BY <1>0, <2>1, BoundsAssumption DEF NewSession, Remembers, HistoryOK, Gens
  <2>3. QED BY <1>0, <1>1, <2>1, <2>2, NothingNew DEF NewSession
<1>20. CASE ImportStarts \/ ImportEnds
  BY <1>4, <1>20 DEF ImportStarts, ImportEnds, history
<1>21. QED BY <1>5, <1>6, <1>7, <1>8, <1>9, <1>10, <1>11, <1>12, <1>13, <1>14, <1>15, <1>16,
              <1>17, <1>18, <1>19, <1>20
           DEF Next, Process, View, Failures, Surroundings, DataChanges

\* The account of the generation.
LEMMA SessionKept ==
  ASSUME Consistent, Next
  PROVE  who'[gen'] = session'
<1> USE TypeParts
<1>1. WorldOK /\ HistoryOK /\ who[gen] = session
  BY DEF Consistent
<1>2. CASE UNCHANGED <<gen, who, session>>
  BY <1>1, <1>2
<1>3. CASE \E a \in Accounts \cup {None} : Crash(a)
  BY <1>1, <1>3, BoundsAssumption DEF Crash, Gens
<1>4. CASE (\E a \in Accounts : Login(a)) \/ Logout
  BY <1>1, <1>4, BoundsAssumption DEF Login, Logout, NewSession, WorldOK, HistoryOK, Gens
<1>5. CASE Process \/ (\E last \in 1 .. MaxIds + 1 : ReadFails(last))
           \/ (\E a \in ui.acks : AckRuns(a, FALSE))
  BY <1>2, <1>5 DEF Process, ReadRuns, ReadFails, StrayRuns, AckRuns, Emit, account, history
<1>6. CASE View
  BY <1>2, <1>6 DEF View, UiStarts, ReadArrives, Navigate, AckArrives, AuthArrives,
     SnapshotArrives, account, history
<1>7. CASE (\E id \in Ids, saved \in BOOLEAN : Click(id, saved)) \/ ImportStarts \/ ImportEnds
           \/ DataChanges
  BY <1>2, <1>7 DEF Click, ImportStarts, ImportEnds, DataChanges, Delete, AdoptCloud,
     ChooseLocal, account, history
<1>8. QED BY <1>3, <1>4, <1>5, <1>6, <1>7 DEF Next, Failures, Surroundings, DataChanges

-----------------------------------------------------------------------------
(* Theorems *)

\* The invariant holds at the start.
LEMMA InitConsistent == Init => Consistent
<1> SUFFICES ASSUME Init PROVE Consistent
  OBVIOUS
<1>1. PICK t \in [Ids -> Targets] :
        routes = {[id |-> k, target |-> t[k], phase |-> "reserved"] : k \in Ids}
  BY DEF Init
<1>2. RoutesOK /\ OwnIds
  <2>1. \A r \in routes : \E k \in Ids :
          r = [id |-> k, target |-> t[k], phase |-> "reserved"]
    BY <1>1
  <2>2. \A r \in routes : r \in Routes
    BY <2>1 DEF Routes
  <2>3. issued \in 0 .. MaxIds
    BY RoutesAssumption DEF Init
  <2>4. \A r, s \in routes : r.id = s.id => r = s
    BY <2>1
  <2>5. QED BY <2>2, <2>3, <2>4 DEF RoutesOK, OwnIds
<1>3. WorldOK /\ UiOK /\ MailOK
  <2>1. 0 \in Gens
    BY BoundsAssumption DEF Gens
  <2>2. WorldOK
    BY <2>1 DEF Init, WorldOK
  <2>3. NoUi \in Uis /\ NoUi.read = "none" /\ NoUi.answer = None
    BY <2>1 DEF NoUi, Uis
  <2>4. ui = NoUi /\ news = {} /\ auths = << >> /\ snaps = << >>
    BY DEF Init
  <2>5. QED BY <2>2, <2>3, <2>4, EmptySeq DEF UiOK, MailOK
<1>4. HistoryOK /\ MissedOK /\ BoundsOK
  <2>1. HistoryOK /\ BoundsOK
    BY BoundsAssumption, <1>3 DEF Init, HistoryOK, BoundsOK, WorldOK
  <2>2. MissedOK
    BY DEF Init, MissedOK
  <2>3. QED BY <2>1, <2>2
<1>5. InHand
  BY DEF Init, NoUi, InHand, GoodTarget
<1>6. who[gen] = session
  BY BoundsAssumption DEF Init, Gens
<1>7. QED BY <1>2, <1>3, <1>4, <1>5, <1>6, TypeParts DEF Consistent

\* Every step keeps the invariant.
LEMMA StepConsistent == Consistent /\ [Next]_vars => Consistent'
<1> SUFFICES ASSUME Consistent, [Next]_vars PROVE Consistent'
  OBVIOUS
<1>1. CASE Next
  <2>1. RoutesOK /\ OwnIds
    BY TypeParts DEF Consistent
  <2>2. RoutesOK' /\ OwnIds'
    BY <1>1, <2>1, StepEvolves
  <2>3. TypeOK'
    BY <1>1, <2>2, UiKept, RestKept, TypeParts DEF Consistent
  <2>4. QED BY <1>1, <2>2, <2>3, HandKept, SessionKept DEF Consistent
<1>2. CASE UNCHANGED vars
  BY <1>2 DEF Consistent, TypeOK, RoutesOK, OwnIds, InHand, GoodTarget, GoodAck, Private, Seen,
     Served, vars, data, account, mail, history, bounds
<1>3. QED BY <1>1, <1>2

\* The invariant holds in every state.
THEOREM Invariance == Spec => []Consistent
BY InitConsistent, StepConsistent, PTL DEF Spec

\* Every variable keeps its type, and a read that counts is out only while logged in
\* (useNotificationNavigation.ts:23-41).
THEOREM TypeCorrect == Spec => []TypeOK
<1>1. Consistent => TypeOK
  BY DEF Consistent
<1>2. QED BY <1>1, Invariance, PTL

\* Whatever the order of logins, events and answers, the task a click selects is one of
\* the account that the view is in (reminder.rs:366-369).
THEOREM TargetAlwaysPrivate == Spec => []TargetIsPrivate
<1>1. Consistent => TargetIsPrivate
  BY DEF Consistent, InHand, GoodTarget, Private, TargetIsPrivate, Current
<1>2. QED BY <1>1, Invariance, PTL

\* An acknowledged target never comes back (useNotificationNavigation.ts:43-55).
THEOREM NeverFlashback == Spec => []NoFlashback
<1>1. Consistent => NoFlashback
  BY DEF Consistent, InHand, GoodTarget, NoFlashback, Current
<1>2. QED BY <1>1, Invariance, PTL

\* Both.
THEOREM TargetAlwaysRight == Spec => []TargetIsRight
BY TargetAlwaysPrivate, NeverFlashback, PTL DEF TargetIsRight

\* A click is consumed only for a task that is gone, or after the view scrolled to it in
\* the session that acknowledges it (reminder.rs:384-428).
THEOREM ConsumedAlwaysLocated == Spec => ConsumedIsLocated
<1>1. ASSUME Consistent, Next, NEW r \in Pending, r \notin routes'
      PROVE  r.target.item \notin tasks \/ <<r.id, gen>> \in located
  <2>1. r \in routes /\ r.phase = "pending"
    BY DEF Pending
  <2>2. CASE routes' = routes
    BY <1>1, <2>1, <2>2
  <2>3. ASSUME NEW rs \in SUBSET Passed, Consume(rs) PROVE r.target.item \notin tasks
    <3>1. r \in rs
      BY <1>1, <2>1, <2>3 DEF Consume
    <3>2. QED BY <2>3, <3>1 DEF Passed
  <2>4. ASSUME NEW id \in Ids, NEW saved \in BOOLEAN, Click(id, saved)
        PROVE  r \in routes'
    <3>1. CASE saved
      <4>1. routes' = {IF q.id = id /\ q.phase = "reserved" THEN [q EXCEPT !.phase = "pending"]
                       ELSE q : q \in routes}
        BY <2>4, <3>1 DEF Click, Activate, Move
      <4>2. QED BY <2>1, <4>1
    <3>2. CASE ~saved
      BY <2>1, <2>4, <3>2 DEF Click
    <3>3. QED BY <3>1, <3>2
  <2>5. ASSUME NEW a \in ui.acks, NEW saved \in BOOLEAN, AckRuns(a, saved)
        PROVE  <<r.id, gen>> \in located
    <3>1. saved /\ Allowed(a)
      BY <1>1, <2>1, <2>5 DEF AckRuns
    <3>2. routes' = {IF q.id = a.id /\ q.phase = "pending" THEN [q EXCEPT !.phase = "consumed"]
                     ELSE q : q \in routes}
      BY <2>5, <3>1 DEF AckRuns, Acknowledge, Move
    <3>3. r.id = a.id
      BY <1>1, <2>1, <3>2
    <3>4. GoodAck(a)
      BY <1>1 DEF Consistent, InHand
    <3>5. QED BY <3>1, <3>3, <3>4 DEF Allowed, GoodAck
  <2>6. CASE ReadRuns \/ StrayRuns
    BY <2>3, <2>6 DEF ReadRuns, StrayRuns
  <2>7. ASSUME NEW last \in 1 .. MaxIds + 1, ReadFails(last) PROVE r.target.item \notin tasks
    <3>1. {q \in Passed : q.id < last} \in SUBSET Passed
      OBVIOUS
    <3>2. QED BY <2>3, <2>7, <3>1 DEF ReadFails
  <2>8. CASE \E kind \in Kinds : Emit(kind)
    BY <2>2, <2>8 DEF Emit
  <2>9. CASE View
    BY <2>2, <2>9 DEF View, UiStarts, ReadArrives, Navigate, AckArrives, AuthArrives,
       SnapshotArrives
  <2>10. CASE \E a \in Accounts \cup {None} : Crash(a)
    BY <2>2, <2>10 DEF Crash
  <2>11. CASE DataChanges
              \/ (\E a \in Accounts : Login(a)) \/ Logout \/ ImportStarts \/ ImportEnds
    BY <2>2, <2>11 DEF DataChanges, Delete, AdoptCloud, ChooseLocal, Login, Logout, NewSession,
       ImportStarts, ImportEnds
  <2>12. QED BY <1>1, <2>4, <2>5, <2>6, <2>7, <2>8, <2>9, <2>10, <2>11
             DEF Next, Process, Failures, Surroundings, DataChanges
<1>2. Consistent /\ [Next]_vars
        => [\A r \in Pending : r \notin routes' =>
              r.target.item \notin tasks \/ <<r.id, gen>> \in located]_vars
  BY <1>1
<1>3. QED BY <1>2, Invariance, PTL DEF Spec, ConsumedIsLocated

-----------------------------------------------------------------------------
(* What is on its way, and why a click that waits will be read *)

\* Events are of sessions that were, in their order, and true of the present one.
MailFits ==
  /\ ui.gen <= gen
  /\ \A i, j \in DOMAIN auths : i <= j => auths[i].gen <= auths[j].gen
  /\ \A i \in DOMAIN auths :
       auths[i].gen <= gen /\ (auths[i].gen = gen => auths[i].in = (session # None))
  /\ \A i \in DOMAIN snaps : snaps[i].gen <= gen

\* The view knows whether someone is logged in, or will hear of it.
AuthDue ==
  ui.ready => \/ "auth" \in news
              \/ \E i \in DOMAIN auths : auths[i].gen = gen
              \/ ui.gen = gen /\ (ui.in <=> session # None)

\* The last snapshot on its way is the state of the process, or else the view has it.
SnapshotDue ==
  "snapshot" \notin news =>
    IF snaps # <<>> THEN snaps[Len(snaps)] = [gen |-> gen, items |-> tasks]
    ELSE ui.ready => ui.gen = gen /\ ui.items = tasks

\* What the view holds of the present session was given out over that account's data, and
\* an acknowledgement of it that failed has been recorded.
Held ==
  /\ \A t \in {ui.target, ui.answer} \ {None} : t.gen = gen => owner = session
  /\ \A a \in ui.acks : Private(a) /\ (a.gen = gen => owner = session)
  /\ Refused => missed

\* Why the view will ask for the clicks that wait, or is busy with the first of them:
\* it is not in the session yet, an event is to come, an acknowledgement is on its way,
\* a read is out, or its answer or target has still to be scrolled to.
Cause ==
  \/ ~(ui.ready /\ ui.in /\ ui.gen = gen)
  \/ news \cap {"window", "snapshot"} # {} \/ snaps # <<>>
  \/ \E a \in ui.acks : a.gen = gen /\ a.state # "failed"
  \/ ui.read = "sent"
  \/ ui.read = "done" /\ ui.answer # None /\ ui.answer.gen = gen /\ ui.answer.item \in tasks
  \/ ui.read = "none" /\ ui.target # None /\ ui.target.gen = gen /\ ~ui.tried
       /\ ui.target.item \in tasks

Caused == ~missed /\ Mine # {} => Cause

\* All that is about events.
Channels == MailFits /\ AuthDue /\ SnapshotDue

\* The second invariant.
Tracked == Consistent /\ Channels /\ Held /\ Caused

-----------------------------------------------------------------------------
(* Reads, channels and the first click *)

\* A read that starts or is dropped leaves what the view knows alone.
LEMMA ReadingLeaves ==
  ASSUME NEW u \in Uis
  PROVE  /\ Dropped(u).ready = u.ready /\ Dropped(u).gen = u.gen /\ Dropped(u).in = u.in
         /\ Dropped(u).items = u.items /\ Dropped(u).tried = u.tried
         /\ Reading(u).ready = u.ready /\ Reading(u).gen = u.gen /\ Reading(u).in = u.in
         /\ Reading(u).items = u.items /\ Reading(u).tried = u.tried
         /\ (u.ready /\ u.in) => Reading(u).read = "sent"
<1>1. Dropped(u) = [u EXCEPT !.read = "none", !.answer = None, !.stray = @ \/ u.read = "sent"]
  BY DEF Dropped
<1>2. /\ Dropped(u) \in Uis
      /\ Dropped(u).ready = u.ready /\ Dropped(u).gen = u.gen /\ Dropped(u).in = u.in
      /\ Dropped(u).items = u.items /\ Dropped(u).tried = u.tried
  BY <1>1, ReadingKeeps DEF Uis
<1>3. CASE u.ready /\ u.in
  <2>1. Reading(u) = [Dropped(u) EXCEPT !.read = "sent"]
    BY <1>3 DEF Reading
  <2> HIDE DEF Reading, Dropped
  <2>2. QED BY <1>2, <1>3, <2>1 DEF Uis
<1>4. CASE ~(u.ready /\ u.in)
  BY <1>2, <1>4 DEF Reading
<1>5. QED BY <1>2, <1>3, <1>4

\* What remains of a channel after its k-th event.
LEMMA Cut ==
  ASSUME NEW S, NEW s \in Seq(S), NEW k \in DOMAIN s
  PROVE  /\ k \in 1 .. Len(s) /\ DOMAIN s = 1 .. Len(s) /\ Len(s) \in Nat
         /\ SubSeq(s, k + 1, Len(s)) \in Seq(S)
         /\ Len(SubSeq(s, k + 1, Len(s))) = Len(s) - k
         /\ DOMAIN SubSeq(s, k + 1, Len(s)) = 1 .. Len(s) - k
         /\ \A i \in 1 .. Len(s) - k : i + k \in DOMAIN s /\ SubSeq(s, k + 1, Len(s))[i] = s[i + k]
<1>1. DOMAIN s = 1 .. Len(s) /\ Len(s) \in Nat /\ \A i \in DOMAIN s : s[i] \in S
  BY LenProperties, ElementOfSeq
<1>2. k \in 1 .. Len(s) /\ k + 1 \in Int /\ Len(s) \in Int /\ \A i \in k + 1 .. Len(s) : s[i] \in S
  BY <1>1
<1>3. /\ SubSeq(s, k + 1, Len(s)) \in Seq(S)
      /\ Len(SubSeq(s, k + 1, Len(s))) = IF k + 1 <= Len(s) THEN Len(s) - (k + 1) + 1 ELSE 0
      /\ \A i \in 1 .. Len(s) - (k + 1) + 1 : SubSeq(s, k + 1, Len(s))[i] = s[k + 1 + i - 1]
  BY <1>2, SubSeqProperties
<1>4. Len(s) - (k + 1) + 1 = Len(s) - k /\ (k + 1 <= Len(s) \/ Len(s) - k = 0)
  BY <1>1, <1>2
<1>5. Len(SubSeq(s, k + 1, Len(s))) = Len(s) - k
  BY <1>3, <1>4
<1>6. DOMAIN SubSeq(s, k + 1, Len(s)) = 1 .. Len(s) - k
  BY <1>3, <1>5, LenProperties
<1>7. ASSUME NEW i \in 1 .. Len(s) - k
      PROVE  i + k \in DOMAIN s /\ SubSeq(s, k + 1, Len(s))[i] = s[i + k]
  <2>1. i + k \in 1 .. Len(s) /\ k + 1 + i - 1 = i + k
    BY <1>1, <1>2
  <2>2. QED BY <1>1, <1>3, <1>4, <2>1
<1>8. QED BY <1>1, <1>2, <1>3, <1>5, <1>6, <1>7

\* A set of numbered clicks has a first.
LEMMA FirstExists ==
  ASSUME RoutesOK, OwnIds, First = {}
  PROVE  \A r \in Mine : r.target.item \notin tasks /\ r \in Passed
<1> DEFINE Good == {r \in Mine : r.target.item \in tasks}
           Numbers == {r.id : r \in Good}
<1>1. \A r \in Mine : r \in Routes /\ r.id \in Nat
  BY DEF Mine, Pending, RoutesOK, Routes, Ids
<1>2. Good = {}
  <2> SUFFICES ASSUME Good # {} PROVE FALSE
    OBVIOUS
  <2>1. Numbers \subseteq Nat /\ Numbers # {}
    BY <1>1
  <2> HIDE DEF Numbers
  <2>2. PICK n \in Numbers : \A m \in Numbers : ~(<<m, n>> \in OpToRel(<, Nat))
    BY <2>1, NatLessThanWellFounded, WFMin
  <2>3. \A m \in Numbers : ~(m < n)
    BY <2>1, <2>2 DEF OpToRel
  <2>4. PICK r \in Good : r.id = n
    BY <2>2 DEF Numbers
  <2>5. \A s \in Good : s.id \in Numbers /\ s.id \in Nat /\ r.id \in Nat
    BY <1>1, <2>4 DEF Numbers
  <2>6. \A s \in Good : r.id <= s.id
    BY <2>3, <2>4, <2>5
  <2>7. r \in First
    BY <2>4, <2>6 DEF First
  <2>8. QED BY <2>7
<1>3. QED BY <1>2 DEF Passed

-----------------------------------------------------------------------------
(* The channels *)

\* The view hears nothing, and what was about to be emitted still is.
Unheard ==
  /\ UNCHANGED <<gen, session, auths, snaps>>
  /\ ui'.ready = ui.ready /\ ui'.gen = ui.gen /\ ui'.in = ui.in /\ ui'.items = ui.items
  /\ news \cap {"auth", "snapshot"} \subseteq news'
  /\ "snapshot" \in news' \/ tasks' = tasks

\* A step unheard leaves the channels in order.
LEMMA UnheardKeeps ==
  ASSUME Channels, Unheard
  PROVE  Channels'
<1>1. MailFits'
  BY DEF Channels, Unheard, MailFits
<1>2. AuthDue'
  BY DEF Channels, Unheard, AuthDue
<1>3. SnapshotDue'
  BY DEF Channels, Unheard, SnapshotDue
<1>4. QED BY <1>1, <1>2, <1>3 DEF Channels

\* The events that the view hears of, and the ends of sessions and processes.
Loud ==
  \/ UiStarts \/ Emit("auth") \/ Emit("snapshot")
  \/ \E k \in DOMAIN auths : AuthArrives(k)
  \/ \E k \in DOMAIN snaps : SnapshotArrives(k)
  \/ \E a \in Accounts \cup {None} : Crash(a) \/ NewSession(a)

\* All other steps are unheard.
LEMMA Unheards ==
  ASSUME TypeOK, Next, ~Loud
  PROVE  Unheard
<1> USE TypeParts
<1>0. ui \in Uis
  BY DEF UiOK
<1>1. CASE ReadRuns
  <2>1. PICK t : ui' = [ui EXCEPT !.read = "done", !.answer = t]
    BY <1>1 DEF ReadRuns
  <2>2. ui'.ready = ui.ready /\ ui'.gen = ui.gen /\ ui'.in = ui.in /\ ui'.items = ui.items
    BY <1>0, <2>1 DEF Uis
  <2>3. QED BY <1>1, <2>2 DEF ReadRuns, Unheard, data, account, mail
<1>2. CASE StrayRuns
  BY <1>0, <1>2 DEF StrayRuns, Uis, Unheard, data, account, mail
<1>3. CASE \E last \in 1 .. MaxIds + 1 : ReadFails(last)
  BY <1>0, <1>3 DEF ReadFails, Uis, Unheard, data, account, mail
<1>4. ASSUME NEW a \in ui.acks, NEW saved \in BOOLEAN, AckRuns(a, saved) PROVE Unheard
  <2>1. PICK as : ui' = [ui EXCEPT !.acks = as]
    BY <1>4 DEF AckRuns
  <2>2. ui'.ready = ui.ready /\ ui'.gen = ui.gen /\ ui'.in = ui.in /\ ui'.items = ui.items
    BY <1>0, <2>1 DEF Uis
  <2>3. QED BY <1>4, <2>2 DEF AckRuns, Unheard, data, account, mail
<1>5. CASE Emit("window")
  BY <1>0, <1>5, ReadingLeaves DEF Emit, Unheard, data, account
<1>6. CASE ReadArrives
  <2>1. PICK t : ui' = [ui EXCEPT !.read = "none", !.answer = None, !.tried = FALSE, !.target = t]
    BY <1>6 DEF ReadArrives
  <2>2. ui'.ready = ui.ready /\ ui'.gen = ui.gen /\ ui'.in = ui.in /\ ui'.items = ui.items
    BY <1>0, <2>1 DEF Uis
  <2>3. QED BY <1>6, <2>2 DEF ReadArrives, Unheard, data, account, mail
<1>7. CASE Navigate
  <2>1. \/ ui' = [ui EXCEPT !.tried = TRUE]
        \/ \E as : ui' = [Dropped(ui) EXCEPT !.tried = TRUE, !.acks = as]
    BY <1>7 DEF Navigate
  <2>2. CASE ui' = [ui EXCEPT !.tried = TRUE]
    BY <1>0, <1>7, <2>2 DEF Uis, Navigate, Unheard, data, account, mail
  <2>3. CASE \E as : ui' = [Dropped(ui) EXCEPT !.tried = TRUE, !.acks = as]
    <3>1. PICK as : ui' = [Dropped(ui) EXCEPT !.tried = TRUE, !.acks = as]
      BY <2>3
    <3>2. Dropped(ui) \in Uis
      BY <1>0, ReadingKeeps
    <3>3. /\ ui'.ready = Dropped(ui).ready /\ ui'.gen = Dropped(ui).gen
          /\ ui'.in = Dropped(ui).in /\ ui'.items = Dropped(ui).items
      BY <3>1, <3>2 DEF Uis
    <3>4. QED BY <1>0, <1>7, <3>3, ReadingLeaves DEF Navigate, Unheard, data, account, mail
  <2>4. QED BY <2>1, <2>2, <2>3
<1>8. ASSUME NEW a \in ui.acks, AckArrives(a) PROVE Unheard
  <2> DEFINE rest == [ui EXCEPT !.acks = @ \ {a}]
             t == IF rest.target # None /\ rest.target.id = a.id /\ rest.target.gen = a.gen
                  THEN None ELSE rest.target
             u == [rest EXCEPT !.target = t]
  <2>1. /\ rest \in Uis
        /\ rest.ready = ui.ready /\ rest.gen = ui.gen /\ rest.in = ui.in /\ rest.items = ui.items
    BY <1>0 DEF Uis
  <2>2. ui' = rest \/ ui' = Reading(u)
    BY <1>8 DEF AckArrives, Acked
  <2> HIDE DEF rest
  <2>3. t \in ScrollTargets \cup {None}
    BY <2>1 DEF Uis
  <2> HIDE DEF t
  <2>4. /\ u \in Uis
        /\ u.ready = ui.ready /\ u.gen = ui.gen /\ u.in = ui.in /\ u.items = ui.items
    BY <2>1, <2>3 DEF Uis
  <2> HIDE DEF u
  <2>5. ui'.ready = ui.ready /\ ui'.gen = ui.gen /\ ui'.in = ui.in /\ ui'.items = ui.items
    BY <2>1, <2>2, <2>4, ReadingLeaves
  <2>6. QED BY <1>8, <2>5 DEF AckArrives, Unheard, data, account, mail
<1>9. CASE \E id \in Ids, saved \in BOOLEAN : Click(id, saved)
  BY <1>9 DEF Click, Tell, Unheard, data, account
<1>10. CASE DataChanges
  BY <1>10 DEF DataChanges, Delete, AdoptCloud, ChooseLocal, Tell, Unheard, account, mail
<1>11. CASE ImportStarts \/ ImportEnds
  BY <1>11 DEF ImportStarts, ImportEnds, Tell, Unheard, data
<1>12. QED
  BY <1>1, <1>2, <1>3, <1>4, <1>5, <1>6, <1>7, <1>8, <1>9, <1>10, <1>11
  DEF Next, Process, View, Failures, Surroundings, DataChanges, Kinds, Loud, Login, Logout

\* Every step keeps the channels in order: what is emitted is the state of the moment, and
\* what an event takes away with it is older than the event.
LEMMA ChannelsKept ==
  ASSUME Consistent, Channels, Next
  PROVE  Channels'
<1> USE TypeParts
<1>0. TypeOK /\ ui \in Uis /\ gen \in Nat /\ gen \in Gens /\ 0 \in Gens
  BY BoundsAssumption DEF Consistent, UiOK, WorldOK, Gens
<1>1. CASE ~Loud
  BY <1>0, <1>1, Unheards, UnheardKeeps
<1>2. CASE UiStarts
  <2> DEFINE u == [ui EXCEPT !.ready = TRUE, !.gen = gen, !.in = session # None, !.items = tasks]
  <2>1. u \in Uis /\ u.gen = gen /\ (u.in <=> session # None) /\ u.items = tasks
    BY <1>0 DEF Uis, WorldOK
  <2>2. ui' = Reading(u)
    BY <1>2 DEF UiStarts
  <2> HIDE DEF u
  <2>3. ui'.gen = gen /\ (ui'.in <=> session # None) /\ ui'.items = tasks
    BY <2>1, <2>2, ReadingLeaves
  <2>4. UNCHANGED <<gen, session, auths, snaps, news, tasks>>
    BY <1>2 DEF UiStarts, account, mail, data
  <2>5. MailFits'
    BY <1>0, <2>3, <2>4 DEF MailFits, Channels
  <2>6. AuthDue' /\ SnapshotDue'
    BY <2>3, <2>4 DEF AuthDue, SnapshotDue, Channels
  <2>7. QED BY <2>5, <2>6 DEF Channels
<1>3. CASE Emit("auth")
  <2> DEFINE e == [gen |-> gen, in |-> session # None]
  <2>1. e \in AuthEvents /\ e.gen = gen /\ e.in = (session # None)
    BY <1>0 DEF AuthEvents
  <2>2. auths \in Seq(AuthEvents) /\ auths' = Append(auths, e)
    BY <1>0, <1>3 DEF Emit, MailOK
  <2>3. UNCHANGED <<gen, session, snaps, tasks, ui>> /\ news' = news \ {"auth"}
    BY <1>3 DEF Emit, account, data
  <2> HIDE DEF e
  <2>4. /\ DOMAIN auths' = 1 .. Len(auths) + 1 /\ DOMAIN auths = 1 .. Len(auths)
        /\ Len(auths) \in Nat /\ auths'[Len(auths) + 1] = e
        /\ \A i \in DOMAIN auths : auths'[i] = auths[i]
    BY <2>1, <2>2, AppendProperties, LenProperties
  <2>5. MailFits'
    <3>1. \A i \in DOMAIN auths' : auths'[i].gen <= gen /\
                                   (auths'[i].gen = gen => auths'[i].in = (session # None))
      <4> SUFFICES ASSUME NEW i \in DOMAIN auths'
                   PROVE  auths'[i].gen <= gen /\
                          (auths'[i].gen = gen => auths'[i].in = (session # None))
        OBVIOUS
      <4>1. CASE i \in DOMAIN auths
        BY <2>4, <4>1 DEF Channels, MailFits
      <4>2. CASE i = Len(auths) + 1
        BY <1>0, <2>1, <2>4, <4>2
      <4>3. QED BY <2>4, <4>1, <4>2
    <3>2. \A i, j \in DOMAIN auths' : i <= j => auths'[i].gen <= auths'[j].gen
      <4> SUFFICES ASSUME NEW i \in DOMAIN auths', NEW j \in DOMAIN auths', i <= j
                   PROVE  auths'[i].gen <= auths'[j].gen
        OBVIOUS
      <4>1. CASE j = Len(auths) + 1
        BY <2>1, <2>4, <3>1, <4>1
      <4>2. CASE j \in DOMAIN auths
        <5>1. i \in DOMAIN auths
          BY <2>4, <4>2
        <5>2. QED BY <2>4, <4>2, <5>1 DEF Channels, MailFits
      <4>3. QED BY <2>4, <4>1, <4>2
    <3>3. QED BY <2>3, <3>1, <3>2 DEF Channels, MailFits
  <2>6. AuthDue'
    <3>1. Len(auths) + 1 \in DOMAIN auths' /\ auths'[Len(auths) + 1].gen = gen
      BY <2>1, <2>4
    <3>2. QED BY <2>3, <3>1 DEF AuthDue
  <2>7. SnapshotDue'
    BY <2>3 DEF Channels, SnapshotDue
  <2>8. QED BY <2>5, <2>6, <2>7 DEF Channels
<1>4. CASE Emit("snapshot")
  <2> DEFINE e == [gen |-> gen, items |-> tasks]
  <2>1. e \in Snapshots /\ e.gen = gen
    BY <1>0 DEF Snapshots, WorldOK
  <2>2. snaps \in Seq(Snapshots) /\ snaps' = Append(snaps, e)
    BY <1>0, <1>4 DEF Emit, MailOK
  <2>3. UNCHANGED <<gen, session, auths, tasks, ui>> /\ news' = news \ {"snapshot"}
    BY <1>4 DEF Emit, account, data
  <2>4. snaps' # <<>> /\ Len(snaps') \in Nat /\ snaps'[Len(snaps')] = [gen |-> gen, items |-> tasks]
    BY <2>1, <2>2, AppendProperties, LenProperties
  <2> HIDE DEF e
  <2>5. /\ DOMAIN snaps' = 1 .. Len(snaps) + 1 /\ DOMAIN snaps = 1 .. Len(snaps)
        /\ Len(snaps) \in Nat /\ snaps'[Len(snaps) + 1] = e
        /\ \A i \in DOMAIN snaps : snaps'[i] = snaps[i]
    BY <2>1, <2>2, AppendProperties, LenProperties
  <2>6. \A i \in DOMAIN snaps' : snaps'[i].gen <= gen
    BY <1>0, <2>1, <2>5 DEF Channels, MailFits
  <2>7. MailFits'
    BY <2>3, <2>6 DEF Channels, MailFits
  <2>8. AuthDue' /\ SnapshotDue'
    BY <2>3, <2>4 DEF Channels, AuthDue, SnapshotDue
  <2>9. QED BY <2>7, <2>8 DEF Channels
<1>5. ASSUME NEW k \in DOMAIN auths, AuthArrives(k) PROVE Channels'
  <2> DEFINE n == Len(auths) - k
             e == auths[k]
             u == [Generation(e) EXCEPT !.in = e.in]
  <2>1. auths \in Seq(AuthEvents) /\ auths' = SubSeq(auths, k + 1, Len(auths))
    BY <1>0, <1>5 DEF AuthArrives, MailOK
  <2>2. /\ k \in 1 .. Len(auths) /\ DOMAIN auths = 1 .. Len(auths) /\ Len(auths) \in Nat
        /\ DOMAIN auths' = 1 .. n
        /\ \A i \in 1 .. n : i + k \in DOMAIN auths /\ auths'[i] = auths[i + k]
    BY <2>1, Cut
  <2>3. e.gen \in Gens /\ e.in \in BOOLEAN /\ e.gen <= gen
        /\ (e.gen = gen => e.in = (session # None))
    <3>1. e \in AuthEvents
      BY <2>1, <2>2, ElementOfSeq
    <3>2. QED BY <3>1 DEF Channels, MailFits, AuthEvents
  <2>4. UNCHANGED <<gen, session, snaps, news, tasks>>
    BY <1>5 DEF AuthArrives, account, data
  <2>5. \/ ui' = ui /\ e.gen < ui.gen
        \/ ui' = ui /\ e.gen = ui.gen /\ e.in = ui.in
        \/ ui' = Reading(u) /\ ~(e.gen < ui.gen)
    <3>1. e = [gen |-> ui.gen, in |-> ui.in] => e.gen = ui.gen /\ e.in = ui.in
      OBVIOUS
    <3>2. \/ ui' = ui /\ e.gen < ui.gen
          \/ ui' = ui /\ e = [gen |-> ui.gen, in |-> ui.in]
          \/ ui' = Reading(u) /\ ~(e.gen < ui.gen)
      BY <1>5 DEF AuthArrives
    <3> HIDE DEF e, u
    <3>3. QED BY <3>1, <3>2
  <2>6. u \in Uis /\ u.ready = ui.ready /\ u.in = e.in
        /\ u.gen = (IF e.gen > ui.gen THEN e.gen ELSE ui.gen)
        /\ (~(e.gen > ui.gen) => u.items = ui.items)
    <3> HIDE DEF e
    <3>1. CASE e.gen > ui.gen
      BY <1>0, <2>3, <3>1 DEF Generation, Uis
    <3>2. CASE ~(e.gen > ui.gen)
      BY <1>0, <2>3, <3>2 DEF Generation, Uis
    <3>3. QED BY <3>1, <3>2
  <2> HIDE DEF u
  <2>7. ui.gen \in Nat /\ e.gen \in Nat /\ ui.gen <= gen
    BY <1>0, <2>3 DEF Uis, Gens, Channels, MailFits
  <2>8. \/ ui' = ui /\ e.gen < ui.gen
        \/ /\ ui'.ready = ui.ready /\ ui'.gen = e.gen /\ ui'.in = e.in /\ ui.gen <= e.gen
           /\ (e.gen = ui.gen => ui'.items = ui.items)
    BY <2>5, <2>6, <2>7, ReadingLeaves
  <2>9. MailFits'
    <3>1. ui'.gen <= gen
      BY <2>3, <2>7, <2>8
    <3>2. \A i \in DOMAIN auths' :
            auths'[i].gen <= gen /\ (auths'[i].gen = gen => auths'[i].in = (session # None))
      BY <2>2 DEF Channels, MailFits
    <3>3. ASSUME NEW i \in DOMAIN auths', NEW j \in DOMAIN auths', i <= j
          PROVE  auths'[i].gen <= auths'[j].gen
      <4>1. i + k \in DOMAIN auths /\ j + k \in DOMAIN auths /\ i + k <= j + k
            /\ auths'[i] = auths[i + k] /\ auths'[j] = auths[j + k]
        BY <2>2, <3>3
      <4>2. QED BY <4>1 DEF Channels, MailFits
    <3>4. QED BY <2>4, <3>1, <3>2, <3>3 DEF Channels, MailFits
  <2>10. AuthDue'
    <3> SUFFICES ASSUME ui'.ready, "auth" \notin news,
                        \A i \in DOMAIN auths' : auths'[i].gen # gen
                 PROVE  ui'.gen = gen /\ (ui'.in <=> session # None)
      BY <2>4 DEF AuthDue
    <3>1. ui.ready
      BY <2>8
    <3>2. CASE \E i \in DOMAIN auths : auths[i].gen = gen
      <4>1. PICK i \in DOMAIN auths : auths[i].gen = gen
        BY <3>2
      <4>2. i <= k
        <5> SUFFICES ASSUME i > k PROVE FALSE
          BY <2>2
        <5>1. i - k \in DOMAIN auths' /\ auths'[i - k] = auths[i - k + k] /\ i - k + k = i
          BY <2>2
        <5>2. QED BY <4>1, <5>1
      <4>3. auths[i].gen <= e.gen
        BY <4>1, <4>2 DEF Channels, MailFits
      <4>4. e.gen = gen
        BY <1>0, <2>3, <2>7, <4>1, <4>3
      <4>5. ~(e.gen < ui.gen)
        BY <1>0, <2>7, <4>4
      <4>6. ui'.gen = gen /\ ui'.in = e.in
        BY <2>8, <4>4, <4>5
      <4>7. QED BY <2>3, <4>4, <4>6
    <3>3. CASE ui.gen = gen /\ (ui.in <=> session # None)
      <4>1. CASE ui' = ui
        BY <3>3, <4>1
      <4>2. CASE ui' # ui
        <5>1. e.gen = gen /\ ui'.gen = e.gen /\ ui'.in = e.in
          <6>1. ui'.gen = e.gen /\ ui'.in = e.in /\ ui.gen <= e.gen
            BY <2>8, <4>2
          <6>2. e.gen = gen
            BY <1>0, <2>3, <2>7, <3>3, <6>1
          <6>3. QED BY <6>1, <6>2
        <5>2. QED BY <2>3, <5>1
      <4>3. QED BY <4>1, <4>2
    <3>4. QED BY <3>1, <3>2, <3>3 DEF Channels, AuthDue
  <2>11. SnapshotDue'
    <3> SUFFICES ASSUME "snapshot" \notin news, snaps = <<>>, ui'.ready
                 PROVE  ui'.gen = gen /\ ui'.items = tasks
      BY <2>4 DEF Channels, SnapshotDue
    <3>1. ui.ready
      BY <2>8
    <3>2. ui.gen = gen /\ ui.items = tasks
      BY <3>1 DEF Channels, SnapshotDue
    <3>3. CASE ui' = ui
      BY <3>2, <3>3
    <3>4. CASE ui' # ui
      <4>1. ui'.gen = e.gen /\ ui.gen <= e.gen /\ (e.gen = ui.gen => ui'.items = ui.items)
        BY <2>8, <3>4
      <4>2. e.gen = gen
        BY <1>0, <2>3, <2>7, <3>2, <4>1
      <4>3. QED BY <3>2, <4>1, <4>2
    <3>5. QED BY <3>3, <3>4
  <2>12. QED BY <2>9, <2>10, <2>11 DEF Channels
<1>6. ASSUME NEW k \in DOMAIN snaps, SnapshotArrives(k) PROVE Channels'
  <2> DEFINE n == Len(snaps) - k
             e == snaps[k]
             u == [Generation(e) EXCEPT !.items = e.items]
  <2>1. snaps \in Seq(Snapshots) /\ snaps' = SubSeq(snaps, k + 1, Len(snaps))
    BY <1>0, <1>6 DEF SnapshotArrives, MailOK
  <2>2. /\ k \in 1 .. Len(snaps) /\ DOMAIN snaps = 1 .. Len(snaps) /\ Len(snaps) \in Nat
        /\ Len(snaps') = n /\ DOMAIN snaps' = 1 .. n
        /\ \A i \in 1 .. n : i + k \in DOMAIN snaps /\ snaps'[i] = snaps[i + k]
    BY <2>1, Cut
  <2>3. e.gen \in Gens /\ e.items \subseteq Items /\ e.gen <= gen
    <3>1. e \in Snapshots
      BY <2>1, <2>2, ElementOfSeq
    <3>2. QED BY <3>1 DEF Channels, MailFits, Snapshots
  <2>4. UNCHANGED <<gen, session, auths, news, tasks>>
    BY <1>6 DEF SnapshotArrives, account, data
  <2>5. \/ ui' = ui /\ e.gen < ui.gen
        \/ ui' = Reading(u) /\ ~(e.gen < ui.gen)
    BY <1>6 DEF SnapshotArrives
  <2>6. u \in Uis /\ u.ready = ui.ready /\ u.items = e.items
        /\ u.gen = (IF e.gen > ui.gen THEN e.gen ELSE ui.gen)
        /\ (~(e.gen > ui.gen) => u.in = ui.in)
    <3> HIDE DEF e
    <3>1. CASE e.gen > ui.gen
      BY <1>0, <2>3, <3>1 DEF Generation, Uis
    <3>2. CASE ~(e.gen > ui.gen)
      BY <1>0, <2>3, <3>2 DEF Generation, Uis
    <3>3. QED BY <3>1, <3>2
  <2> HIDE DEF u
  <2>7. ui.gen \in Nat /\ e.gen \in Nat /\ ui.gen <= gen
    BY <1>0, <2>3 DEF Uis, Gens, Channels, MailFits
  <2>8. \/ ui' = ui /\ e.gen < ui.gen
        \/ /\ ui'.ready = ui.ready /\ ui'.gen = e.gen /\ ui'.items = e.items /\ ui.gen <= e.gen
           /\ (e.gen = ui.gen => ui'.in = ui.in)
    BY <2>5, <2>6, <2>7, ReadingLeaves
  <2>9. MailFits'
    <3>1. ui'.gen <= gen
      BY <2>3, <2>7, <2>8
    <3>2. \A i \in DOMAIN snaps' : snaps'[i].gen <= gen
      BY <2>2 DEF Channels, MailFits
    <3>3. QED BY <2>4, <3>1, <3>2 DEF Channels, MailFits
  <2>10. AuthDue'
    <3> SUFFICES ASSUME ui'.ready, "auth" \notin news,
                        \A i \in DOMAIN auths : auths[i].gen # gen
                 PROVE  ui'.gen = gen /\ (ui'.in <=> session # None)
      BY <2>4 DEF AuthDue
    <3>1. ui.ready
      BY <2>8
    <3>2. ui.gen = gen /\ (ui.in <=> session # None)
      BY <3>1 DEF Channels, AuthDue
    <3>3. CASE ui' = ui
      BY <3>2, <3>3
    <3>4. CASE ui' # ui
      <4>1. ui'.gen = e.gen /\ ui.gen <= e.gen /\ (e.gen = ui.gen => ui'.in = ui.in)
        BY <2>8, <3>4
      <4>2. e.gen = gen
        BY <1>0, <2>3, <2>7, <3>2, <4>1
      <4>3. QED BY <3>2, <4>1, <4>2
    <3>5. QED BY <3>3, <3>4
  <2>11. SnapshotDue'
    <3> SUFFICES ASSUME "snapshot" \notin news
                 PROVE  IF snaps' # <<>> THEN snaps'[Len(snaps')] = [gen |-> gen, items |-> tasks]
                        ELSE ui'.ready => ui'.gen = gen /\ ui'.items = tasks
      BY <2>4 DEF SnapshotDue
    <3>1. snaps # <<>> /\ snaps[Len(snaps)] = [gen |-> gen, items |-> tasks]
      <4>1. snaps # <<>>
        BY <2>2
      <4>2. QED BY <4>1 DEF Channels, SnapshotDue
    <3>2. CASE snaps' # <<>>
      <4>1. n \in 1 .. n
        <5>1. snaps' \in Seq(Snapshots)
          BY <2>1, Cut
        <5>2. Len(snaps') # 0
          BY <3>2, <5>1, EmptySeq
        <5>3. QED BY <2>2, <5>2
      <4>2. snaps'[n] = snaps[n + k] /\ n + k = Len(snaps)
        BY <2>2, <4>1
      <4>3. QED BY <2>2, <3>1, <3>2, <4>2
    <3>3. CASE snaps' = <<>>
      <4>1. n = 0
        BY <2>2, <3>3
      <4>2. e = [gen |-> gen, items |-> tasks]
        BY <2>2, <3>1, <4>1
      <4>3. QED BY <1>0, <2>7, <2>8, <3>3, <4>2
    <3>4. QED BY <3>2, <3>3
  <2>12. QED BY <2>9, <2>10, <2>11 DEF Channels
<1>7. ASSUME NEW a \in Accounts \cup {None}, NewSession(a) PROVE Channels'
  <2>1. /\ gen' = gen + 1 /\ {"auth", "snapshot"} \subseteq news'
        /\ UNCHANGED <<auths, snaps, ui>>
    BY <1>7 DEF NewSession, Tell
  <2>2. \A i \in DOMAIN auths : auths[i].gen \in Nat
    <3>1. \A i \in DOMAIN auths : auths[i] \in AuthEvents
      BY <1>0, ElementOfSeq, LenProperties DEF MailOK
    <3>2. QED BY <3>1 DEF AuthEvents, Gens
  <2>3. \A i \in DOMAIN snaps : snaps[i].gen \in Nat
    <3>1. \A i \in DOMAIN snaps : snaps[i] \in Snapshots
      BY <1>0, ElementOfSeq, LenProperties DEF MailOK
    <3>2. QED BY <3>1 DEF Snapshots, Gens
  <2>4. ui.gen \in Nat
    BY <1>0 DEF Uis, Gens
  <2>5. ui'.gen <= gen'
    BY <1>0, <2>1, <2>4 DEF Channels, MailFits
  <2>6. \A i \in DOMAIN auths' : auths'[i].gen <= gen' /\ auths'[i].gen # gen'
    BY <1>0, <2>1, <2>2 DEF Channels, MailFits
  <2>7. \A i \in DOMAIN snaps' : snaps'[i].gen <= gen'
    BY <1>0, <2>1, <2>3 DEF Channels, MailFits
  <2>8. MailFits'
    BY <2>1, <2>5, <2>6, <2>7 DEF Channels, MailFits
  <2>9. AuthDue' /\ SnapshotDue'
    BY <2>1 DEF AuthDue, SnapshotDue
  <2>10. QED BY <2>8, <2>9 DEF Channels
<1>8. ASSUME NEW a \in Accounts \cup {None}, Crash(a) PROVE Channels'
  <2>1. /\ gen' = 0 /\ auths' = <<>> /\ snaps' = <<>> /\ ui'.ready = FALSE /\ ui'.gen = 0
    BY <1>8 DEF Crash, NoUi
  <2>2. DOMAIN auths' = {} /\ DOMAIN snaps' = {}
    BY <2>1
  <2>3. MailFits'
    BY <2>1, <2>2 DEF MailFits
  <2>4. AuthDue' /\ SnapshotDue'
    BY <2>1 DEF AuthDue, SnapshotDue
  <2>5. QED BY <2>3, <2>4 DEF Channels
<1>9. QED BY <1>1, <1>2, <1>3, <1>4, <1>5, <1>6, <1>7, <1>8 DEF Loud

-----------------------------------------------------------------------------
(* What the view holds of the present session *)

\* Only a crash makes the process forget.
LEMMA Remembered ==
  ASSUME Consistent, Next, \A a \in Accounts \cup {None} : ~Crash(a)
  PROVE  Remembers
<1> USE TypeParts
<1>0. gen \in Nat /\ gen <= gen /\ HistoryOK
  BY DEF Consistent, WorldOK, Gens
<1>1. CASE UNCHANGED <<gen, who, located>>
  BY <1>0, <1>1 DEF Remembers
<1>2. CASE Navigate
  BY <1>0, <1>2 DEF Navigate, Remembers, account
<1>3. ASSUME NEW a \in Accounts \cup {None}, NewSession(a) PROVE Remembers
  <2>1. /\ gen' = gen + 1 /\ who' = [who EXCEPT ![gen + 1] = a] /\ located' = located
    BY <1>3 DEF NewSession
  <2>2. \A g \in Gens : g <= gen => who'[g] = who[g]
    BY <1>0, <2>1 DEF HistoryOK, Gens
  <2>3. QED BY <1>0, <2>1, <2>2 DEF Remembers
<1>4. CASE Process \/ (\E last \in 1 .. MaxIds + 1 : ReadFails(last))
           \/ (\E a \in ui.acks : AckRuns(a, FALSE))
  BY <1>1, <1>4 DEF Process, ReadRuns, ReadFails, StrayRuns, AckRuns, Emit, account, history
<1>5. CASE UiStarts \/ ReadArrives \/ (\E a \in ui.acks : AckArrives(a))
           \/ (\E k \in DOMAIN auths : AuthArrives(k)) \/ (\E k \in DOMAIN snaps : SnapshotArrives(k))
  BY <1>1, <1>5 DEF UiStarts, ReadArrives, AckArrives, AuthArrives, SnapshotArrives, account, history
<1>6. CASE (\E id \in Ids, saved \in BOOLEAN : Click(id, saved)) \/ ImportStarts \/ ImportEnds
           \/ DataChanges
  BY <1>1, <1>6 DEF Click, ImportStarts, ImportEnds, DataChanges, Delete, AdoptCloud,
     ChooseLocal, account, history
<1>7. CASE (\E a \in Accounts : Login(a)) \/ Logout
  BY <1>3, <1>7 DEF Login, Logout
<1>8. QED BY <1>2, <1>4, <1>5, <1>6, <1>7 DEF Next, View, Failures, Surroundings, DataChanges

\* What was private stays so.
LEMMA PrivateStays ==
  ASSUME TypeOK, Evolves, Remembers, NEW t, t.gen \in Gens, Private(t)
  PROVE  PrivateNext(t)
<1>1. PICK r \in routes : r.id = t.id /\ r.target.owner = who[t.gen]
  BY DEF Private
<1>2. PICK s \in routes' : s.id = t.id /\ s.target.owner = who[t.gen]
  BY <1>1 DEF Evolves
<1>3. t.gen <= gen' /\ who'[t.gen] = who[t.gen]
  BY DEF Private, Remembers, TypeOK, Gens
<1>4. QED BY <1>2, <1>3 DEF PrivateNext

\* Held after a step, of what is known before it.
LEMMA HeldNext ==
  Held' <=> /\ \A t \in {ui'.target, ui'.answer} \ {None} : t.gen = gen' => owner' = session'
            /\ \A a \in ui'.acks : PrivateNext(a) /\ (a.gen = gen' => owner' = session')
            /\ (\E a \in ui'.acks : a.gen = gen' /\ a.state = "failed") => missed'
BY DEF Held, Private, PrivateNext, Refused

\* The session goes on, and the data stay with its account if they were with it.
Continues ==
  /\ UNCHANGED <<gen, session>>
  /\ owner' = owner \/ owner' = session
  /\ (missed => missed') \/ missed' = Refused

\* A step that gives the view nothing new.
LEMMA HeldStill ==
  ASSUME TypeOK, Held, Evolves, Remembers, Continues,
         ui'.target \in {ui.target, ui.answer, None}, ui'.answer \in {ui.answer, None},
         ui'.acks \subseteq ui.acks
  PROVE  Held'
<1>1. \A t \in {ui'.target, ui'.answer} \ {None} : t.gen = gen' => owner' = session'
  BY DEF Held, Continues
<1>2. \A a \in ui'.acks : PrivateNext(a) /\ (a.gen = gen' => owner' = session')
  <2> SUFFICES ASSUME NEW a \in ui'.acks
               PROVE  PrivateNext(a) /\ (a.gen = gen' => owner' = session')
    OBVIOUS
  <2>1. a \in ui.acks /\ a.gen \in Gens
    BY DEF TypeOK, Acks
  <2>2. PrivateNext(a)
    BY <2>1, PrivateStays DEF Held
  <2>3. QED BY <2>1, <2>2 DEF Held, Continues
<1>3. ASSUME NEW a \in ui'.acks, a.gen = gen', a.state = "failed" PROVE missed'
  <2>1. Refused
    BY <1>3 DEF Refused, Continues
  <2>2. QED BY <2>1 DEF Held, Continues
<1>4. QED BY <1>1, <1>2, <1>3, HeldNext

\* Every step keeps it: a new answer is given only over the account's own data, a new
\* session has no targets yet.
LEMMA HeldKept ==
  ASSUME Consistent, Held, Next
  PROVE  Held'
<1> USE TypeParts
<1>0. TypeOK /\ ui \in Uis /\ gen \in Nat /\ gen \in Gens /\ RoutesOK /\ OwnIds
  BY DEF Consistent, UiOK, WorldOK, Gens
<1>1. Evolves
  BY <1>0, StepEvolves
<1>2. ASSUME NEW a \in Accounts \cup {None}, Crash(a) PROVE Held'
  BY <1>2 DEF Crash, NoUi, Held, Refused
<1> SUFFICES ASSUME \A a \in Accounts \cup {None} : ~Crash(a) PROVE Held'
  BY <1>2
<1>3. Remembers
  BY Remembered
<1>5. ASSUME UNCHANGED <<gen, session>>, owner' = owner \/ owner' = session,
             (missed => missed') \/ missed' = Refused,
             ui'.target \in {ui.target, ui.answer, None}, ui'.answer \in {ui.answer, None},
             ui'.acks \subseteq ui.acks
      PROVE  Held'
  <2>1. Continues
    BY <1>5 DEF Continues
  <2>2. QED BY <1>0, <1>1, <1>3, <1>5, <2>1, HeldStill
<1>6. ASSUME UNCHANGED <<data, account, missed>>, NEW u \in Uis, u.target \in {ui.target, None},
             u.acks \subseteq ui.acks, ui' = Reading(u)
      PROVE  Held'
  <2>1. ui'.answer = None /\ ui'.target = u.target /\ ui'.acks = u.acks
    BY <1>6, ReadingKeeps
  <2>2. QED BY <1>5, <1>6, <2>1 DEF data, account
<1>7. CASE UNCHANGED <<data, account, missed, ui>>
  BY <1>5, <1>7 DEF data, account
<1>8. CASE ReadRuns
  <2>1. CASE First = {}
    <3>1. ui' = [ui EXCEPT !.read = "done", !.answer = None]
      BY <1>8, <2>1 DEF ReadRuns
    <3>2. /\ ui'.target = ui.target /\ ui'.acks = ui.acks /\ ui'.answer = None
      BY <1>0, <3>1 DEF Uis
    <3>3. QED BY <1>5, <1>8, <3>2 DEF ReadRuns, data, account
  <2>2. CASE First # {}
    <3>1. PICK t : ui' = [ui EXCEPT !.read = "done", !.answer = t]
      BY <1>8 DEF ReadRuns
    <3>2. ui'.target = ui.target /\ ui'.acks = ui.acks
      BY <1>0, <3>1 DEF Uis
    <3>3. owner = session
      BY <2>2 DEF First, Mine, Readable
    <3>4. UNCHANGED <<gen, session, owner, missed>>
      BY <1>8 DEF ReadRuns, data, account
    <3>5. \A a \in ui.acks : PrivateNext(a)
      BY <1>0, <1>1, <1>3, PrivateStays DEF Held, Uis, Acks
    <3>6. QED BY <3>2, <3>3, <3>4, <3>5, HeldNext DEF Held, Refused
  <2>3. QED BY <2>1, <2>2
<1>9. CASE \E last \in 1 .. MaxIds + 1 : ReadFails(last)
  <2>1. ui' = [ui EXCEPT !.read = "done"]
    BY <1>9 DEF ReadFails
  <2>2. ui'.target = ui.target /\ ui'.acks = ui.acks /\ ui'.answer = ui.answer
    BY <1>0, <2>1 DEF Uis
  <2>3. QED BY <1>5, <1>9, <2>2 DEF ReadFails, data, account
<1>10. CASE StrayRuns
  <2>1. ui' = [ui EXCEPT !.stray = FALSE]
    BY <1>10 DEF StrayRuns
  <2>2. ui'.target = ui.target /\ ui'.acks = ui.acks /\ ui'.answer = ui.answer
    BY <1>0, <2>1 DEF Uis
  <2>3. QED BY <1>5, <1>10, <2>2 DEF StrayRuns, data, account
<1>11. ASSUME NEW a \in ui.acks, NEW saved \in BOOLEAN, AckRuns(a, saved)
       PROVE  Held'
  <2> DEFINE b == [a EXCEPT !.state = IF saved /\ Allowed(a) THEN "ok" ELSE "failed"]
  <2>1. a \in Acks /\ Private(a) /\ (a.gen = gen => owner = session)
    BY <1>0 DEF Uis, Held
  <2>2. /\ b.id = a.id /\ b.gen = a.gen /\ b \in Acks
        /\ b.state = "failed" => ~(saved /\ Allowed(a))
    BY <2>1 DEF Acks
  <2>3. ui' = [ui EXCEPT !.acks = (@ \ {a}) \cup {b}]
    BY <1>11 DEF AckRuns
  <2> HIDE DEF b
  <2>4. ui'.target = ui.target /\ ui'.answer = ui.answer /\ ui'.acks = (ui.acks \ {a}) \cup {b}
    BY <1>0, <2>3 DEF Uis
  <2>5. /\ UNCHANGED <<gen, session, owner>>
        /\ missed' = (missed \/ (a.gen = gen /\ ~(saved /\ Allowed(a))))
    BY <1>11 DEF AckRuns, data, account
  <2>6. \A k \in ui.acks : PrivateNext(k)
    BY <1>0, <1>1, <1>3, PrivateStays DEF Held, Uis, Acks
  <2>7. PrivateNext(b)
    BY <2>2, <2>6 DEF PrivateNext
  <2>8. (\E k \in ui'.acks : k.gen = gen' /\ k.state = "failed") => missed'
    <3>1. Refused => missed
      BY DEF Held
    <3>2. b.gen = gen /\ b.state = "failed" => missed'
      BY <2>2, <2>5
    <3>3. QED BY <2>4, <2>5, <3>1, <3>2 DEF Refused
  <2>9. QED BY <2>1, <2>2, <2>4, <2>5, <2>6, <2>7, <2>8, HeldNext DEF Held
<1>12. CASE UiStarts
  <2> DEFINE u == [ui EXCEPT !.ready = TRUE, !.gen = gen, !.in = session # None, !.items = tasks]
  <2>1. u \in Uis /\ u.target = ui.target /\ u.acks = ui.acks
    BY <1>0 DEF Uis, WorldOK
  <2>2. ui' = Reading(u)
    BY <1>12 DEF UiStarts
  <2> HIDE DEF u
  <2>3. QED BY <1>6, <1>12, <2>1, <2>2 DEF UiStarts
<1>13. CASE \E kind \in Kinds : Emit(kind)
  <2>1. UNCHANGED <<data, account, missed>> /\ (ui' = ui \/ ui' = Reading(ui))
    BY <1>13 DEF Emit
  <2>2. QED BY <1>0, <1>6, <1>7, <2>1
<1>14. ASSUME NEW k \in DOMAIN auths, AuthArrives(k) PROVE Held'
  <2>1. auths[k].gen \in Gens /\ auths[k].in \in BOOLEAN
    <3>1. auths[k] \in AuthEvents
      BY <1>0, <1>14, ElementOfSeq, LenProperties DEF MailOK
    <3>2. QED BY <3>1 DEF AuthEvents
  <2> DEFINE u == [Generation(auths[k]) EXCEPT !.in = auths[k].in]
  <2>2. u \in Uis /\ u.target = ui.target /\ u.acks = ui.acks
    BY <1>0, <2>1, GenerationKeeps DEF Uis
  <2>3. UNCHANGED <<data, account, missed>> /\ (ui' = ui \/ ui' = Reading(u))
    BY <1>14 DEF AuthArrives
  <2> HIDE DEF u
  <2>4. QED BY <1>6, <1>7, <2>2, <2>3
<1>15. ASSUME NEW k \in DOMAIN snaps, SnapshotArrives(k) PROVE Held'
  <2>1. snaps[k].gen \in Gens /\ snaps[k].items \subseteq Items
    <3>1. snaps[k] \in Snapshots
      BY <1>0, <1>15, ElementOfSeq, LenProperties DEF MailOK
    <3>2. QED BY <3>1 DEF Snapshots
  <2> DEFINE u == [Generation(snaps[k]) EXCEPT !.items = snaps[k].items]
  <2>2. u \in Uis /\ u.target = ui.target /\ u.acks = ui.acks
    BY <1>0, <2>1, GenerationKeeps DEF Uis
  <2>3. UNCHANGED <<data, account, missed>> /\ (ui' = ui \/ ui' = Reading(u))
    BY <1>15 DEF SnapshotArrives
  <2> HIDE DEF u
  <2>4. QED BY <1>6, <1>7, <2>2, <2>3
<1>16. CASE ReadArrives
  <2> DEFINE t == IF ui.answer # None /\ ui.answer.gen = ui.gen THEN ui.answer ELSE None
  <2>1. ui' = [ui EXCEPT !.read = "none", !.answer = None, !.tried = FALSE, !.target = t]
    BY <1>16 DEF ReadArrives
  <2>2. t \in {ui.answer, None}
    OBVIOUS
  <2> HIDE DEF t
  <2>3. ui'.target = t /\ ui'.answer = None /\ ui'.acks = ui.acks
    BY <1>0, <2>1 DEF Uis
  <2>4. QED BY <1>5, <1>16, <2>2, <2>3 DEF ReadArrives, data, account
<1>17. CASE Navigate
  <2> DEFINE a == [id |-> ui.target.id, gen |-> ui.target.gen, state |-> "sent"]
  <2>1. /\ Current = ui.target /\ ui.target # None /\ ui.target \in ScrollTargets
        /\ Private(ui.target) /\ (ui.target.gen = gen => owner = session)
    BY <1>0, <1>17 DEF Navigate, Current, Uis, Consistent, InHand, GoodTarget, Held
  <2>2. a.id = ui.target.id /\ a.gen = ui.target.gen /\ a.state = "sent"
    OBVIOUS
  <2>3. UNCHANGED <<gen, session, owner, missed>>
    BY <1>17 DEF Navigate, data, account
  <2>4. CASE ui' = [ui EXCEPT !.tried = TRUE]
    <3>1. ui'.target = ui.target /\ ui'.answer = ui.answer /\ ui'.acks = ui.acks
      BY <1>0, <2>4 DEF Uis
    <3>2. QED BY <1>5, <2>3, <3>1
  <2>5. CASE ui' = [Dropped(ui) EXCEPT !.tried = TRUE, !.acks = @ \cup {a}]
    <3>1. /\ Dropped(ui) \in Uis /\ Dropped(ui).answer = None
          /\ Dropped(ui).target = ui.target /\ Dropped(ui).acks = ui.acks
      BY <1>0, ReadingKeeps
    <3> HIDE DEF a
    <3>2. /\ ui'.target = ui.target /\ ui'.answer = None /\ ui'.acks = ui.acks \cup {a}
      BY <2>5, <3>1 DEF Uis
    <3>3. \A k \in ui.acks : PrivateNext(k)
      BY <1>0, <1>1, <1>3, PrivateStays DEF Held, Uis, Acks
    <3>4. PrivateNext(ui.target)
      BY <1>0, <1>1, <1>3, <2>1, PrivateStays DEF ScrollTargets
    <3>5. PrivateNext(a)
      BY <2>2, <3>4 DEF PrivateNext
    <3>6. QED BY <2>1, <2>2, <2>3, <3>2, <3>3, <3>5, HeldNext DEF Held, Refused
  <2>6. QED BY <1>17, <2>1, <2>4, <2>5 DEF Navigate
<1>18. ASSUME NEW a \in ui.acks, AckArrives(a) PROVE Held'
  <2> DEFINE rest == [ui EXCEPT !.acks = @ \ {a}]
             t == IF rest.target # None /\ rest.target.id = a.id /\ rest.target.gen = a.gen
                  THEN None ELSE rest.target
             u == [rest EXCEPT !.target = t]
  <2>1. /\ rest \in Uis /\ rest.target = ui.target /\ rest.answer = ui.answer
        /\ rest.acks \subseteq ui.acks
    BY <1>0 DEF Uis
  <2>2. UNCHANGED <<data, account, missed>> /\ (ui' = rest \/ ui' = Reading(u))
    BY <1>18 DEF AckArrives, Acked
  <2> HIDE DEF rest
  <2>3. t \in {ui.target, None} /\ t \in ScrollTargets \cup {None}
    BY <1>0, <2>1 DEF Uis
  <2> HIDE DEF t
  <2>4. u \in Uis /\ u.target = t /\ u.acks \subseteq ui.acks
    BY <2>1, <2>3 DEF Uis
  <2> HIDE DEF u
  <2>5. QED BY <1>5, <1>6, <2>1, <2>2, <2>3, <2>4 DEF data, account
<1>19. CASE \E id \in Ids, saved \in BOOLEAN : Click(id, saved)
  BY <1>5, <1>19 DEF Click, Tell, data, account
<1>20. CASE DataChanges
  BY <1>5, <1>20 DEF DataChanges, Delete, AdoptCloud, ChooseLocal, Tell, account
<1>21. CASE (\E a \in Accounts : Login(a)) \/ Logout
  <2>1. PICK a \in Accounts \cup {None} : NewSession(a)
    BY <1>21 DEF Login, Logout
  <2>2. gen' = gen + 1 /\ UNCHANGED ui
    BY <2>1 DEF NewSession
  <2>3. \A k \in ui.acks : PrivateNext(k)
    BY <1>0, <1>1, <1>3, PrivateStays DEF Held, Uis, Acks
  <2>4. \A k \in ui.acks : k.gen # gen'
    BY <1>0, <2>2 DEF Held, Private, Uis, Acks, Gens
  <2>5. \A t \in {ui.target, ui.answer} \ {None} : t.gen # gen'
    BY <1>0, <2>2 DEF Consistent, InHand, GoodTarget, Private, Uis, ScrollTargets, Gens
  <2>6. QED BY <2>2, <2>3, <2>4, <2>5, HeldNext
<1>22. CASE ImportStarts \/ ImportEnds
  BY <1>5, <1>22 DEF ImportStarts, ImportEnds, Tell, data
<1>23. QED BY <1>8, <1>9, <1>10, <1>11, <1>12, <1>13, <1>14, <1>15, <1>16, <1>17, <1>18, <1>19,
              <1>20, <1>21, <1>22
           DEF Next, Process, View, Failures, Surroundings, DataChanges

-----------------------------------------------------------------------------
(* Why a click that waits will be read *)

\* Clicks are consumed, and only clicks add to those that wait.
LEMMA MineFades ==
  ASSUME UNCHANGED <<owner, session, blocked>>, Pending' \subseteq Pending
  PROVE  Mine' \subseteq Mine
BY DEF Mine, Readable

\* Consumed routes wait no longer.
LEMMA ConsumeFades ==
  ASSUME RoutesOK, NEW rs \in SUBSET routes, Consume(rs)
  PROVE  Pending' \subseteq Pending \ rs
<1>1. \A r \in rs : r \in Routes /\ [r EXCEPT !.phase = "consumed"].phase = "consumed"
  BY DEF RoutesOK, Routes
<1>2. QED BY <1>1 DEF Consume, Pending

\* An acknowledgement adds none that waits.
LEMMA AcknowledgeFades ==
  ASSUME RoutesOK, NEW id, Acknowledge(id)
  PROVE  Pending' \subseteq Pending
<1>1. routes' = {IF r.id = id /\ r.phase = "pending" THEN [r EXCEPT !.phase = "consumed"] ELSE r
                 : r \in routes}
  BY DEF Acknowledge, Move
<1>2. \A r \in routes : r \in Routes /\ [r EXCEPT !.phase = "consumed"].phase = "consumed"
  BY DEF RoutesOK, Routes
<1>3. QED BY <1>1, <1>2 DEF Pending

\* A view that asks again is a reason, and so is one that is not in the session.
LEMMA ReadingCauses ==
  ASSUME NEW u \in Uis, ui' = Reading(u)
  PROVE  Cause'
<1>1. ui'.ready = u.ready /\ ui'.in = u.in
  BY ReadingLeaves
<1>2. (u.ready /\ u.in) => ui'.read = "sent"
  BY ReadingLeaves
<1>3. QED BY <1>1, <1>2 DEF Cause

\* A step that leaves the view alone leaves it its reasons.
LEMMA CauseStays ==
  ASSUME Cause, UNCHANGED gen, "snapshot" \in news' \/ tasks' = tasks,
         news \cap {"window", "snapshot"} \subseteq news' \/ snaps' # <<>>,
         snaps # <<>> => snaps' # <<>> \/ "snapshot" \in news',
         ui'.ready = ui.ready, ui'.in = ui.in, ui'.gen = ui.gen, ui'.acks = ui.acks,
         ui'.read = ui.read, ui'.answer = ui.answer, ui'.target = ui.target,
         ui'.tried = ui.tried
  PROVE  Cause'
BY DEF Cause

\* Every step keeps a cause while a click waits, leaves none waiting or records that one
\* may be missed: a read that finds no task to show consumed all clicks.
LEMMA CausedKept ==
  ASSUME Consistent, Channels, Held, Caused, Next
  PROVE  Caused'
<1> USE TypeParts
<1>0. /\ TypeOK /\ ui \in Uis /\ UiOK /\ RoutesOK /\ OwnIds
      /\ gen \in Nat /\ gen \in Gens /\ ui.gen \in Nat
  BY DEF Consistent, UiOK, Uis, WorldOK, Gens
<1>1. ASSUME missed' PROVE Caused'
  BY <1>1 DEF Caused
<1>2. ASSUME Cause' PROVE Caused'
  BY <1>2 DEF Caused
<1>3. ASSUME NEW u \in Uis, ui' = Reading(u) PROVE Caused'
  BY <1>2, <1>3, ReadingCauses
<1>4. ASSUME UNCHANGED <<gen, tasks, owner, session, blocked, missed, ui>>, Pending' \subseteq Pending,
             news \cap {"window", "snapshot"} \subseteq news' \/ snaps' # <<>>,
             snaps # <<>> => snaps' # <<>> \/ "snapshot" \in news'
      PROVE  Caused'
  <2>1. Mine' \subseteq Mine
    BY <1>4, MineFades
  <2>2. Cause => Cause'
    BY <1>4, CauseStays
  <2>3. QED BY <1>4, <2>1, <2>2 DEF Caused
<1>5. Passed \subseteq routes
  BY DEF Passed, Mine, Pending
<1>6. CASE ReadRuns
  <2>1. UNCHANGED <<gen, tasks, owner, session, blocked>> /\ Pending' \subseteq Pending \ Passed
    BY <1>0, <1>5, <1>6, ConsumeFades DEF ReadRuns, data, account
  <2>2. CASE First = {}
    <3>1. Mine \subseteq Passed
      BY <1>0, <2>2, FirstExists
    <3>2. Mine' \subseteq Pending' /\ Mine' \subseteq Mine
      BY <2>1, MineFades DEF Mine
    <3>3. Mine' = {}
      BY <2>1, <3>1, <3>2
    <3>4. QED BY <3>3 DEF Caused
  <2>3. CASE First # {}
    <3> DEFINE r == CHOOSE r \in First : TRUE
               t == [id |-> r.id, item |-> r.target.item, gen |-> gen]
    <3>1. r \in First
      BY <2>3
    <3>2. r \in Routes /\ r.target.item \in tasks
      BY <1>0, <3>1, FirstIsGood DEF First
    <3>3. ui' = [ui EXCEPT !.read = "done", !.answer = t]
      BY <1>6, <2>3 DEF ReadRuns
    <3> HIDE DEF r
    <3>4. t \in ScrollTargets /\ t.gen = gen /\ t.item \in tasks
      BY <1>0, <3>2 DEF Routes, Targets, ScrollTargets
    <3>5. t # None
      BY <3>4, NoTargetAssumption
    <3> HIDE DEF t
    <3>6. ui'.read = "done" /\ ui'.answer = t
      BY <1>0, <3>3 DEF Uis
    <3>7. QED BY <1>2, <2>1, <3>4, <3>5, <3>6 DEF Cause
  <2>4. QED BY <2>2, <2>3
<1>7. ASSUME NEW last \in 1 .. MaxIds + 1, ReadFails(last) PROVE Caused'
  BY <1>1, <1>7 DEF ReadFails
<1>8. CASE StrayRuns
  <2>1. UNCHANGED <<gen, tasks, owner, session, blocked, missed, news, snaps>>
        /\ Pending' \subseteq Pending
    BY <1>0, <1>5, <1>8, ConsumeFades DEF StrayRuns, data, account, mail
  <2>2. ui' = [ui EXCEPT !.stray = FALSE]
    BY <1>8 DEF StrayRuns
  <2>3. /\ ui'.ready = ui.ready /\ ui'.in = ui.in /\ ui'.gen = ui.gen /\ ui'.acks = ui.acks
        /\ ui'.read = ui.read /\ ui'.answer = ui.answer /\ ui'.target = ui.target
        /\ ui'.tried = ui.tried
    BY <1>0, <2>2 DEF Uis
  <2>4. Cause => Cause'
    BY <2>1, <2>3, CauseStays
  <2>5. Mine' \subseteq Mine
    BY <2>1, MineFades
  <2>6. QED BY <2>1, <2>4, <2>5 DEF Caused
<1>9. ASSUME NEW a \in ui.acks, NEW saved \in BOOLEAN, AckRuns(a, saved)
      PROVE  Caused'
  <2> DEFINE b == [a EXCEPT !.state = IF saved /\ Allowed(a) THEN "ok" ELSE "failed"]
  <2> SUFFICES ASSUME ~missed', Mine' # {} PROVE Cause'
    BY DEF Caused
  <2>1. a \in Acks /\ a.state = "sent"
    BY <1>0, <1>9 DEF Uis, AckRuns
  <2>2. b.gen = a.gen /\ b \in Acks /\ (saved /\ Allowed(a) => b.state = "ok")
    BY <2>1 DEF Acks
  <2>3. ui' = [ui EXCEPT !.acks = (@ \ {a}) \cup {b}]
    BY <1>9 DEF AckRuns
  <2> HIDE DEF b
  <2>4. /\ ui'.ready = ui.ready /\ ui'.in = ui.in /\ ui'.gen = ui.gen
        /\ ui'.read = ui.read /\ ui'.answer = ui.answer /\ ui'.target = ui.target
        /\ ui'.tried = ui.tried /\ ui'.acks = (ui.acks \ {a}) \cup {b}
    BY <1>0, <2>3 DEF Uis
  <2>5. UNCHANGED <<gen, tasks, owner, session, blocked, news, snaps>>
    BY <1>9 DEF AckRuns, data, account, mail
  <2>6. Pending' \subseteq Pending
    BY <1>0, <1>9, AcknowledgeFades DEF AckRuns, Pending
  <2>7. Mine # {}
    BY <2>5, <2>6, MineFades
  <2>8. ~missed /\ (a.gen = gen => saved /\ Allowed(a))
    BY <1>9 DEF AckRuns
  <2>9. Cause
    BY <2>7, <2>8 DEF Caused
  <2>10. CASE \E c \in ui.acks : c.gen = gen /\ c.state # "failed"
    <3>1. PICK c \in ui.acks : c.gen = gen /\ c.state # "failed"
      BY <2>10
    <3>2. CASE c # a
      <4>1. c \in ui'.acks
        BY <2>4, <3>2
      <4>2. QED BY <2>5, <3>1, <4>1 DEF Cause
    <3>3. CASE c = a
      <4>1. saved /\ Allowed(a)
        BY <2>8, <3>1, <3>3
      <4>2. b \in ui'.acks /\ b.gen = gen' /\ b.state # "failed"
        BY <2>2, <2>4, <2>5, <3>1, <3>3, <4>1
      <4>3. QED BY <4>2 DEF Cause
    <3>4. QED BY <3>2, <3>3
  <2>11. CASE ~(\E c \in ui.acks : c.gen = gen /\ c.state # "failed")
    BY <2>4, <2>5, <2>9, <2>11 DEF Cause
  <2>12. QED BY <2>10, <2>11
<1>10. CASE UiStarts
  <2> DEFINE u == [ui EXCEPT !.ready = TRUE, !.gen = gen, !.in = session # None, !.items = tasks]
  <2>1. u \in Uis
    BY <1>0 DEF Uis, WorldOK
  <2>2. ui' = Reading(u)
    BY <1>10 DEF UiStarts
  <2> HIDE DEF u
  <2>3. QED BY <1>3, <2>1, <2>2
<1>11. CASE Emit("window")
  BY <1>0, <1>3, <1>11 DEF Emit
<1>12. CASE Emit("auth")
  BY <1>4, <1>12 DEF Emit, data, account, Pending
<1>13. CASE Emit("snapshot")
  <2>1. snaps \in Seq(Snapshots) /\ [gen |-> gen, items |-> tasks] \in Snapshots
        /\ snaps' = Append(snaps, [gen |-> gen, items |-> tasks])
    BY <1>0, <1>13 DEF Emit, MailOK, Snapshots, WorldOK
  <2>2. snaps' # <<>>
    BY <2>1, AppendProperties
  <2>3. QED BY <1>2, <2>2 DEF Cause
<1>14. ASSUME NEW k \in DOMAIN auths, AuthArrives(k) PROVE Caused'
  <2>1. auths[k].gen \in Gens /\ auths[k].in \in BOOLEAN
    <3>1. auths[k] \in AuthEvents
      BY <1>0, <1>14, ElementOfSeq, LenProperties DEF MailOK
    <3>2. QED BY <3>1 DEF AuthEvents
  <2> DEFINE u == [Generation(auths[k]) EXCEPT !.in = auths[k].in]
  <2>2. u \in Uis
    BY <1>0, <2>1, GenerationKeeps DEF Uis
  <2>3. ui' = ui \/ ui' = Reading(u)
    BY <1>14 DEF AuthArrives
  <2> HIDE DEF u
  <2>4. CASE ui' = ui
    BY <1>4, <1>14, <2>4 DEF AuthArrives, data, account, Pending
  <2>5. QED BY <1>3, <2>2, <2>3, <2>4
<1>15. ASSUME NEW k \in DOMAIN snaps, SnapshotArrives(k) PROVE Caused'
  <2>1. snaps \in Seq(Snapshots) /\ snaps' = SubSeq(snaps, k + 1, Len(snaps))
    BY <1>0, <1>15 DEF SnapshotArrives, MailOK
  <2>2. /\ k \in 1 .. Len(snaps) /\ DOMAIN snaps = 1 .. Len(snaps) /\ Len(snaps) \in Nat
        /\ Len(snaps') = Len(snaps) - k /\ snaps' \in Seq(Snapshots)
    BY <2>1, Cut
  <2>3. snaps[k].gen \in Gens /\ snaps[k].items \subseteq Items
    <3>1. snaps[k] \in Snapshots
      BY <2>1, <2>2, ElementOfSeq
    <3>2. QED BY <3>1 DEF Snapshots
  <2> DEFINE u == [Generation(snaps[k]) EXCEPT !.items = snaps[k].items]
  <2>4. u \in Uis
    BY <1>0, <2>3, GenerationKeeps DEF Uis
  <2>5. \/ ui' = ui /\ snaps[k].gen < ui.gen
        \/ ui' = Reading(u)
    BY <1>15 DEF SnapshotArrives
  <2> HIDE DEF u
  <2>6. CASE ui' = ui /\ snaps[k].gen < ui.gen
    <3>1. "snapshot" \in news \/ snaps' # <<>>
      <4> SUFFICES ASSUME "snapshot" \notin news, snaps' = <<>> PROVE FALSE
        OBVIOUS
      <4>1. k = Len(snaps)
        BY <2>2
      <4>2. snaps # <<>>
        BY <2>2
      <4>3. snaps[k].gen = gen
        BY <4>1, <4>2 DEF Channels, SnapshotDue
      <4>4. QED BY <1>0, <2>6, <4>3 DEF Channels, MailFits
    <3>2. UNCHANGED <<gen, tasks, owner, session, blocked, missed, news>> /\ Pending' = Pending
      BY <1>15 DEF SnapshotArrives, data, account, Pending
    <3>3. QED BY <1>4, <2>6, <3>1, <3>2
  <2>7. QED BY <1>3, <2>4, <2>5, <2>6
<1>16. CASE ReadArrives
  <2> DEFINE t == IF ui.answer # None /\ ui.answer.gen = ui.gen THEN ui.answer ELSE None
  <2> SUFFICES ASSUME ~missed', Mine' # {} PROVE Cause'
    BY DEF Caused
  <2>1. UNCHANGED <<gen, tasks, owner, session, blocked, missed, news, snaps>>
        /\ Pending' = Pending /\ ui.read = "done"
    BY <1>16 DEF ReadArrives, data, account, mail, Pending
  <2>2. Cause
    BY <2>1, MineFades DEF Caused
  <2>3. ui' = [ui EXCEPT !.read = "none", !.answer = None, !.tried = FALSE, !.target = t]
    BY <1>16 DEF ReadArrives
  <2>4. ui.answer # None /\ ui.answer.gen = ui.gen => t = ui.answer
    OBVIOUS
  <2> HIDE DEF t
  <2>5. /\ ui'.ready = ui.ready /\ ui'.in = ui.in /\ ui'.gen = ui.gen /\ ui'.acks = ui.acks
        /\ ui'.read = "none" /\ ~ui'.tried /\ ui'.target = t
    BY <1>0, <2>3 DEF Uis
  <2>6. CASE ~(ui.ready /\ ui.in /\ ui.gen = gen)
    BY <2>1, <2>5, <2>6 DEF Cause
  <2>7. CASE /\ ui.ready /\ ui.in /\ ui.gen = gen
             /\ ui.answer # None /\ ui.answer.gen = gen /\ ui.answer.item \in tasks
    <3>1. t = ui.answer
      BY <2>4, <2>7
    <3>2. QED BY <2>1, <2>5, <2>7, <3>1 DEF Cause
  <2>8. CASE \/ news \cap {"window", "snapshot"} # {} \/ snaps # <<>>
             \/ \E a \in ui.acks : a.gen = gen /\ a.state # "failed"
    BY <2>1, <2>5, <2>8 DEF Cause
  <2>9. QED BY <2>1, <2>2, <2>6, <2>7, <2>8 DEF Cause
<1>17. CASE Navigate
  <2> DEFINE a == [id |-> ui.target.id, gen |-> ui.target.gen, state |-> "sent"]
  <2> SUFFICES ASSUME ~missed', Mine' # {} PROVE Cause'
    BY DEF Caused
  <2>1. UNCHANGED <<gen, tasks, owner, session, blocked, missed, news, snaps>>
        /\ Pending' = Pending
    BY <1>17 DEF Navigate, data, account, mail, Pending
  <2>2. Cause /\ ~missed
    BY <2>1, MineFades DEF Caused
  <2>3. Current = ui.target /\ ui.target # None /\ ui.target.gen = ui.gen
    BY <1>17 DEF Navigate, Current
  <2>4. CASE \E c \in ui.acks : c.id = Current.id /\ c.gen = Current.gen
    <3>1. ui' = [ui EXCEPT !.tried = TRUE]
      BY <1>17, <2>4 DEF Navigate
    <3>2. /\ ui'.ready = ui.ready /\ ui'.in = ui.in /\ ui'.gen = ui.gen /\ ui'.acks = ui.acks
          /\ ui'.read = ui.read /\ ui'.answer = ui.answer
      BY <1>0, <3>1 DEF Uis
    <3>3. PICK c \in ui.acks : c.gen = ui.gen
      BY <2>3, <2>4
    <3>4. CASE ui.gen = gen
      <4>1. c.state # "failed"
        BY <2>2, <3>3, <3>4 DEF Held, Refused
      <4>2. QED BY <2>1, <3>2, <3>3, <3>4, <4>1 DEF Cause
    <3>5. CASE ui.gen # gen
      BY <2>1, <3>2, <3>5 DEF Cause
    <3>6. QED BY <3>4, <3>5
  <2>5. CASE ~(\E c \in ui.acks : c.id = Current.id /\ c.gen = Current.gen)
    <3>1. ui' = [Dropped(ui) EXCEPT !.tried = TRUE, !.acks = @ \cup {a}]
      BY <1>17, <2>3, <2>5 DEF Navigate
    <3>2. Dropped(ui) \in Uis /\ Dropped(ui).gen = ui.gen
      BY <1>0, ReadingKeeps, ReadingLeaves
    <3>3. a.gen = ui.gen /\ a.state = "sent"
      BY <2>3
    <3> HIDE DEF a
    <3>4. a \in ui'.acks /\ ui'.gen = ui.gen
      BY <3>1, <3>2 DEF Uis
    <3>5. QED BY <2>1, <3>3, <3>4 DEF Cause
  <2>6. QED BY <2>4, <2>5
<1>18. ASSUME NEW a \in ui.acks, AckArrives(a) PROVE Caused'
  <2> DEFINE rest == [ui EXCEPT !.acks = @ \ {a}]
             t == IF rest.target # None /\ rest.target.id = a.id /\ rest.target.gen = a.gen
                  THEN None ELSE rest.target
             u == [rest EXCEPT !.target = t]
             good == a.state = "ok" /\ ui.in /\ ui.gen = a.gen
  <2>1. /\ rest \in Uis /\ rest.target = ui.target
        /\ rest.ready = ui.ready /\ rest.in = ui.in /\ rest.gen = ui.gen
        /\ rest.read = ui.read /\ rest.answer = ui.answer
        /\ rest.tried = ui.tried /\ rest.acks = ui.acks \ {a}
    BY <1>0 DEF Uis
  <2>2. CASE good
    <3>1. ui' = Reading(u)
      BY <1>18, <2>2 DEF AckArrives, Acked
    <3> HIDE DEF rest
    <3>2. t \in ScrollTargets \cup {None}
      BY <2>1 DEF Uis
    <3> HIDE DEF t
    <3>3. u \in Uis
      BY <2>1, <3>2 DEF Uis
    <3> HIDE DEF u
    <3>4. QED BY <1>3, <3>1, <3>3
  <2>3. CASE ~good
    <3> SUFFICES ASSUME ~missed', Mine' # {} PROVE Cause'
      BY DEF Caused
    <3>1. UNCHANGED <<gen, tasks, owner, session, blocked, missed, news, snaps>>
          /\ Pending' = Pending /\ a.state # "sent"
      BY <1>18 DEF AckArrives, data, account, mail, Pending
    <3>2. Cause
      BY <3>1, MineFades DEF Caused
    <3>3. ui' = rest
      BY <1>18, <2>3 DEF AckArrives
    <3>4. a.state \in {"sent", "ok", "failed"}
      BY <1>0 DEF Uis, Acks
    <3> HIDE DEF rest
    <3>5. CASE a.gen = gen /\ a.state = "ok"
      <4>1. ~(ui.in /\ ui.gen = gen)
        BY <2>3, <3>5
      <4>2. QED BY <2>1, <3>1, <3>3, <4>1 DEF Cause
    <3>6. CASE ~(a.gen = gen /\ a.state = "ok")
      <4>1. ASSUME NEW c \in ui.acks, c.gen = gen, c.state # "failed" PROVE c \in ui'.acks
        BY <2>1, <3>1, <3>3, <3>4, <3>6, <4>1
      <4>2. QED BY <2>1, <3>1, <3>2, <3>3, <4>1 DEF Cause
    <3>7. QED BY <3>5, <3>6
  <2>4. QED BY <2>2, <2>3
<1>19. CASE \E id \in Ids, saved \in BOOLEAN : Click(id, saved)
  BY <1>2, <1>19 DEF Click, Tell, ClickNews, Cause
<1>20. CASE DataChanges
  BY <1>1, <1>2, <1>20 DEF DataChanges, Delete, AdoptCloud, ChooseLocal, Tell, Cause
<1>21. CASE (\E a \in Accounts : Login(a)) \/ Logout
  <2>1. gen' = gen + 1 /\ UNCHANGED ui
    BY <1>21 DEF Login, Logout, NewSession
  <2>2. ui'.gen # gen'
    BY <1>0, <2>1 DEF Channels, MailFits
  <2>3. QED BY <1>2, <2>2 DEF Cause
<1>22. CASE ImportStarts \/ ImportEnds
  BY <1>2, <1>22 DEF ImportStarts, ImportEnds, Tell, Cause
<1>23. CASE \E a \in Accounts \cup {None} : Crash(a)
  <2>1. ~ui'.ready
    BY <1>23 DEF Crash, NoUi
  <2>2. QED BY <1>2, <2>1 DEF Cause
<1>24. QED
  BY <1>6, <1>7, <1>8, <1>9, <1>10, <1>11, <1>12, <1>13, <1>14, <1>15, <1>16, <1>17, <1>18,
     <1>19, <1>20, <1>21, <1>22, <1>23
  DEF Next, Process, View, Failures, Surroundings, DataChanges, Kinds

-----------------------------------------------------------------------------
(* The second invariant, and what follows from it *)

\* In every reachable state the view knows or will hear of the session and the tasks, and
\* no click waits without a cause, except after a read or an acknowledgement that failed or
\* a local choice (engine.rs:945) that no event has followed yet.
THEOREM Following == Spec => []Tracked
<1>1. Init => Tracked
  <2> SUFFICES ASSUME Init PROVE Tracked
    OBVIOUS
  <2>1. Consistent /\ gen = 0
    BY InitConsistent DEF Init
  <2>2. /\ auths = <<>> /\ snaps = <<>> /\ news = {} /\ ui = NoUi /\ ~ui.ready /\ ui.gen = 0
        /\ ui.target = None /\ ui.answer = None /\ ui.acks = {}
    BY DEF Init, NoUi
  <2>3. DOMAIN auths = {} /\ DOMAIN snaps = {}
    BY <2>2
  <2>4. Channels
    BY <2>1, <2>2, <2>3 DEF Channels, MailFits, AuthDue, SnapshotDue
  <2>5. Held /\ Caused
    BY <2>2 DEF Held, Caused, Cause, Refused
  <2>6. QED BY <2>1, <2>4, <2>5 DEF Tracked
<1>2. Tracked /\ [Next]_vars => Tracked'
  <2> SUFFICES ASSUME Tracked, [Next]_vars PROVE Tracked'
    OBVIOUS
  <2>1. Consistent'
    BY StepConsistent DEF Tracked
  <2>2. CASE Next
    BY <2>1, <2>2, ChannelsKept, HeldKept, CausedKept DEF Tracked
  <2>3. CASE UNCHANGED vars
    <3>1. Channels'
      BY <2>3 DEF Tracked, Channels, MailFits, AuthDue, SnapshotDue, vars, data, account, mail
    <3>2. Held'
      BY <2>3 DEF Tracked, Held, Refused, Private, vars, data, account, history
    <3>3. Caused'
      BY <2>3 DEF Tracked, Caused, Mine, Pending, Readable, Cause, vars, data, account, mail
    <3>4. QED BY <2>1, <3>1, <3>2, <3>3 DEF Tracked
  <2>4. QED BY <2>2, <2>3
<1>3. QED BY <1>1, <1>2, PTL DEF Spec

\* When nothing is left to happen by itself, no click of the account over its own data waits
\* (useNotificationNavigation.ts:41, 55), with the same exceptions.
THEOREM RestAlwaysServed == Spec => []RestIsServed
<1>1. Tracked => RestIsServed
  <2> SUFFICES ASSUME Tracked, AtRest, ~missed, NEW id \in Ids, Waits(id) PROVE FALSE
    BY DEF RestIsServed
  <2>1. PICK r \in Pending : Readable /\ r.target.owner = session
    BY DEF Waits
  <2>2. r \in Mine /\ session # None
    BY <2>1 DEF Mine, Readable
  <2>3. Cause
    BY <2>2 DEF Tracked, Caused
  <2>4. /\ ui.ready /\ news = {} /\ auths = <<>> /\ snaps = <<>>
        /\ ui.read = "none" /\ ui.acks = {}
    BY DEF AtRest
  <2>5. DOMAIN auths = {}
    BY <2>4
  <2>6. ui.gen = gen /\ ui.in
    BY <2>2, <2>4, <2>5 DEF Tracked, Channels, AuthDue
  <2>7. ui.items = tasks
    BY <2>4 DEF Tracked, Channels, SnapshotDue
  <2>8. ui.target # None /\ ui.target.gen = gen /\ ~ui.tried /\ ui.target.item \in tasks
    BY <2>3, <2>4, <2>6 DEF Cause
  <2>9. Current = ui.target
    BY <2>6, <2>8 DEF Current
  <2>10. QED BY <2>7, <2>8, <2>9 DEF AtRest
<1>2. QED BY <1>1, Following, PTL

=============================================================================
