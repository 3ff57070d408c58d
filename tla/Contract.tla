------------------------------ MODULE Contract ------------------------------
(***************************************************************************)
(* What the synchronisation engine promises, whatever its requests, locks, *)
(* retries and restarts do in between.  A device holds one list of tasks   *)
(* of one account; each account has a cloud of numbered snapshots that     *)
(* other devices write too.  Edits leave the list only when a cloud holds  *)
(* the list as it is, or when the user wants the cloud's copy instead; a   *)
(* snapshot is replaced only by a device that knows it; and everything     *)
(* happens in the name of the account that is logged in.  Sync shows how   *)
(* the program keeps this.                                                 *)
(***************************************************************************)
EXTENDS Naturals, Sequences

CONSTANTS
  Accounts,  \* accounts that can log in
  Items,     \* tasks
  Home,      \* Home[i]: the owner of the list in which task i is created
  None       \* absent value

VARIABLES
  tasks,    \* the list on the device
  owner,    \* the account it belongs to, or None
  base,     \* the snapshot of the owner it was derived from, or None
  dirty,    \* it has edits that no cloud is known to hold
  dispute,  \* the conflict to be settled: an account and, if known, a snapshot
  user,     \* the account logged in, or None
  wish,     \* the user asked for the cloud's copy
  agreed,   \* agreed[a]: tasks of others that the user put into account a
  cloud,    \* cloud[a]: snapshots of account a, oldest first
  known,    \* accounts whose newest snapshot the device wrote, took or may replace
  offers    \* writes that the server may still accept

device == <<tasks, owner, base, dirty, dispute>>
vars   == <<device, user, wish, agreed, cloud, known, offers>>

Newest(a)   == Len(cloud[a])
Versions(a) == 0 .. Newest(a)
Held(a, v)  == IF v = 0 THEN {} ELSE cloud[a][v]

\* The tasks that a list of account a may hold.
Permitted(a) == {i \in Items : Home[i] = a} \cup (IF a = None THEN {} ELSE agreed[a])

\* At any moment an offer may be lost and a wish given up.
Fading == offers' \subseteq offers /\ (wish' => wish)

\* Snapshot v of account a, if it is the newest, is no surprise to the device.
Replaceable(a, v) == v = Newest(a) => a \in known \/ Held(a, v) = {}

Knows(a, v) == known' = IF v = Newest(a) THEN known \cup {a} ELSE known

Init ==
  /\ tasks \subseteq Permitted(None) /\ dirty = (tasks # {})
  /\ owner = None /\ base = None /\ dispute = None
  /\ user = None /\ wish = FALSE /\ agreed = [a \in Accounts |-> {}]
  /\ cloud = [a \in Accounts |-> <<>>] /\ known = Accounts /\ offers = {}

-----------------------------------------------------------------------------
(* The user *)

Enter(a) ==
  /\ user = None /\ user' = a
  /\ Fading /\ UNCHANGED <<device, agreed, cloud, known>>

Leave ==
  /\ user # None /\ user' = None /\ ~wish'
  /\ Fading /\ UNCHANGED <<device, agreed, cloud, known>>

\* A list that has nothing, and nothing to settle, becomes that of who edits it.
Edit ==
  /\ user # None
  /\ dirty' = TRUE
  /\ \/ UNCHANGED <<owner, base>>
     \/ /\ tasks = {} /\ ~dirty /\ dispute = None
        /\ owner' = user /\ base' = None
  /\ tasks' \subseteq tasks \cup Permitted(owner')
  /\ Fading /\ UNCHANGED <<dispute, user, agreed, cloud, known>>

Wish ==
  /\ user # None /\ wish'
  /\ UNCHANGED <<device, user, agreed, cloud, known, offers>>

\* The user settles a conflict for the list; with its tasks go those that undo
\* can bring back.
Keep(v) ==
  /\ user # None /\ dispute = [owner |-> user, cloud |-> v]
  /\ owner' = user /\ base' = v /\ dirty' = TRUE /\ dispute' = None
  /\ \E more \in SUBSET Permitted(owner) :
       agreed' = [agreed EXCEPT ![user] = @ \cup tasks \cup more]
  /\ Knows(user, v)
  /\ Fading /\ UNCHANGED <<tasks, user, cloud>>

\* The user settles a conflict for the cloud, or asked for its copy, or there is
\* nothing to lose.
Take(v) ==
  /\ user # None
  /\ \/ dispute = [owner |-> user, cloud |-> v]
     \/ wish
     \/ tasks = {} /\ ~dirty /\ (dispute # None => dispute.owner # user)
  /\ tasks' = Held(user, v)
  /\ owner' = user /\ base' = v /\ dirty' = FALSE /\ dispute' = None
  /\ Knows(user, v)
  /\ Fading /\ UNCHANGED <<user, agreed, cloud>>

-----------------------------------------------------------------------------
(* The device, which acts for the account logged in only *)

\* Nothing is decided about an account with a conflict to settle.
Undisputed == dispute # None => dispute.owner # user

\* The list is now one over snapshot v, which is empty or the device's own.
Rebase(v) ==
  /\ user # None /\ owner = user /\ Undisputed
  /\ Replaceable(user, v)
  /\ base' = v /\ dirty' \in {dirty, TRUE}
  /\ Fading /\ UNCHANGED <<tasks, owner, dispute, user, agreed, cloud, known>>

\* Snapshot v holds the list as it is.
Confirm(v) ==
  /\ user # None /\ owner = user /\ Undisputed
  /\ Replaceable(user, v) /\ tasks = Held(user, v)
  /\ base' = v /\ dirty' = FALSE
  /\ Fading /\ UNCHANGED <<tasks, owner, dispute, user, agreed, cloud, known>>

\* A conflict leaves the list as it is.
Dispute(v) ==
  /\ user # None /\ dispute' = [owner |-> user, cloud |-> v]
  /\ Fading /\ UNCHANGED <<tasks, owner, base, dirty, user, agreed, cloud, known>>

Offer ==
  /\ user # None /\ owner = user /\ dirty /\ base # None /\ dispute = None
  /\ offers' = offers \cup {[acct |-> owner, base |-> base, items |-> tasks]}
  /\ UNCHANGED <<device, user, wish, agreed, cloud, known>>

Fade ==
  /\ Fading /\ UNCHANGED <<device, user, agreed, cloud, known>>

-----------------------------------------------------------------------------
(* The clouds *)

Accept(o) ==
  /\ o.base = Newest(o.acct)
  /\ cloud' = [cloud EXCEPT ![o.acct] = Append(@, o.items)]
  /\ known' = known \cup {o.acct}
  /\ Fading /\ UNCHANGED <<device, user, agreed>>

\* Another device of account a, which knows the newest snapshot, writes one.
Elsewhere(a, items) ==
  /\ items \subseteq {i \in Items : Home[i] = a} \cup Held(a, Newest(a))
  /\ cloud' = [cloud EXCEPT ![a] = Append(@, items)]
  /\ known' = known \ {a}
  /\ Fading /\ UNCHANGED <<device, user, agreed>>

-----------------------------------------------------------------------------

Next ==
  \/ \E a \in Accounts : Enter(a)
  \/ Leave \/ Edit \/ Wish \/ Offer \/ Fade
  \/ user # None /\ \E v \in Versions(user) :
       Keep(v) \/ Take(v) \/ Rebase(v) \/ Confirm(v) \/ Dispute(v)
  \/ Dispute(None)
  \/ \E o \in offers : Accept(o)
  \/ \E a \in Accounts, items \in SUBSET Items : Elsewhere(a, items)

Spec == Init /\ [][Next]_vars

=============================================================================
