----------------------------- MODULE Credentials -----------------------------
(***************************************************************************)
(* How the client keeps a login: the credential vault over the system      *)
(* keychain and auth-session.json, the two halves of a login, the refresh  *)
(* of tokens inside a request, and the ways a session ends.                *)
(*                                                                         *)
(* `secret` (keychain entry) and `control` (auth-session.json) are two     *)
(* stores that are written one after the other and may fail separately: w  *)
(* says whether the control file could be written, d whether the entry     *)
(* could be deleted, s whether it could be set.  `relogin` and `importing` *)
(* are what the migration journal says about sessions.  All four survive   *)
(* a crash.                                                                *)
(*                                                                         *)
(* A session id is activated at most once per process, so comparing the    *)
(* generation of a lease besides its id adds nothing and is left out; the  *)
(* generation a login captured is kept as the outcome of its comparison:   *)
(* `login` is the attempt whose answer still counts.  Sync allows one      *)
(* request at a time (push_lock), hence one `req`.                         *)
(*                                                                         *)
(* A definition whose name ends in Bug is a plausible mistake in the       *)
(* definition that follows it and is used by nothing.                      *)
(***************************************************************************)
EXTENDS Naturals

CONSTANTS
  Accounts,     \* (server URL, account id) pairs
  None,         \* absent value
  MaxSessions,  \* bound: sessions the server issues
  MaxTokens,    \* bound: refreshes per session
  MaxFaults     \* bound: steps in which a store fails, and crashes

Sessions == 1 .. MaxSessions

Secrets == [id : Sessions, acct : Accounts, token : Nat]
Leases  == [id : Sessions, acct : Accounts]

Requests == [phase : {"idle", "first", "refresh", "second", "lost"},
             id : Sessions \cup {None}, token : Nat,
             reply : {"none", "fresh", "refused"}]

ASSUME BoundsAssumption ==
  /\ MaxSessions \in Nat /\ MaxTokens \in Nat /\ MaxFaults \in Nat

\* None stands for Rust's Option::None and is no other value of the model.
ASSUME NoneAssumption ==
  /\ None \notin Accounts /\ None \notin Nat
  /\ None \notin Secrets /\ None \notin Leases

VARIABLES
  secret,     \* keychain entry: a SavedSession, or None
  control,    \* session id in auth-session.json, or None
  relogin,    \* journal: requires_login
  importing,  \* journal: a phase that is not finished, so writes are blocked
  up,         \* the process runs
  active,     \* VaultState::active
  client,     \* the ApiClient installed in AuthInner: its lease
  login,      \* account of the login request whose answer counts, or None
  cancelled,  \* accounts of login requests that were cancelled but are still out
  req,        \* the request in flight
  issued,     \* sessions issued so far
  newest,     \* newest[n]: token of session n that the server accepts
  revoked     \* sessions the server has ended

\* Auxiliary variables: history that the properties talk about.
VARIABLES
  wanted,     \* account the user last asked for and was not told to have lost
  leaked,     \* ended sessions of which neither store could be changed
  excused,    \* sessions that may end: the user, the server or a store ended them
  faults

durable    == <<secret, control, relogin, importing>>
volatile   == <<active, client, login, cancelled>>
serverVars == <<issued, newest, revoked>>
vars == <<durable, up, volatile, req, serverVars, wanted, leaked, excused, faults>>

-----------------------------------------------------------------------------
(* The two stores and the vault over them *)

Spend(bad) == /\ bad => faults < MaxFaults
              /\ faults' = IF bad THEN faults + 1 ELSE faults

\* KeychainStore::load: both stores must tell of the same session.
StoredBug(id) == secret # None /\ secret.id = id

Stored(id) == secret # None /\ secret.id = id /\ control = id

\* KeychainStore::clear: block the next start first, then delete.
Cleared(w, d) == /\ secret' = IF d THEN None ELSE secret
                 /\ control' = IF w THEN None ELSE control

\* The saved tokens of the session in use, replaced by the server's newest.
RotatedBug(n) == secret

Rotated(n) == [secret EXCEPT !.token = newest[n]]

\* A lease whose session is not active any more reads and writes nothing.
Stale(id) == active # id

NoRequest == [phase |-> "idle", id |-> None, token |-> 0, reply |-> "none"]

\* Every await in a request is followed by a look at the lease.
Checked(next, readable) ==
  IF Stale(req.id) THEN NoRequest
  ELSE IF readable /\ Stored(req.id) THEN next
  ELSE [req EXCEPT !.phase = "lost", !.reply = "none"]

Excuse(ids) == excused' = excused \cup ids

ClientIds == IF client = None THEN {} ELSE {client.id}

-----------------------------------------------------------------------------
(* Ends of a session *)

\* An ended session may come back only if no store was changed and the journal
\* does not demand a login.
Leaks(blocked) ==
  leaked' = IF blocked \/ secret = None THEN leaked ELSE leaked \cup {secret.id}

\* What logout, a lost session and an import have in common; fenced: the journal
\* demands a login.
Reset(w, d, fenced) ==
  /\ Cleared(w, d)
  /\ active' = None /\ client' = None
  /\ login' = None
  /\ cancelled' = cancelled \cup ({login} \ {None})
  /\ wanted' = None
  /\ Leaks(w \/ d \/ fenced)
  /\ Spend(~(w /\ d))

Logout(w, d) ==
  /\ up
  /\ Reset(w, d, relogin)
  /\ Excuse(ClientIds)
  /\ UNCHANGED <<relogin, importing, up, req, serverVars>>

\* lose_session closes only the very session whose request failed.
ExpectedBug == client # None

ExpectedLiveBug == client # None /\ client.id = req.id /\ ~Stale(req.id)

Expected == client # None /\ client.id = req.id

LoseSession(w, d) ==
  /\ req.phase = "lost"
  /\ req' = NoRequest
  /\ IF Expected
     THEN Reset(w, d, relogin)
     ELSE w /\ d /\ UNCHANGED <<secret, control, volatile, wanted, leaked, faults>>
  /\ UNCHANGED <<relogin, importing, up, serverVars, excused>>

\* An import stopped before it was authorised to publish: the session lives on.
ImportStarts ==
  /\ up /\ ~importing
  /\ importing' = TRUE
  /\ UNCHANGED <<secret, control, relogin, up, volatile, req, serverVars,
                 wanted, leaked, excused, faults>>

\* The import is authorised: the journal demands a new login before the vault is asked.
ImportRevokes(w, d) ==
  /\ up /\ importing
  /\ relogin' = TRUE
  /\ Reset(w, d, TRUE)
  /\ Excuse(ClientIds)
  /\ UNCHANGED <<importing, up, req, serverVars>>

\* Committed, cancelled, or (kept) ended by keeping the current files.
ImportEnds(kept, w, d) ==
  /\ up /\ importing
  /\ importing' = FALSE
  /\ relogin' = (relogin \/ kept)
  /\ IF relogin \/ kept
     THEN Reset(w, d, TRUE) /\ Excuse(ClientIds)
     ELSE w /\ d /\ UNCHANGED <<secret, control, volatile, wanted, leaked, excused, faults>>
  /\ UNCHANGED <<up, req, serverVars>>

-----------------------------------------------------------------------------
(* Login in two halves, with the request to the server in between *)

LoginStart(a, w, d) ==
  /\ up /\ ~importing /\ login = None /\ client = None
  /\ Cleared(w, d)
  /\ active' = None
  /\ login' = IF d THEN a ELSE None
  /\ wanted' = login'
  /\ Leaks(w \/ d \/ relogin)
  /\ Spend(~(w /\ d))
  /\ UNCHANGED <<relogin, importing, up, client, cancelled, req, serverVars, excused>>

\* The answer belongs to the attempt the user still waits for.
CurrentBug(a) == a \in cancelled \cup ({login} \ {None})

Current(a) == login = a

LoginDropped(a) ==
  /\ up /\ a \in cancelled
  /\ cancelled' = cancelled \ {a}
  /\ UNCHANGED <<durable, up, active, client, login, req, serverVars,
                 wanted, leaked, excused, faults>>

\* Wrong password, no answer, no archive of another owner's data, no record of
\* the new login in the journal.
LoginFails(a) ==
  /\ up /\ Current(a)
  /\ login' = None
  /\ wanted' = None
  /\ UNCHANGED <<durable, up, active, client, cancelled, req, serverVars,
                 leaked, excused, faults>>

New(a) == [id |-> issued + 1, acct |-> a, token |-> 0]

\* The server accepted, and the journal no longer demands a login.
Accepted(a) ==
  /\ up /\ Current(a) /\ ~importing
  /\ issued < MaxSessions
  /\ issued' = issued + 1
  /\ relogin' = FALSE
  /\ login' = None

LoginSucceeds(a) ==
  /\ Accepted(a)
  /\ secret' = New(a) /\ control' = issued'
  /\ active' = issued'
  /\ client' = [id |-> issued', acct |-> a]
  /\ UNCHANGED <<importing, up, cancelled, req, newest, revoked,
                 wanted, leaked, excused, faults>>

\* CredentialVault::activate could not save: whatever is left must not be a login.
ActivateFails(a, s, w, d) ==
  /\ Accepted(a)
  /\ secret' = IF d THEN None ELSE IF s THEN New(a) ELSE secret
  /\ control' = IF w THEN None ELSE control
  /\ active' = None /\ client' = None
  /\ wanted' = None
  /\ Spend(TRUE)
  /\ UNCHANGED <<importing, up, cancelled, req, newest, revoked, leaked, excused>>

Down ==
  /\ up' = FALSE
  /\ active' = None /\ client' = None /\ login' = None /\ cancelled' = {}
  /\ req' = NoRequest

\* The process dies between the keychain entry and the control file.
DieSaving(a) ==
  /\ up /\ Current(a) /\ ~importing
  /\ issued < MaxSessions
  /\ issued' = issued + 1
  /\ relogin' = FALSE
  /\ secret' = New(a)
  /\ Down
  /\ wanted' = None
  /\ Spend(TRUE)
  /\ UNCHANGED <<control, importing, newest, revoked, leaked, excused>>

-----------------------------------------------------------------------------
(* A request under a lease: try, refresh once after a 401, try again *)

\* A failed read of the stores is a reason for the session to end.
Read(readable) == /\ Spend(~readable)
                  /\ Excuse(IF readable THEN {} ELSE {req'.id} \ {None})

BeginRequest(readable) ==
  /\ up /\ req.phase = "idle"
  /\ client # None /\ ~Stale(client.id)
  /\ req' = [NoRequest EXCEPT
               !.id = client.id,
               !.phase = IF readable /\ Stored(client.id) THEN "first" ELSE "lost",
               !.token = IF secret = None THEN 0 ELSE secret.token]
  /\ Read(readable)
  /\ UNCHANGED <<durable, up, volatile, serverVars, wanted, leaked>>

\* Whoever sees a 401 with tokens that were replaced meanwhile uses the new ones.
Retry == IF secret.token = req.token THEN [req EXCEPT !.phase = "refresh"]
         ELSE [req EXCEPT !.phase = "second", !.token = secret.token]

FirstAnswer(expired, readable) ==
  /\ req.phase = "first"
  /\ req' = Checked(IF expired THEN Retry ELSE NoRequest, readable)
  /\ Read(readable)
  /\ UNCHANGED <<durable, up, volatile, serverVars, wanted, leaked>>

\* The answer to the refresh does not arrive: no proof that the session is over.
RefreshLost(readable) ==
  /\ req.phase = "refresh"
  /\ req' = Checked(NoRequest, readable)
  /\ Spend(~readable)
  /\ Excuse(IF readable /\ req.reply # "fresh" THEN {} ELSE {req.id})
  /\ UNCHANGED <<durable, up, volatile, serverVars, wanted, leaked>>

\* replace_tokens saves the new tokens of a session that is still active.
RefreshSaved ==
  /\ req.phase = "refresh" /\ req.reply = "fresh"
  /\ ~Stale(req.id) /\ Stored(req.id)
  /\ secret' = IF secret.token = req.token THEN Rotated(req.id) ELSE secret
  /\ req' = [req EXCEPT !.phase = "second", !.token = secret'.token, !.reply = "none"]
  /\ UNCHANGED <<control, relogin, importing, up, volatile, serverVars,
                 wanted, leaked, excused, faults>>

\* The entry was not written (~s), or the control file was not and the entry had
\* to be deleted again (d).
RefreshUnsaved(s, d) ==
  /\ req.phase = "refresh" /\ req.reply = "fresh"
  /\ ~Stale(req.id) /\ Stored(req.id)
  /\ secret' = IF ~s THEN secret ELSE IF d THEN None ELSE Rotated(req.id)
  /\ req' = [req EXCEPT !.phase = "lost", !.reply = "none"]
  /\ Spend(TRUE)
  /\ Excuse({req.id})
  /\ UNCHANGED <<control, relogin, importing, up, volatile, serverVars, wanted, leaked>>

\* reject_refresh: the server refused the tokens, if they are still the stored ones
\* the session is over.
RefreshRefused(w, d) ==
  /\ req.phase = "refresh" /\ req.reply = "refused"
  /\ ~Stale(req.id) /\ Stored(req.id)
  /\ IF secret.token # req.token
     THEN /\ req' = [req EXCEPT !.phase = "second", !.token = secret.token, !.reply = "none"]
          /\ w /\ d /\ UNCHANGED <<secret, control, active>>
     ELSE /\ req' = [req EXCEPT !.phase = "lost", !.reply = "none"]
          /\ Cleared(w, d)
          /\ active' = None
  /\ Spend(~(w /\ d))
  /\ UNCHANGED <<relogin, importing, up, client, login, cancelled, serverVars,
                 wanted, leaked, excused>>

\* Any answer to a refresh of a session that is over, or that cannot be read.
RefreshDropped(readable) ==
  /\ req.phase = "refresh" /\ req.reply # "none"
  /\ Stale(req.id) \/ ~readable \/ ~Stored(req.id)
  /\ req' = Checked(req, readable)
  /\ Spend(~readable)
  /\ Excuse(IF readable THEN {} ELSE {req.id})
  /\ UNCHANGED <<durable, up, volatile, serverVars, wanted, leaked>>

SecondAnswer(refused, readable) ==
  /\ req.phase = "second"
  /\ refused => req.id \in revoked
  /\ req' = Checked(IF refused THEN [req EXCEPT !.phase = "lost"] ELSE NoRequest, readable)
  /\ Read(readable)
  /\ UNCHANGED <<durable, up, volatile, serverVars, wanted, leaked>>

-----------------------------------------------------------------------------
(* The server, and crashes *)

\* A refresh token is good for one refresh.
ServerRefresh ==
  /\ req.phase = "refresh" /\ req.reply = "none"
  /\ IF req.token = newest[req.id] /\ req.id \notin revoked
     THEN /\ newest[req.id] < MaxTokens
          /\ newest' = [newest EXCEPT ![req.id] = @ + 1]
          /\ req' = [req EXCEPT !.reply = "fresh"]
     ELSE /\ req' = [req EXCEPT !.reply = "refused"]
          /\ UNCHANGED newest
  /\ UNCHANGED <<durable, up, volatile, issued, revoked, wanted, leaked, excused, faults>>

\* Expiry, a logout elsewhere, or a refresh that arrives after its caller gave up.
ServerRevokes(id) ==
  /\ id \in (1 .. issued) \ revoked
  /\ revoked' = revoked \cup {id}
  /\ Excuse({id})
  /\ UNCHANGED <<durable, up, volatile, req, issued, newest, wanted, leaked, faults>>

Crash ==
  /\ up
  /\ Down
  /\ Spend(TRUE)
  /\ Excuse(IF req.reply = "fresh" THEN {req.id} ELSE {})
  /\ UNCHANGED <<durable, serverVars, wanted, leaked>>

\* Start-up: an import that had staged nothing is dropped (settled); then the stored
\* session is restored unless the journal forbids it.
Start(settled, readable) ==
  /\ ~up
  /\ settled => importing
  /\ up' = TRUE
  /\ importing' = (importing /\ ~settled)
  /\ IF ~importing' /\ ~relogin /\ readable /\ secret # None /\ Stored(secret.id)
     THEN /\ active' = secret.id
          /\ client' = [id |-> secret.id, acct |-> secret.acct]
     ELSE UNCHANGED <<active, client>>
  /\ Spend(~readable)
  /\ UNCHANGED <<secret, control, relogin, login, cancelled, req, serverVars,
                 wanted, leaked, excused>>

-----------------------------------------------------------------------------
(* Specification *)

Init ==
  /\ secret = None /\ control = None
  /\ relogin = FALSE /\ importing = FALSE
  /\ up = TRUE /\ active = None /\ client = None
  /\ login = None /\ cancelled = {} /\ req = NoRequest
  /\ issued = 0 /\ newest = [n \in Sessions |-> 0] /\ revoked = {}
  /\ wanted = None /\ leaked = {} /\ excused = {} /\ faults = 0

User ==
  \/ \E w, d \in BOOLEAN : \/ \E a \in Accounts : LoginStart(a, w, d)
                           \/ Logout(w, d)
  \/ ImportStarts
  \/ \E w, d \in BOOLEAN : \/ ImportRevokes(w, d)
                           \/ \E kept \in BOOLEAN : ImportEnds(kept, w, d)

Answers ==
  \/ \E a \in Accounts : \/ LoginDropped(a) \/ LoginFails(a) \/ LoginSucceeds(a)
                         \/ \E s, w, d \in BOOLEAN : ActivateFails(a, s, w, d)
                         \/ DieSaving(a)

Request ==
  \/ \E readable \in BOOLEAN :
       \/ \E expired \in BOOLEAN : FirstAnswer(expired, readable)
       \/ RefreshLost(readable) \/ RefreshDropped(readable)
       \/ \E refused \in BOOLEAN : SecondAnswer(refused, readable)
  \/ RefreshSaved
  \/ \E s, d \in BOOLEAN : RefreshUnsaved(s, d)
  \/ \E w, d \in BOOLEAN : RefreshRefused(w, d) \/ LoseSession(w, d)

Environment ==
  \/ ServerRefresh
  \/ \E id \in Sessions : ServerRevokes(id)
  \/ Crash
  \/ \E settled, readable \in BOOLEAN : Start(settled, readable)

Next == \/ User \/ Answers \/ Request \/ Environment
        \/ \E readable \in BOOLEAN : BeginRequest(readable)

Spec == Init /\ [][Next]_vars

\* A request that was begun is answered or times out, and is then finished.
Fairness == WF_vars(Request)

FairSpec == Spec /\ Fairness

-----------------------------------------------------------------------------
(* Properties *)

\* Every variable keeps its type, and nothing volatile survives the process
\* (AppState::new).
TypeOK ==
  /\ secret \in Secrets \cup {None}
  /\ control \in Sessions \cup {None}
  /\ relogin \in BOOLEAN /\ importing \in BOOLEAN /\ up \in BOOLEAN
  /\ active \in Sessions \cup {None}
  /\ client \in Leases \cup {None}
  /\ login \in Accounts \cup {None}
  /\ cancelled \subseteq Accounts
  /\ req \in Requests
  /\ issued \in 0 .. MaxSessions
  /\ newest \in [Sessions -> Nat]
  /\ revoked \subseteq Sessions
  /\ wanted \in Accounts \cup {None}
  /\ leaked \subseteq Sessions /\ excused \subseteq Sessions
  /\ faults \in 0 .. MaxFaults
  /\ ~up => /\ active = None /\ client = None /\ login = None
            /\ cancelled = {} /\ req = NoRequest

\* Whoever is logged in is the account the user last asked for.  A session that
\* the user, the server or an import ended never comes back, neither by a late
\* answer nor by a restart, unless both stores refused to forget it ("logout
\* first blocks the recovery", docs/migration-progress.md:60).
SessionAsWanted ==
  client # None => client.acct = wanted \/ client.id \in leaked

\* The client the engine uses has a live lease; if the server or a store ended the
\* session, the request that noticed is about to close it (reject_refresh, fail).
ClientIsLive ==
  client # None =>
    active = client.id \/ (req.phase = "lost" /\ req.id = client.id)

\* A session in use can be restored with the tokens the server accepts, in spite
\* of rotations, crashes and answers to other sessions (replace_tokens, save).
ActiveIsStored ==
  active # None /\ active \notin excused =>
    /\ Stored(active)
    /\ \/ secret.token = newest[active]
       \/ req.id = active /\ req.reply = "fresh"

\* A session ends only for a reason of its own: no late answer to an earlier
\* session, network error or cancelled login logs the user out (lose_session).
LossHasCause ==
  [][client # None /\ client' # client => ~up' \/ client.id \in excused']_vars

\* A session whose lease died is closed, so that the user is asked to log in.
DeadSessionIsClosed ==
  (client # None /\ active # client.id) ~> client = None

-----------------------------------------------------------------------------
(* The inductive invariant behind the safety properties (CredentialsProofs) *)

\* Every id in use was issued, and the others are still fresh.
IssuedOK ==
  /\ \A n \in Sessions : n > issued => newest[n] = 0
  /\ active # None => active <= issued
  /\ secret # None => secret.id <= issued
  /\ control # None => control <= issued
  /\ req.id # None => req.id <= issued

\* While a login request is out there is nobody to restore.
LoginOK == login # None => client = None /\ secret = None /\ wanted = login

\* The vault's session is the client's, and the disk agrees on whose it is.
VaultOK ==
  /\ active # None => client # None /\ client.id = active
  /\ client # None /\ secret # None /\ secret.id = client.id => secret.acct = client.acct

\* Whom a restart would restore.
RestorableAsWanted ==
  secret # None /\ control = secret.id /\ ~relogin =>
    secret.acct = wanted \/ secret.id \in leaked

\* A request uses the stored tokens, and one that ends its session has a reason to.
RequestOK ==
  /\ req.phase # "idle" <=> req.id # None
  /\ req.reply # "none" => req.phase = "refresh"
  /\ req.phase \in {"first", "refresh"} /\ secret # None /\ secret.id = req.id =>
       secret.token = req.token
  /\ req.id # None =>
       \/ req.id \in excused
       \/ req.id = active /\ req.phase # "lost" /\ req.reply # "refused"

\* The tokens on disk are the newest, or the newest are about to be saved.
TokensOK ==
  /\ revoked \subseteq excused
  /\ secret # None /\ secret.id \notin excused =>
       \/ secret.token = newest[secret.id]
       \/ req.id = secret.id /\ req.reply = "fresh"
  /\ active # None /\ active \notin excused => Stored(active)

Consistent == /\ TypeOK /\ IssuedOK /\ LoginOK /\ VaultOK /\ RestorableAsWanted
              /\ RequestOK /\ TokensOK /\ SessionAsWanted /\ ClientIsLive

=============================================================================
