-------------------------- MODULE CredentialsProofs --------------------------
(***************************************************************************)
(* Proof that Consistent is an inductive invariant of Credentials, and of  *)
(* what follows from it.  Each lemma shows that one action preserves it.   *)
(***************************************************************************)
EXTENDS Credentials, TLAPS

USE DEF Consistent, durable, volatile, serverVars, Sessions


\* A logout closes the session in use, with either file failing to go.
LEMMA LogoutStep ==
  ASSUME Consistent, NEW w \in BOOLEAN, NEW d \in BOOLEAN, Logout(w, d)
  PROVE  Consistent'
<1>1. TypeOK'
  <2>1. faults' \in 0 .. MaxFaults
    BY BoundsAssumption DEF TypeOK, Logout, Reset, Spend
  <2>2. req' \in Requests
    BY DEF TypeOK, Logout, Excuse, ClientIds
  <2>3. secret' \in Secrets \cup {None} /\ control' \in Sessions \cup {None}
    BY DEF TypeOK, Logout, Reset, Cleared, ClientIds
  <2>4. active' \in Sessions \cup {None} /\ client' \in Leases \cup {None}
    BY DEF Logout, Reset
  <2>5. leaked' \subseteq Sessions /\ excused' \subseteq Sessions /\ issued' \in 0 .. MaxSessions
    BY DEF TypeOK, Secrets, Leases, Logout, Reset, Leaks, Excuse, ClientIds
  <2>6. QED
    BY <2>1, <2>2, <2>3, <2>4, <2>5 DEF TypeOK, Logout, Reset
<1>2. IssuedOK'
  BY DEF IssuedOK, TokensOK, SessionAsWanted, ClientIsLive, Logout, Reset, Cleared,
      Leaks, Excuse, ClientIds
<1>3. LoginOK'
  BY DEF LoginOK, TokensOK, SessionAsWanted, ClientIsLive, Logout, Reset, Cleared,
      Leaks, Excuse, ClientIds
<1>4. VaultOK'
  BY DEF VaultOK, TokensOK, SessionAsWanted, ClientIsLive, Logout, Reset, Cleared,
      Leaks, Excuse, ClientIds
<1>5. RestorableAsWanted'
  BY NoneAssumption DEF TypeOK, Secrets, RestorableAsWanted, RequestOK, TokensOK,
      SessionAsWanted, ClientIsLive, Logout, Reset, Cleared, Leaks, Excuse, ClientIds
<1>6. RequestOK'
  BY DEF VaultOK, RequestOK, TokensOK, SessionAsWanted, ClientIsLive, Logout, Reset,
      Cleared, Leaks, Excuse, ClientIds
<1>7. TokensOK'
  BY DEF TokensOK, SessionAsWanted, ClientIsLive, Logout, Reset, Cleared, Leaks, Excuse,
      ClientIds
<1>8. SessionAsWanted'
  BY DEF SessionAsWanted, ClientIsLive, Logout, Reset, Cleared, Leaks, Excuse, ClientIds
<1>9. ClientIsLive'
  BY DEF ClientIsLive, Logout, Reset, Cleared, Leaks, Excuse, ClientIds
<1>10. QED
  BY <1>1, <1>2, <1>3, <1>4, <1>5, <1>6, <1>7, <1>8, <1>9

\* The flow that lost its session closes it, and no other.
LEMMA LoseSessionStep ==
  ASSUME Consistent, NEW w \in BOOLEAN, NEW d \in BOOLEAN, LoseSession(w, d)
  PROVE  Consistent'
<1>1. TypeOK'
  <2>1. faults' \in 0 .. MaxFaults
    BY BoundsAssumption DEF TypeOK, LoseSession, Reset, Spend
  <2>2. req' \in Requests
    BY DEF Requests, NoRequest, LoseSession, Leaks, Expected
  <2>3. secret' \in Secrets \cup {None} /\ control' \in Sessions \cup {None}
    BY DEF TypeOK, LoseSession, Reset, Cleared
  <2>4. active' \in Sessions \cup {None} /\ client' \in Leases \cup {None}
    BY DEF TypeOK, LoseSession, Reset
  <2>5. leaked' \subseteq Sessions /\ excused' \subseteq Sessions /\ issued' \in 0 .. MaxSessions
    BY DEF TypeOK, Secrets, LoseSession, Reset, Leaks
  <2>6. QED
    BY <2>1, <2>2, <2>3, <2>4, <2>5 DEF TypeOK, LoseSession, Reset
<1>2. IssuedOK'
  BY DEF NoRequest, IssuedOK, RequestOK, TokensOK, SessionAsWanted, ClientIsLive,
      LoseSession, Reset, Cleared, Leaks, Expected
<1>3. LoginOK'
  BY DEF LoginOK, TokensOK, SessionAsWanted, ClientIsLive, LoseSession, Reset, Cleared,
      Leaks, Expected
<1>4. VaultOK'
  BY DEF VaultOK, TokensOK, SessionAsWanted, ClientIsLive, LoseSession, Reset, Cleared,
      Leaks, Expected
<1>5. RestorableAsWanted'
  BY NoneAssumption DEF TypeOK, Secrets, RestorableAsWanted, RequestOK, TokensOK,
      SessionAsWanted, ClientIsLive, LoseSession, Reset, Cleared, Leaks, Expected
<1>6. RequestOK'
  BY DEF NoRequest, RequestOK, TokensOK, SessionAsWanted, ClientIsLive, LoseSession,
      Reset, Cleared, Leaks, Expected
<1>7. TokensOK'
  BY DEF Stored, RequestOK, TokensOK, SessionAsWanted, ClientIsLive, LoseSession, Reset,
      Cleared, Leaks, Expected
<1>8. SessionAsWanted'
  BY DEF SessionAsWanted, ClientIsLive, LoseSession, Reset, Cleared, Leaks, Expected
<1>9. ClientIsLive'
  BY DEF ClientIsLive, LoseSession, Reset, Cleared, Leaks, Expected
<1>10. QED
  BY <1>1, <1>2, <1>3, <1>4, <1>5, <1>6, <1>7, <1>8, <1>9

\* An import ends the session before it publishes.
LEMMA ImportRevokesStep ==
  ASSUME Consistent, NEW w \in BOOLEAN, NEW d \in BOOLEAN, ImportRevokes(w, d)
  PROVE  Consistent'
<1>1. TypeOK'
  <2>1. faults' \in 0 .. MaxFaults
    BY BoundsAssumption DEF TypeOK, ImportRevokes, Reset, Spend
  <2>2. req' \in Requests
    BY DEF TypeOK, ImportRevokes, Excuse, ClientIds
  <2>3. secret' \in Secrets \cup {None} /\ control' \in Sessions \cup {None}
    BY DEF TypeOK, ImportRevokes, Reset, Cleared, ClientIds
  <2>4. active' \in Sessions \cup {None} /\ client' \in Leases \cup {None}
    BY DEF ImportRevokes, Reset
  <2>5. leaked' \subseteq Sessions /\ excused' \subseteq Sessions /\ issued' \in 0 .. MaxSessions
    BY DEF TypeOK, Leases, ImportRevokes, Reset, Leaks, Excuse, ClientIds
  <2>6. QED
    BY <2>1, <2>2, <2>3, <2>4, <2>5 DEF TypeOK, ImportRevokes, Reset
<1>2. IssuedOK'
  BY DEF IssuedOK, TokensOK, SessionAsWanted, ClientIsLive, ImportRevokes, Reset,
      Cleared, Leaks, Excuse, ClientIds
<1>3. LoginOK'
  BY DEF LoginOK, TokensOK, SessionAsWanted, ClientIsLive, ImportRevokes, Reset,
      Cleared, Leaks, Excuse, ClientIds
<1>4. VaultOK'
  BY DEF VaultOK, TokensOK, SessionAsWanted, ClientIsLive, ImportRevokes, Reset,
      Cleared, Leaks, Excuse, ClientIds
<1>5. RestorableAsWanted'
  BY DEF RestorableAsWanted, TokensOK, SessionAsWanted, ClientIsLive, ImportRevokes,
      Reset, Cleared, Leaks, Excuse, ClientIds
<1>6. RequestOK'
  BY DEF VaultOK, RequestOK, TokensOK, SessionAsWanted, ClientIsLive, ImportRevokes,
      Reset, Cleared, Leaks, Excuse, ClientIds
<1>7. TokensOK'
  BY DEF TokensOK, SessionAsWanted, ClientIsLive, ImportRevokes, Reset, Cleared, Leaks,
      Excuse, ClientIds
<1>8. SessionAsWanted'
  BY DEF SessionAsWanted, ClientIsLive, ImportRevokes, Reset, Cleared, Leaks, Excuse,
      ClientIds
<1>9. ClientIsLive'
  BY DEF ClientIsLive, ImportRevokes, Reset, Cleared, Leaks, Excuse, ClientIds
<1>10. QED
  BY <1>1, <1>2, <1>3, <1>4, <1>5, <1>6, <1>7, <1>8, <1>9

\* An import ends with the session in use closed, or with nothing changed.
LEMMA ImportEndsStep ==
  ASSUME Consistent, NEW kept \in BOOLEAN, NEW w \in BOOLEAN, NEW d \in BOOLEAN, ImportEnds(kept, w, d)
  PROVE  Consistent'
<1>1. TypeOK'
  <2>1. faults' \in 0 .. MaxFaults
    BY BoundsAssumption DEF TypeOK, ImportEnds, Reset, Spend
  <2>2. req' \in Requests
    BY DEF TypeOK, ImportEnds, Excuse, ClientIds
  <2>3. secret' \in Secrets \cup {None} /\ control' \in Sessions \cup {None}
    BY DEF TypeOK, ImportEnds, Reset, Cleared, ClientIds
  <2>4. active' \in Sessions \cup {None} /\ client' \in Leases \cup {None}
    BY DEF TypeOK, ImportEnds, Reset
  <2>5. leaked' \subseteq Sessions /\ excused' \subseteq Sessions /\ issued' \in 0 .. MaxSessions
    BY DEF TypeOK, Leases, ImportEnds, Reset, Leaks, Excuse, ClientIds
  <2>6. QED
    BY <2>1, <2>2, <2>3, <2>4, <2>5 DEF TypeOK, ImportEnds, Reset
<1>2. IssuedOK'
  BY DEF IssuedOK, TokensOK, SessionAsWanted, ClientIsLive, ImportEnds, Reset, Cleared,
      Leaks, Excuse, ClientIds
<1>3. LoginOK'
  BY DEF LoginOK, TokensOK, SessionAsWanted, ClientIsLive, ImportEnds, Reset, Cleared,
      Leaks, Excuse, ClientIds
<1>4. VaultOK'
  BY DEF VaultOK, TokensOK, SessionAsWanted, ClientIsLive, ImportEnds, Reset, Cleared,
      Leaks, Excuse, ClientIds
<1>5. RestorableAsWanted'
  BY DEF TypeOK, RestorableAsWanted, RequestOK, TokensOK, SessionAsWanted, ClientIsLive,
      ImportEnds, Reset, Cleared, Leaks, Excuse, ClientIds
<1>6. RequestOK'
  BY DEF RequestOK, TokensOK, SessionAsWanted, ClientIsLive, ImportEnds, Reset, Cleared,
      Leaks, Excuse, ClientIds
<1>7. TokensOK'
  BY DEF Stored, TokensOK, SessionAsWanted, ClientIsLive, ImportEnds, Reset, Cleared,
      Leaks, Excuse, ClientIds
<1>8. SessionAsWanted'
  BY DEF SessionAsWanted, ClientIsLive, ImportEnds, Reset, Cleared, Leaks, Excuse,
      ClientIds
<1>9. ClientIsLive'
  BY DEF ClientIsLive, ImportEnds, Reset, Cleared, Leaks, Excuse, ClientIds
<1>10. QED
  BY <1>1, <1>2, <1>3, <1>4, <1>5, <1>6, <1>7, <1>8, <1>9

\* A login begins by closing the session in use.
LEMMA LoginStartStep ==
  ASSUME Consistent, NEW a \in Accounts, NEW w \in BOOLEAN, NEW d \in BOOLEAN, LoginStart(a, w, d)
  PROVE  Consistent'
<1>1. TypeOK'
  <2>1. faults' \in 0 .. MaxFaults
    BY BoundsAssumption DEF TypeOK, LoginStart, Spend
  <2>2. req' \in Requests
    BY DEF TypeOK, LoginStart
  <2>3. secret' \in Secrets \cup {None} /\ control' \in Sessions \cup {None}
    BY DEF TypeOK, LoginStart, Cleared
  <2>4. active' \in Sessions \cup {None} /\ client' \in Leases \cup {None}
    BY DEF LoginStart
  <2>5. leaked' \subseteq Sessions /\ excused' \subseteq Sessions /\ issued' \in 0 .. MaxSessions
    BY DEF TypeOK, Secrets, LoginStart, Leaks
  <2>6. QED
    BY <2>1, <2>2, <2>3, <2>4, <2>5 DEF TypeOK, LoginStart
<1>2. IssuedOK'
  BY DEF IssuedOK, TokensOK, SessionAsWanted, ClientIsLive, LoginStart, Cleared, Leaks
<1>3. LoginOK'
  BY DEF LoginOK, TokensOK, SessionAsWanted, ClientIsLive, LoginStart, Cleared, Leaks
<1>4. VaultOK'
  BY DEF VaultOK, TokensOK, SessionAsWanted, ClientIsLive, LoginStart, Cleared, Leaks
<1>5. RestorableAsWanted'
  BY NoneAssumption DEF TypeOK, Secrets, RestorableAsWanted, RequestOK, TokensOK,
      SessionAsWanted, ClientIsLive, LoginStart, Cleared, Leaks
<1>6. RequestOK'
  BY DEF VaultOK, RequestOK, TokensOK, SessionAsWanted, ClientIsLive, LoginStart,
      Cleared, Leaks
<1>7. TokensOK'
  BY DEF TokensOK, ClientIsLive, LoginStart, Cleared, Leaks
<1>8. SessionAsWanted'
  BY DEF SessionAsWanted, ClientIsLive, LoginStart, Cleared, Leaks
<1>9. ClientIsLive'
  BY DEF ClientIsLive, LoginStart, Cleared, Leaks
<1>10. QED
  BY <1>1, <1>2, <1>3, <1>4, <1>5, <1>6, <1>7, <1>8, <1>9

\* The answer that counts installs and stores a fresh session.
LEMMA LoginSucceedsStep ==
  ASSUME Consistent, NEW a \in Accounts, LoginSucceeds(a)
  PROVE  Consistent'
<1>1. TypeOK'
  <2>1. faults' \in 0 .. MaxFaults
    BY DEF TypeOK, LoginSucceeds
  <2>2. req' \in Requests
    BY DEF TypeOK, LoginSucceeds
  <2>3. secret' \in Secrets \cup {None} /\ control' \in Sessions \cup {None}
    BY BoundsAssumption DEF TypeOK, Secrets, LoginSucceeds, Accepted, New
  <2>4. active' \in Sessions \cup {None} /\ client' \in Leases \cup {None}
    BY BoundsAssumption DEF TypeOK, Leases, LoginSucceeds, Accepted
  <2>5. leaked' \subseteq Sessions /\ excused' \subseteq Sessions /\ issued' \in 0 .. MaxSessions
    BY BoundsAssumption DEF TypeOK, LoginSucceeds, Accepted
  <2>6. QED
    BY <2>1, <2>2, <2>3, <2>4, <2>5 DEF TypeOK, LoginSucceeds, Accepted
<1>2. IssuedOK'
  BY DEF TypeOK, Requests, IssuedOK, RequestOK, TokensOK, SessionAsWanted, ClientIsLive,
      LoginSucceeds, Accepted, New, Current
<1>3. LoginOK'
  BY DEF LoginOK, TokensOK, SessionAsWanted, ClientIsLive, LoginSucceeds, Accepted, New,
      Current
<1>4. VaultOK'
  BY BoundsAssumption, NoneAssumption DEF TypeOK, Leases, VaultOK, RequestOK, TokensOK,
      SessionAsWanted, ClientIsLive, LoginSucceeds, Accepted, New, Current
<1>5. RestorableAsWanted'
  BY NoneAssumption DEF LoginOK, RestorableAsWanted, RequestOK, TokensOK,
      SessionAsWanted, ClientIsLive, LoginSucceeds, Accepted, New, Current
<1>6. RequestOK'
  BY NoneAssumption DEF TypeOK, IssuedOK, LoginOK, VaultOK, RequestOK, TokensOK,
      SessionAsWanted, ClientIsLive, LoginSucceeds, Accepted, New, Current
<1>7. TokensOK'
  BY BoundsAssumption, NoneAssumption DEF TypeOK, Secrets, Stored, IssuedOK, RequestOK,
      TokensOK, SessionAsWanted, ClientIsLive, LoginSucceeds, Accepted, New, Current
<1>8. SessionAsWanted'
  BY NoneAssumption DEF LoginOK, TokensOK, SessionAsWanted, ClientIsLive, LoginSucceeds,
      Accepted, New, Current
<1>9. ClientIsLive'
  BY DEF ClientIsLive, LoginSucceeds, Accepted, New, Current
<1>10. QED
  BY <1>1, <1>2, <1>3, <1>4, <1>5, <1>6, <1>7, <1>8, <1>9

\* A session that cannot be stored is not installed.
LEMMA ActivateFailsStep ==
  ASSUME Consistent, NEW a \in Accounts, NEW s \in BOOLEAN, NEW w \in BOOLEAN, NEW d \in BOOLEAN, ActivateFails(a, s, w, d)
  PROVE  Consistent'
<1>1. TypeOK'
  <2>1. faults' \in 0 .. MaxFaults
    BY BoundsAssumption DEF TypeOK, ActivateFails, Spend
  <2>2. req' \in Requests
    BY DEF TypeOK, ActivateFails
  <2>3. secret' \in Secrets \cup {None} /\ control' \in Sessions \cup {None}
    BY BoundsAssumption DEF TypeOK, Secrets, ActivateFails, Accepted, New
  <2>4. active' \in Sessions \cup {None} /\ client' \in Leases \cup {None}
    BY DEF ActivateFails
  <2>5. leaked' \subseteq Sessions /\ excused' \subseteq Sessions /\ issued' \in 0 .. MaxSessions
    BY BoundsAssumption DEF TypeOK, ActivateFails, Accepted
  <2>6. QED
    BY <2>1, <2>2, <2>3, <2>4, <2>5 DEF TypeOK, ActivateFails, Accepted
<1>2. IssuedOK'
  BY DEF TypeOK, Secrets, Requests, IssuedOK, LoginOK, RequestOK, TokensOK,
      SessionAsWanted, ClientIsLive, ActivateFails, Accepted, New, Current
<1>3. LoginOK'
  BY DEF LoginOK, TokensOK, SessionAsWanted, ClientIsLive, ActivateFails, Accepted, New,
      Current
<1>4. VaultOK'
  BY DEF VaultOK, TokensOK, SessionAsWanted, ClientIsLive, ActivateFails, Accepted, New,
      Current
<1>5. RestorableAsWanted'
  BY NoneAssumption DEF TypeOK, IssuedOK, LoginOK, RestorableAsWanted, RequestOK,
      TokensOK, SessionAsWanted, ClientIsLive, ActivateFails, Accepted, New, Current
<1>6. RequestOK'
  BY NoneAssumption DEF TypeOK, IssuedOK, LoginOK, VaultOK, RequestOK, TokensOK,
      SessionAsWanted, ClientIsLive, ActivateFails, Accepted, New, Current
<1>7. TokensOK'
  BY BoundsAssumption DEF TypeOK, IssuedOK, RequestOK, TokensOK, SessionAsWanted,
      ClientIsLive, ActivateFails, Accepted, New, Current
<1>8. SessionAsWanted'
  BY DEF SessionAsWanted, ClientIsLive, ActivateFails, Accepted, New, Current
<1>9. ClientIsLive'
  BY DEF ClientIsLive, ActivateFails, Accepted, New, Current
<1>10. QED
  BY <1>1, <1>2, <1>3, <1>4, <1>5, <1>6, <1>7, <1>8, <1>9

\* The process may die with half of a session stored.
LEMMA DieSavingStep ==
  ASSUME Consistent, NEW a \in Accounts, DieSaving(a)
  PROVE  Consistent'
<1>1. TypeOK'
  <2>1. faults' \in 0 .. MaxFaults
    BY BoundsAssumption DEF TypeOK, DieSaving, Spend
  <2>2. req' \in Requests
    BY DEF Requests, NoRequest, DieSaving, Down, Current
  <2>3. secret' \in Secrets \cup {None} /\ control' \in Sessions \cup {None}
    BY BoundsAssumption DEF TypeOK, Secrets, DieSaving, New
  <2>4. active' \in Sessions \cup {None} /\ client' \in Leases \cup {None}
    BY DEF DieSaving, Down
  <2>5. leaked' \subseteq Sessions /\ excused' \subseteq Sessions /\ issued' \in 0 .. MaxSessions
    BY BoundsAssumption DEF TypeOK, DieSaving
  <2>6. QED
    BY <2>1, <2>2, <2>3, <2>4, <2>5 DEF TypeOK, DieSaving, Down
<1>2. IssuedOK'
  BY DEF TypeOK, NoRequest, IssuedOK, RequestOK, TokensOK, SessionAsWanted,
      ClientIsLive, DieSaving, Down, New, Current
<1>3. LoginOK'
  BY DEF LoginOK, TokensOK, SessionAsWanted, ClientIsLive, DieSaving, Down, New, Current
<1>4. VaultOK'
  BY DEF VaultOK, TokensOK, SessionAsWanted, ClientIsLive, DieSaving, Down, New, Current
<1>5. RestorableAsWanted'
  BY NoneAssumption DEF TypeOK, IssuedOK, RestorableAsWanted, RequestOK, TokensOK,
      SessionAsWanted, ClientIsLive, DieSaving, Down, New, Current
<1>6. RequestOK'
  BY DEF NoRequest, RequestOK, TokensOK, SessionAsWanted, ClientIsLive, DieSaving, Down,
      New, Current
<1>7. TokensOK'
  BY BoundsAssumption DEF TypeOK, IssuedOK, RequestOK, TokensOK, SessionAsWanted,
      ClientIsLive, DieSaving, Down, New, Current
<1>8. SessionAsWanted'
  BY DEF SessionAsWanted, ClientIsLive, DieSaving, Down, New, Current
<1>9. ClientIsLive'
  BY DEF ClientIsLive, DieSaving, Down, New, Current
<1>10. QED
  BY <1>1, <1>2, <1>3, <1>4, <1>5, <1>6, <1>7, <1>8, <1>9

\* A request begins with the tokens that are stored.
LEMMA BeginRequestStep ==
  ASSUME Consistent, NEW readable \in BOOLEAN, BeginRequest(readable)
  PROVE  Consistent'
<1>1. TypeOK'
  <2>1. faults' \in 0 .. MaxFaults
    BY BoundsAssumption DEF TypeOK, BeginRequest, Read, Spend
  <2>2. req' \in Requests
    BY DEF TypeOK, Requests, NoRequest, Secrets, BeginRequest, Stale
  <2>3. secret' \in Secrets \cup {None} /\ control' \in Sessions \cup {None}
    BY DEF TypeOK, BeginRequest
  <2>4. active' \in Sessions \cup {None} /\ client' \in Leases \cup {None}
    BY DEF TypeOK, BeginRequest
  <2>5. leaked' \subseteq Sessions /\ excused' \subseteq Sessions /\ issued' \in 0 .. MaxSessions
    BY DEF TypeOK, BeginRequest, Read, Excuse, Stale
  <2>6. QED
    BY <2>1, <2>2, <2>3, <2>4, <2>5 DEF TypeOK, BeginRequest
<1>2. IssuedOK'
  BY DEF IssuedOK, TokensOK, SessionAsWanted, ClientIsLive, BeginRequest, Read, Excuse,
      Stale
<1>3. LoginOK'
  BY DEF LoginOK, TokensOK, SessionAsWanted, ClientIsLive, BeginRequest, Read, Excuse,
      Stale
<1>4. VaultOK'
  BY DEF VaultOK, TokensOK, SessionAsWanted, ClientIsLive, BeginRequest, Read, Excuse,
      Stale
<1>5. RestorableAsWanted'
  BY DEF RestorableAsWanted, TokensOK, SessionAsWanted, ClientIsLive, BeginRequest,
      Read, Excuse, Stale
<1>6. RequestOK'
  BY NoneAssumption DEF TypeOK, Leases, NoRequest, RequestOK, TokensOK, SessionAsWanted,
      ClientIsLive, BeginRequest, Read, Excuse, Stale
<1>7. TokensOK'
  BY DEF Stored, RequestOK, TokensOK, SessionAsWanted, ClientIsLive, BeginRequest, Read,
      Excuse, Stale
<1>8. SessionAsWanted'
  BY DEF SessionAsWanted, ClientIsLive, BeginRequest, Read, Excuse, Stale
<1>9. ClientIsLive'
  BY DEF ClientIsLive, BeginRequest, Read, Excuse, Stale
<1>10. QED
  BY <1>1, <1>2, <1>3, <1>4, <1>5, <1>6, <1>7, <1>8, <1>9

\* The first answer ends the request or asks for a refresh.
LEMMA FirstAnswerStep ==
  ASSUME Consistent, NEW expired \in BOOLEAN, NEW readable \in BOOLEAN, FirstAnswer(expired, readable)
  PROVE  Consistent'
<1>1. TypeOK'
  <2>1. faults' \in 0 .. MaxFaults
    BY BoundsAssumption DEF TypeOK, FirstAnswer, Read, Spend
  <2>2. req' \in Requests
    BY DEF TypeOK, Requests, NoRequest, Secrets, Stored, FirstAnswer, Checked, Stale,
        Retry
  <2>3. secret' \in Secrets \cup {None} /\ control' \in Sessions \cup {None}
    BY DEF TypeOK, FirstAnswer
  <2>4. active' \in Sessions \cup {None} /\ client' \in Leases \cup {None}
    BY DEF TypeOK, FirstAnswer
  <2>5. leaked' \subseteq Sessions /\ excused' \subseteq Sessions /\ issued' \in 0 .. MaxSessions
    BY DEF TypeOK, NoRequest, FirstAnswer, Read, Excuse, Checked, Stale, Retry
  <2>6. QED
    BY <2>1, <2>2, <2>3, <2>4, <2>5 DEF TypeOK, NoRequest, FirstAnswer
<1>2. IssuedOK'
  BY DEF NoRequest, IssuedOK, RequestOK, TokensOK, SessionAsWanted, ClientIsLive,
      FirstAnswer, Read, Excuse, Checked, Stale, Retry
<1>3. LoginOK'
  BY DEF LoginOK, TokensOK, SessionAsWanted, ClientIsLive, FirstAnswer, Read, Excuse,
      Checked, Stale, Retry
<1>4. VaultOK'
  BY DEF VaultOK, TokensOK, SessionAsWanted, ClientIsLive, FirstAnswer, Read, Excuse,
      Checked, Stale, Retry
<1>5. RestorableAsWanted'
  BY DEF RestorableAsWanted, TokensOK, SessionAsWanted, ClientIsLive, FirstAnswer, Read,
      Excuse, Checked, Stale, Retry
<1>6. RequestOK'
  BY DEF NoRequest, RequestOK, TokensOK, SessionAsWanted, ClientIsLive, FirstAnswer,
      Read, Excuse, Checked, Stale, Retry
<1>7. TokensOK'
  BY DEF Stored, RequestOK, TokensOK, SessionAsWanted, ClientIsLive, FirstAnswer, Read,
      Excuse, Checked, Stale, Retry
<1>8. SessionAsWanted'
  BY DEF SessionAsWanted, ClientIsLive, FirstAnswer, Read, Excuse, Checked, Stale, Retry
<1>9. ClientIsLive'
  BY DEF ClientIsLive, FirstAnswer, Read, Excuse, Checked, Stale, Retry
<1>10. QED
  BY <1>1, <1>2, <1>3, <1>4, <1>5, <1>6, <1>7, <1>8, <1>9

\* A refresh without an answer changes no tokens here.
LEMMA RefreshLostStep ==
  ASSUME Consistent, NEW readable \in BOOLEAN, RefreshLost(readable)
  PROVE  Consistent'
<1>1. TypeOK'
  <2>1. faults' \in 0 .. MaxFaults
    BY BoundsAssumption DEF TypeOK, RefreshLost, Spend
  <2>2. req' \in Requests
    BY DEF TypeOK, Requests, NoRequest, RefreshLost, Checked, Stale
  <2>3. secret' \in Secrets \cup {None} /\ control' \in Sessions \cup {None}
    BY DEF TypeOK, RefreshLost
  <2>4. active' \in Sessions \cup {None} /\ client' \in Leases \cup {None}
    BY DEF TypeOK, RefreshLost
  <2>5. leaked' \subseteq Sessions /\ excused' \subseteq Sessions /\ issued' \in 0 .. MaxSessions
    BY DEF TypeOK, RequestOK, RefreshLost, Excuse
  <2>6. QED
    BY <2>1, <2>2, <2>3, <2>4, <2>5 DEF TypeOK, NoRequest, RefreshLost
<1>2. IssuedOK'
  BY DEF NoRequest, IssuedOK, RequestOK, TokensOK, SessionAsWanted, ClientIsLive,
      RefreshLost, Excuse, Checked, Stale
<1>3. LoginOK'
  BY DEF LoginOK, TokensOK, SessionAsWanted, ClientIsLive, RefreshLost, Excuse, Checked,
      Stale
<1>4. VaultOK'
  BY DEF VaultOK, TokensOK, SessionAsWanted, ClientIsLive, RefreshLost, Excuse, Checked,
      Stale
<1>5. RestorableAsWanted'
  BY DEF RestorableAsWanted, TokensOK, SessionAsWanted, ClientIsLive, RefreshLost,
      Excuse, Checked, Stale
<1>6. RequestOK'
  BY DEF NoRequest, RequestOK, TokensOK, SessionAsWanted, ClientIsLive, RefreshLost,
      Excuse, Checked, Stale
<1>7. TokensOK'
  BY DEF Stored, TokensOK, SessionAsWanted, ClientIsLive, RefreshLost, Excuse, Checked,
      Stale
<1>8. SessionAsWanted'
  BY DEF SessionAsWanted, ClientIsLive, RefreshLost, Excuse, Checked, Stale
<1>9. ClientIsLive'
  BY DEF ClientIsLive, RefreshLost, Excuse, Checked, Stale
<1>10. QED
  BY <1>1, <1>2, <1>3, <1>4, <1>5, <1>6, <1>7, <1>8, <1>9

\* New tokens replace those that the request used.
LEMMA RefreshSavedStep ==
  ASSUME Consistent, RefreshSaved
  PROVE  Consistent'
<1>1. TypeOK'
  <2>1. faults' \in 0 .. MaxFaults
    BY DEF TypeOK, RefreshSaved
  <2>2. req' \in Requests
    BY DEF TypeOK, Requests, Secrets, Stored, RefreshSaved, Rotated
  <2>3. secret' \in Secrets \cup {None} /\ control' \in Sessions \cup {None}
    BY DEF TypeOK, Secrets, Stored, RefreshSaved, Rotated
  <2>4. active' \in Sessions \cup {None} /\ client' \in Leases \cup {None}
    BY DEF TypeOK, RefreshSaved
  <2>5. leaked' \subseteq Sessions /\ excused' \subseteq Sessions /\ issued' \in 0 .. MaxSessions
    BY DEF TypeOK, RefreshSaved
  <2>6. QED
    BY <2>1, <2>2, <2>3, <2>4, <2>5 DEF TypeOK, NoRequest, RefreshSaved
<1>2. IssuedOK'
  BY DEF Stored, IssuedOK, RequestOK, TokensOK, SessionAsWanted, ClientIsLive,
      RefreshSaved, Rotated, Stale
<1>3. LoginOK'
  BY DEF LoginOK, VaultOK, RequestOK, TokensOK, SessionAsWanted, ClientIsLive,
      RefreshSaved, Rotated, Stale
<1>4. VaultOK'
  BY DEF Stored, VaultOK, RequestOK, TokensOK, SessionAsWanted, ClientIsLive,
      RefreshSaved, Rotated, Stale
<1>5. RestorableAsWanted'
  BY DEF Stored, RestorableAsWanted, RequestOK, TokensOK, SessionAsWanted, ClientIsLive,
      RefreshSaved, Rotated, Stale
<1>6. RequestOK'
  BY DEF RequestOK, ClientIsLive, RefreshSaved, Rotated, Stale
<1>7. TokensOK'
  BY NoneAssumption DEF TypeOK, Secrets, Stored, RequestOK, TokensOK, SessionAsWanted,
      ClientIsLive, RefreshSaved, Rotated, Stale
<1>8. SessionAsWanted'
  BY DEF SessionAsWanted, ClientIsLive, RefreshSaved, Rotated, Stale
<1>9. ClientIsLive'
  BY DEF ClientIsLive, RefreshSaved, Rotated, Stale
<1>10. QED
  BY <1>1, <1>2, <1>3, <1>4, <1>5, <1>6, <1>7, <1>8, <1>9

\* New tokens that cannot be saved end the session.
LEMMA RefreshUnsavedStep ==
  ASSUME Consistent, NEW s \in BOOLEAN, NEW d \in BOOLEAN, RefreshUnsaved(s, d)
  PROVE  Consistent'
<1>1. TypeOK'
  <2>1. faults' \in 0 .. MaxFaults
    BY BoundsAssumption DEF TypeOK, RefreshUnsaved, Spend
  <2>2. req' \in Requests
    BY DEF TypeOK, Requests, RefreshUnsaved, Excuse
  <2>3. secret' \in Secrets \cup {None} /\ control' \in Sessions \cup {None}
    BY DEF TypeOK, Secrets, Stored, RefreshUnsaved, Rotated
  <2>4. active' \in Sessions \cup {None} /\ client' \in Leases \cup {None}
    BY DEF TypeOK, RefreshUnsaved
  <2>5. leaked' \subseteq Sessions /\ excused' \subseteq Sessions /\ issued' \in 0 .. MaxSessions
    BY DEF TypeOK, RequestOK, RefreshUnsaved, Excuse
  <2>6. QED
    BY <2>1, <2>2, <2>3, <2>4, <2>5 DEF TypeOK, NoRequest, RefreshUnsaved
<1>2. IssuedOK'
  BY DEF Stored, IssuedOK, RequestOK, TokensOK, SessionAsWanted, ClientIsLive,
      RefreshUnsaved, Rotated, Stale, Excuse
<1>3. LoginOK'
  BY DEF LoginOK, VaultOK, RequestOK, TokensOK, SessionAsWanted, ClientIsLive,
      RefreshUnsaved, Rotated, Stale, Excuse
<1>4. VaultOK'
  BY DEF Stored, VaultOK, RequestOK, TokensOK, SessionAsWanted, ClientIsLive,
      RefreshUnsaved, Rotated, Stale, Excuse
<1>5. RestorableAsWanted'
  BY DEF Stored, RestorableAsWanted, RequestOK, TokensOK, SessionAsWanted, ClientIsLive,
      RefreshUnsaved, Rotated, Stale, Excuse
<1>6. RequestOK'
  BY DEF RequestOK, SessionAsWanted, ClientIsLive, RefreshUnsaved, Rotated, Stale,
      Excuse
<1>7. TokensOK'
  BY DEF Stored, TokensOK, SessionAsWanted, ClientIsLive, RefreshUnsaved, Rotated,
      Stale, Excuse
<1>8. SessionAsWanted'
  BY DEF SessionAsWanted, ClientIsLive, RefreshUnsaved, Rotated, Stale, Excuse
<1>9. ClientIsLive'
  BY DEF ClientIsLive, RefreshUnsaved, Rotated, Stale, Excuse
<1>10. QED
  BY <1>1, <1>2, <1>3, <1>4, <1>5, <1>6, <1>7, <1>8, <1>9

\* A refused refresh ends the session only if its tokens are still in use.
LEMMA RefreshRefusedStep ==
  ASSUME Consistent, NEW w \in BOOLEAN, NEW d \in BOOLEAN, RefreshRefused(w, d)
  PROVE  Consistent'
<1>1. TypeOK'
  <2>1. faults' \in 0 .. MaxFaults
    BY BoundsAssumption DEF TypeOK, RefreshRefused, Spend
  <2>2. req' \in Requests
    BY ZenonT(60) DEF TypeOK, Requests, Secrets, Stored, RefreshRefused
  <2>3. secret' \in Secrets \cup {None} /\ control' \in Sessions \cup {None}
    BY DEF TypeOK, RefreshRefused, Cleared
  <2>4. active' \in Sessions \cup {None} /\ client' \in Leases \cup {None}
    BY DEF TypeOK, RefreshRefused
  <2>5. leaked' \subseteq Sessions /\ excused' \subseteq Sessions /\ issued' \in 0 .. MaxSessions
    BY DEF TypeOK, RefreshRefused
  <2>6. QED
    BY <2>1, <2>2, <2>3, <2>4, <2>5 DEF TypeOK, NoRequest, RefreshRefused
<1>2. IssuedOK'
  BY DEF TypeOK, Requests, IssuedOK, RequestOK, TokensOK, SessionAsWanted, ClientIsLive,
      RefreshRefused, Cleared, Stale
<1>3. LoginOK'
  BY DEF LoginOK, TokensOK, SessionAsWanted, ClientIsLive, RefreshRefused, Cleared,
      Stale
<1>4. VaultOK'
  BY DEF VaultOK, TokensOK, SessionAsWanted, ClientIsLive, RefreshRefused, Cleared,
      Stale
<1>5. RestorableAsWanted'
  BY DEF Stored, RestorableAsWanted, RequestOK, TokensOK, SessionAsWanted, ClientIsLive,
      RefreshRefused, Cleared, Stale
<1>6. RequestOK'
  BY DEF TypeOK, Requests, RequestOK, TokensOK, SessionAsWanted, ClientIsLive,
      RefreshRefused, Cleared, Stale
<1>7. TokensOK'
  BY DEF RequestOK, TokensOK, ClientIsLive, RefreshRefused, Cleared, Stale
<1>8. SessionAsWanted'
  BY DEF SessionAsWanted, ClientIsLive, RefreshRefused, Cleared, Stale
<1>9. ClientIsLive'
  BY DEF TypeOK, Requests, RequestOK, TokensOK, SessionAsWanted, ClientIsLive,
      RefreshRefused, Cleared, Stale
<1>10. QED
  BY <1>1, <1>2, <1>3, <1>4, <1>5, <1>6, <1>7, <1>8, <1>9

\* A refresh of an ended session, or one that cannot be read, saves no tokens.
LEMMA RefreshDroppedStep ==
  ASSUME Consistent, NEW readable \in BOOLEAN, RefreshDropped(readable)
  PROVE  Consistent'
<1>1. TypeOK'
  <2>1. faults' \in 0 .. MaxFaults
    BY BoundsAssumption DEF TypeOK, RefreshDropped, Spend
  <2>2. req' \in Requests
    BY DEF TypeOK, Requests, NoRequest, RefreshDropped, Checked, Excuse
  <2>3. secret' \in Secrets \cup {None} /\ control' \in Sessions \cup {None}
    BY DEF TypeOK, RefreshDropped
  <2>4. active' \in Sessions \cup {None} /\ client' \in Leases \cup {None}
    BY DEF TypeOK, RefreshDropped
  <2>5. leaked' \subseteq Sessions /\ excused' \subseteq Sessions /\ issued' \in 0 .. MaxSessions
    BY DEF TypeOK, RequestOK, RefreshDropped, Excuse
  <2>6. QED
    BY <2>1, <2>2, <2>3, <2>4, <2>5 DEF TypeOK, NoRequest, RefreshDropped
<1>2. IssuedOK'
  BY DEF NoRequest, IssuedOK, RequestOK, TokensOK, SessionAsWanted, ClientIsLive,
      RefreshDropped, Checked, Stale, Excuse
<1>3. LoginOK'
  BY DEF LoginOK, TokensOK, SessionAsWanted, ClientIsLive, RefreshDropped, Checked,
      Stale, Excuse
<1>4. VaultOK'
  BY DEF VaultOK, TokensOK, SessionAsWanted, ClientIsLive, RefreshDropped, Checked,
      Stale, Excuse
<1>5. RestorableAsWanted'
  BY DEF RestorableAsWanted, TokensOK, SessionAsWanted, ClientIsLive, RefreshDropped,
      Checked, Stale, Excuse
<1>6. RequestOK'
  BY DEF NoRequest, RequestOK, TokensOK, SessionAsWanted, ClientIsLive, RefreshDropped,
      Checked, Stale, Excuse
<1>7. TokensOK'
  BY DEF Stored, RequestOK, TokensOK, SessionAsWanted, ClientIsLive, RefreshDropped,
      Checked, Stale, Excuse
<1>8. SessionAsWanted'
  BY DEF SessionAsWanted, ClientIsLive, RefreshDropped, Checked, Stale, Excuse
<1>9. ClientIsLive'
  BY DEF ClientIsLive, RefreshDropped, Checked, Stale, Excuse
<1>10. QED
  BY <1>1, <1>2, <1>3, <1>4, <1>5, <1>6, <1>7, <1>8, <1>9

\* The second answer ends the request or the session.
LEMMA SecondAnswerStep ==
  ASSUME Consistent, NEW refused \in BOOLEAN, NEW readable \in BOOLEAN, SecondAnswer(refused, readable)
  PROVE  Consistent'
<1>1. TypeOK'
  <2>1. faults' \in 0 .. MaxFaults
    BY BoundsAssumption DEF TypeOK, SecondAnswer, Read, Spend
  <2>2. req' \in Requests
    BY DEF TypeOK, Requests, NoRequest, SecondAnswer, Checked, Stale, Excuse
  <2>3. secret' \in Secrets \cup {None} /\ control' \in Sessions \cup {None}
    BY DEF TypeOK, SecondAnswer
  <2>4. active' \in Sessions \cup {None} /\ client' \in Leases \cup {None}
    BY DEF TypeOK, SecondAnswer
  <2>5. leaked' \subseteq Sessions /\ excused' \subseteq Sessions /\ issued' \in 0 .. MaxSessions
    BY DEF TypeOK, NoRequest, SecondAnswer, Read, Checked, Stale, Excuse
  <2>6. QED
    BY <2>1, <2>2, <2>3, <2>4, <2>5 DEF TypeOK, NoRequest, SecondAnswer
<1>2. IssuedOK'
  BY DEF NoRequest, IssuedOK, RequestOK, TokensOK, SessionAsWanted, ClientIsLive,
      SecondAnswer, Read, Checked, Stale, Excuse
<1>3. LoginOK'
  BY DEF LoginOK, TokensOK, SessionAsWanted, ClientIsLive, SecondAnswer, Read, Checked,
      Stale, Excuse
<1>4. VaultOK'
  BY DEF VaultOK, TokensOK, SessionAsWanted, ClientIsLive, SecondAnswer, Read, Checked,
      Stale, Excuse
<1>5. RestorableAsWanted'
  BY DEF RestorableAsWanted, TokensOK, SessionAsWanted, ClientIsLive, SecondAnswer,
      Read, Checked, Stale, Excuse
<1>6. RequestOK'
  BY DEF NoRequest, RequestOK, TokensOK, SessionAsWanted, ClientIsLive, SecondAnswer,
      Read, Checked, Stale, Excuse
<1>7. TokensOK'
  BY DEF Stored, RequestOK, TokensOK, SessionAsWanted, ClientIsLive, SecondAnswer, Read,
      Checked, Stale, Excuse
<1>8. SessionAsWanted'
  BY DEF SessionAsWanted, ClientIsLive, SecondAnswer, Read, Checked, Stale, Excuse
<1>9. ClientIsLive'
  BY DEF ClientIsLive, SecondAnswer, Read, Checked, Stale, Excuse
<1>10. QED
  BY <1>1, <1>2, <1>3, <1>4, <1>5, <1>6, <1>7, <1>8, <1>9

\* The server rotates a token whose successor is on its way.
LEMMA ServerRefreshStep ==
  ASSUME Consistent, ServerRefresh
  PROVE  Consistent'
<1>1. TypeOK'
  <2>1. faults' \in 0 .. MaxFaults
    BY DEF TypeOK, ServerRefresh
  <2>2. req' \in Requests
    BY DEF TypeOK, Requests, ServerRefresh
  <2>3. secret' \in Secrets \cup {None} /\ control' \in Sessions \cup {None}
    BY DEF TypeOK, ServerRefresh
  <2>4. active' \in Sessions \cup {None} /\ client' \in Leases \cup {None}
    BY DEF TypeOK, ServerRefresh
  <2>5. leaked' \subseteq Sessions /\ excused' \subseteq Sessions /\ issued' \in 0 .. MaxSessions
    BY DEF TypeOK, ServerRefresh
  <2>6. QED
    BY <2>1, <2>2, <2>3, <2>4, <2>5 DEF TypeOK, NoRequest, ServerRefresh
<1>2. IssuedOK'
  <2>1. req.id \in Sessions /\ req.id <= issued /\ req'.id = req.id
    BY NoneAssumption DEF TypeOK, Requests, RequestOK, IssuedOK, ServerRefresh
  <2>2. newest' = newest \/ newest' = [newest EXCEPT ![req.id] = @ + 1]
    BY DEF ServerRefresh
  <2>3. \A n \in Sessions : n > issued' => newest'[n] = 0
    BY <2>1, <2>2, BoundsAssumption DEF TypeOK, IssuedOK, ServerRefresh
  <2>4. QED
    BY <2>1, <2>3 DEF IssuedOK, ServerRefresh
<1>3. LoginOK'
  BY DEF LoginOK, SessionAsWanted, ClientIsLive, ServerRefresh
<1>4. VaultOK'
  BY DEF VaultOK, SessionAsWanted, ClientIsLive, ServerRefresh
<1>5. RestorableAsWanted'
  BY DEF RestorableAsWanted, SessionAsWanted, ClientIsLive, ServerRefresh
<1>6. RequestOK'
  <2>1. /\ req'.id = req.id /\ req'.phase = req.phase /\ req'.token = req.token
        /\ req'.phase = "refresh" /\ req'.reply \in {"fresh", "refused"}
    BY DEF TypeOK, Requests, ServerRefresh
  <2>2. CASE req'.reply = "refused" /\ req.id \notin excused
    <3>1. req.id = active /\ req.id \notin revoked /\ req.id # None
      BY <2>1, <2>2 DEF RequestOK, TokensOK
    <3>2. secret # None /\ secret.id = req.id /\ secret.token = newest[req.id]
      BY <3>1, <2>2 DEF TokensOK, Stored, ServerRefresh
    <3>3. secret.token = req.token
      BY <3>2 DEF RequestOK, ServerRefresh
    <3>4. QED
      BY <2>2, <3>1, <3>2, <3>3 DEF TypeOK, Requests, ServerRefresh
  <2>3. CASE req'.reply # "refused" \/ req.id \in excused
    BY <2>1, <2>3 DEF RequestOK, ServerRefresh
  <2>4. QED
    BY <2>2, <2>3
<1>7. TokensOK'
  BY DEF TypeOK, Secrets, Requests, Stored, RequestOK, TokensOK, SessionAsWanted,
      ClientIsLive, ServerRefresh
<1>8. SessionAsWanted'
  BY DEF SessionAsWanted, ServerRefresh
<1>9. ClientIsLive'
  BY DEF ClientIsLive, ServerRefresh
<1>10. QED
  BY <1>1, <1>2, <1>3, <1>4, <1>5, <1>6, <1>7, <1>8, <1>9

\* A session that the server revoked has an excuse to end.
LEMMA ServerRevokesStep ==
  ASSUME Consistent, NEW id \in Sessions, ServerRevokes(id)
  PROVE  Consistent'
<1>1. TypeOK'
  <2>1. faults' \in 0 .. MaxFaults
    BY DEF TypeOK, ServerRevokes
  <2>2. req' \in Requests
    BY DEF TypeOK, ServerRevokes
  <2>3. secret' \in Secrets \cup {None} /\ control' \in Sessions \cup {None}
    BY DEF TypeOK, ServerRevokes
  <2>4. active' \in Sessions \cup {None} /\ client' \in Leases \cup {None}
    BY DEF TypeOK, ServerRevokes
  <2>5. leaked' \subseteq Sessions /\ excused' \subseteq Sessions /\ issued' \in 0 .. MaxSessions
    BY DEF TypeOK, ServerRevokes, Excuse
  <2>6. QED
    BY <2>2, <2>3, <2>4, <2>5 DEF TypeOK, ServerRevokes
<1>2. IssuedOK'
  BY DEF IssuedOK, SessionAsWanted, ClientIsLive, ServerRevokes, Excuse
<1>3. LoginOK'
  BY DEF LoginOK, SessionAsWanted, ClientIsLive, ServerRevokes, Excuse
<1>4. VaultOK'
  BY DEF VaultOK, SessionAsWanted, ClientIsLive, ServerRevokes, Excuse
<1>5. RestorableAsWanted'
  BY DEF RestorableAsWanted, SessionAsWanted, ClientIsLive, ServerRevokes, Excuse
<1>6. RequestOK'
  BY DEF RequestOK, ClientIsLive, ServerRevokes, Excuse
<1>7. TokensOK'
  BY DEF Stored, TokensOK, SessionAsWanted, ClientIsLive, ServerRevokes, Excuse
<1>8. SessionAsWanted'
  BY DEF SessionAsWanted, ClientIsLive, ServerRevokes, Excuse
<1>9. ClientIsLive'
  BY DEF ClientIsLive, ServerRevokes, Excuse
<1>10. QED
  BY <1>1, <1>2, <1>3, <1>4, <1>5, <1>6, <1>7, <1>8, <1>9

\* What is stored survives the process and nothing else does.
LEMMA CrashStep ==
  ASSUME Consistent, Crash
  PROVE  Consistent'
<1>1. TypeOK'
  <2>1. faults' \in 0 .. MaxFaults
    BY BoundsAssumption DEF TypeOK, Crash, Spend
  <2>2. req' \in Requests
    BY DEF Requests, NoRequest, Crash, Down
  <2>3. secret' \in Secrets \cup {None} /\ control' \in Sessions \cup {None}
    BY DEF TypeOK, Crash
  <2>4. active' \in Sessions \cup {None} /\ client' \in Leases \cup {None}
    BY DEF Crash, Down
  <2>5. leaked' \subseteq Sessions /\ excused' \subseteq Sessions /\ issued' \in 0 .. MaxSessions
    BY DEF TypeOK, RequestOK, Crash, Excuse
  <2>6. QED
    BY <2>1, <2>2, <2>3, <2>4, <2>5 DEF TypeOK, Crash, Down
<1>2. IssuedOK'
  BY DEF NoRequest, IssuedOK, RequestOK, TokensOK, SessionAsWanted, ClientIsLive, Crash,
      Down, Excuse
<1>3. LoginOK'
  BY DEF LoginOK, TokensOK, SessionAsWanted, ClientIsLive, Crash, Down, Excuse
<1>4. VaultOK'
  BY DEF VaultOK, TokensOK, SessionAsWanted, ClientIsLive, Crash, Down, Excuse
<1>5. RestorableAsWanted'
  BY DEF RestorableAsWanted, TokensOK, SessionAsWanted, ClientIsLive, Crash, Down,
      Excuse
<1>6. RequestOK'
  BY DEF NoRequest, RequestOK, TokensOK, SessionAsWanted, ClientIsLive, Crash, Down,
      Excuse
<1>7. TokensOK'
  BY DEF TokensOK, ClientIsLive, Crash, Down, Excuse
<1>8. SessionAsWanted'
  BY DEF SessionAsWanted, ClientIsLive, Crash, Down, Excuse
<1>9. ClientIsLive'
  BY DEF ClientIsLive, Crash, Down, Excuse
<1>10. QED
  BY <1>1, <1>2, <1>3, <1>4, <1>5, <1>6, <1>7, <1>8, <1>9

\* A start restores the stored session, if its user still wants it.
LEMMA StartStep ==
  ASSUME Consistent, NEW settled \in BOOLEAN, NEW readable \in BOOLEAN, Start(settled, readable)
  PROVE  Consistent'
<1>1. TypeOK'
  <2>1. faults' \in 0 .. MaxFaults
    BY BoundsAssumption DEF TypeOK, Start, Spend
  <2>2. req' \in Requests
    BY DEF TypeOK, Start
  <2>3. secret' \in Secrets \cup {None} /\ control' \in Sessions \cup {None}
    BY DEF TypeOK, Start
  <2>4. active' \in Sessions \cup {None} /\ client' \in Leases \cup {None}
    BY DEF TypeOK, Leases, Secrets, Start
  <2>5. leaked' \subseteq Sessions /\ excused' \subseteq Sessions /\ issued' \in 0 .. MaxSessions
    BY DEF TypeOK, Start
  <2>6. QED
    BY <2>1, <2>2, <2>3, <2>4, <2>5 DEF TypeOK, Start
<1>2. IssuedOK'
  BY DEF IssuedOK, SessionAsWanted, ClientIsLive, Start
<1>3. LoginOK'
  BY DEF LoginOK, SessionAsWanted, ClientIsLive, Start
<1>4. VaultOK'
  BY NoneAssumption DEF TypeOK, Secrets, Leases, VaultOK, RequestOK, TokensOK,
      SessionAsWanted, ClientIsLive, Start
<1>5. RestorableAsWanted'
  BY DEF RestorableAsWanted, SessionAsWanted, ClientIsLive, Start
<1>6. RequestOK'
  BY DEF Stored, RequestOK, TokensOK, SessionAsWanted, ClientIsLive, Start
<1>7. TokensOK'
  BY DEF Stored, TokensOK, SessionAsWanted, ClientIsLive, Start
<1>8. SessionAsWanted'
  BY DEF Stored, RestorableAsWanted, TokensOK, SessionAsWanted, ClientIsLive, Start
<1>9. ClientIsLive'
  BY DEF ClientIsLive, Start
<1>10. QED
  BY <1>1, <1>2, <1>3, <1>4, <1>5, <1>6, <1>7, <1>8, <1>9

\* An import that begins touches no session.
LEMMA ImportStartsStep ==
  ASSUME Consistent, ImportStarts
  PROVE  Consistent'
<1>1. TypeOK'
  BY DEF TypeOK, ImportStarts, NoRequest
<1>2. QED
  BY <1>1 DEF ImportStarts, IssuedOK, LoginOK, VaultOK, RestorableAsWanted, RequestOK,
      TokensOK, Stored, SessionAsWanted, ClientIsLive

\* A refused login leaves nobody logged in.
LEMMA LoginFailsStep ==
  ASSUME Consistent, NEW a \in Accounts, LoginFails(a)
  PROVE  Consistent'
<1>1. login # None /\ client = None /\ secret = None
  BY NoneAssumption DEF LoginFails, Current, LoginOK
<1>2. TypeOK'
  BY DEF TypeOK, LoginFails
<1>3. QED
  BY <1>1, <1>2 DEF LoginFails, IssuedOK, LoginOK, VaultOK, RestorableAsWanted,
      RequestOK, TokensOK, Stored, SessionAsWanted, ClientIsLive

\* An answer to a cancelled login is dropped.
LEMMA LoginDroppedStep ==
  ASSUME Consistent, NEW a \in Accounts, LoginDropped(a)
  PROVE  Consistent'
<1>1. TypeOK'
  BY DEF TypeOK, LoginDropped
<1>2. QED
  BY <1>1 DEF LoginDropped, IssuedOK, LoginOK, VaultOK, RestorableAsWanted, RequestOK,
      TokensOK, Stored, SessionAsWanted, ClientIsLive

\* The invariant holds at first.
LEMMA InitConsistent == Init => Consistent
<1>1. SUFFICES ASSUME Init PROVE Consistent
  OBVIOUS
<1>2. TypeOK
  <2>1. NoRequest \in Requests
    BY DEF Requests, NoRequest
  <2>2. 0 \in 0 .. MaxSessions /\ 0 \in 0 .. MaxFaults
    BY BoundsAssumption
  <2>3. QED
    BY <1>1, <2>1, <2>2 DEF Init, TypeOK
<1>3. QED
  BY <1>1, <1>2, NoneAssumption DEF Init, NoRequest, IssuedOK, LoginOK, VaultOK,
      RestorableAsWanted, RequestOK, TokensOK, SessionAsWanted, ClientIsLive

\* Every step keeps the invariant.
LEMMA NextConsistent ==
  ASSUME Consistent, [Next]_vars
  PROVE  Consistent'
<1>1. CASE User
  BY <1>1, LoginStartStep, LogoutStep, ImportStartsStep, ImportRevokesStep,
      ImportEndsStep DEF User
<1>2. CASE Answers
  BY <1>2, LoginDroppedStep, LoginFailsStep, LoginSucceedsStep, ActivateFailsStep,
      DieSavingStep DEF Answers
<1>3. CASE Request
  BY <1>3, FirstAnswerStep, RefreshLostStep, RefreshDroppedStep, SecondAnswerStep,
      RefreshSavedStep, RefreshUnsavedStep, RefreshRefusedStep, LoseSessionStep DEF
      Request
<1>4. CASE Environment
  BY <1>4, ServerRefreshStep, ServerRevokesStep, CrashStep, StartStep DEF Environment
<1>5. CASE \E readable \in BOOLEAN : BeginRequest(readable)
  BY <1>5, BeginRequestStep
<1>6. CASE UNCHANGED vars
  BY <1>6 DEF vars, TypeOK, IssuedOK, LoginOK, VaultOK, RestorableAsWanted, RequestOK,
      TokensOK, Stored, SessionAsWanted, ClientIsLive
<1>7. QED
  BY <1>1, <1>2, <1>3, <1>4, <1>5, <1>6 DEF Next

\* The strengthened invariant holds in every reachable state.
THEOREM Invariance == Spec => []Consistent
BY InitConsistent, NextConsistent, PTL DEF Spec

\* Every variable keeps its type, and nothing volatile survives the process.
THEOREM TypeCorrect == Spec => []TypeOK
<1>1. Consistent => TypeOK
  OBVIOUS
<1>2. QED
  BY <1>1, Invariance, PTL

\* Whoever is logged in is the account the user last asked for: no late answer and
\* no restart brings an ended session back.
THEOREM EndedStaysEnded == Spec => []SessionAsWanted
<1>1. Consistent => SessionAsWanted
  OBVIOUS
<1>2. QED
  BY <1>1, Invariance, PTL

\* An installed client has a live lease, or the request that lost it is closing it.
THEOREM LeaseIsLive == Spec => []ClientIsLive
<1>1. Consistent => ClientIsLive
  OBVIOUS
<1>2. QED
  BY <1>1, Invariance, PTL

\* A session in use can be restored with the tokens the server accepts.
THEOREM SessionIsStored == Spec => []ActiveIsStored
<1>1. Consistent => ActiveIsStored
  BY DEF TokensOK, ActiveIsStored, Stored
<1>2. QED
  BY <1>1, Invariance, PTL

\* A session ends only for a reason of its own.
THEOREM LossIsCaused == Spec => LossHasCause
<1> DEFINE Caused == client # None /\ client' # client => ~up' \/ client.id \in excused'
<1>1. Consistent /\ [Next]_vars => [Caused]_vars
  <2>1. SUFFICES ASSUME Consistent, Next, client # None, client' # client, up'
                 PROVE  client.id \in excused'
    OBVIOUS
  <2>2. login = None /\ up
    BY <2>1 DEF LoginOK, TypeOK
  <2>3. CASE User
    BY <2>1, <2>3 DEF User, LoginStart, Logout, ImportStarts, ImportRevokes, ImportEnds,
        Excuse, ClientIds
  <2>4. CASE Answers
    <3>1. ~ \E a \in Accounts : Current(a)
      BY <2>2, NoneAssumption DEF Current
    <3>2. QED
      BY <2>1, <2>4, <3>1 DEF Answers, LoginDropped, LoginFails, LoginSucceeds,
          ActivateFails, Accepted, DieSaving
  <2>5. CASE Request
    <3>1. PICK w \in BOOLEAN, d \in BOOLEAN : LoseSession(w, d)
      BY <2>1, <2>5 DEF Request, FirstAnswer, RefreshLost, RefreshDropped, SecondAnswer,
          RefreshSaved, RefreshUnsaved, RefreshRefused
    <3>2. client.id = req.id /\ req.phase = "lost"
      BY <2>1, <3>1 DEF LoseSession, Expected
    <3>3. QED
      BY <2>1, <3>1, <3>2 DEF LoseSession, RequestOK, Leases
  <2>6. CASE Environment
    BY <2>1, <2>2, <2>6 DEF Environment, ServerRefresh, ServerRevokes, Crash, Down,
        Start
  <2>7. CASE \E readable \in BOOLEAN : BeginRequest(readable)
    BY <2>1, <2>7 DEF BeginRequest
  <2>8. QED
    BY <2>1, <2>3, <2>4, <2>5, <2>6, <2>7 DEF Next
<1>2. QED
  BY <1>1, Invariance, PTL DEF Spec, LossHasCause
==============================================================================
