------------------------- MODULE NodeIdentityProofs -------------------------
(***************************************************************************)
(* No credential and no session outlives the key it was made for, a stale  *)
(* answer is never given, and a revocation lasts, for any number of keys,  *)
(* tokens, credentials, sessions and requests.                             *)
(***************************************************************************)
EXTENDS NodeIdentityProps, TLAPS

\* No credential is of a version the identity has yet to reach; one of the
\* identity's version is revoked only with it; a session is of a credential
\* that was issued, and is revoked only with it.
Versions ==
    /\ \A c \in Credentials : credential[c].status # "absent" =>
          /\ credential[c].version \leq identity.version
          /\ credential[c].status = "revoked"
                /\ credential[c].version = identity.version
                => identity.status = "revoked"
    /\ \A s \in Sessions : session[s].status # "absent" =>
          /\ session[s].credential \in Credentials
          /\ credential[session[s].credential].status # "absent"
          /\ session[s].status = "revoked"
                => credential[session[s].credential].status = "revoked"

\* What a request carries from one step to the next: rows that exist, and the
\* bound key for as long as its credential's version is the bound one.
Carried(q) ==
    /\ q.pc \in {"identity", "issue", "challenge", "claim"} =>
          /\ q.credential \in Credentials /\ q.key \in Keys
          /\ credential[q.credential].status # "absent"
    /\ q.pc = "claim" => q.challenge \in Challenges
    /\ q.pc = "identity" => q.kind \in {"ask", "prove"}
    /\ q.pc \in {"challenge", "claim"} => q.kind = "prove"
    /\ q.pc \in {"challenge", "claim"} /\ q.purpose = "session"
          /\ credential[q.credential].version = identity.version
          => q.key = identity.key
    /\ q.pc \in {"credential", "confirm"} =>
          /\ q.session \in Sessions
          /\ session[q.session].status # "absent"
          /\ q.credential = session[q.session].credential

RequestInv == \A r \in Requests : Carried(request[r])

\* A token that can be claimed was made since the last revocation.
TokenInv == \A t \in Tokens : token[t].status = "pending" => token[t].fresh

IInv == /\ TypeOK /\ NothingOutlivesItsKey
        /\ Versions /\ RequestInv /\ TokenInv

\* A row that is revoked, consumed, used or moved on is a row.
LEMMA RowEdits ==
    /\ NoRequest \in RequestRows
    /\ \A q \in RequestRows, x \in Pcs : [q EXCEPT !.pc = x] \in RequestRows
    /\ \A q \in RequestRows, h \in Challenges :
          [q EXCEPT !.pc = "claim", !.challenge = h] \in RequestRows
    /\ \A c \in CredentialRows : RevokeRow(c) \in CredentialRows
    /\ \A s \in SessionRows : RevokeRow(s) \in SessionRows
    /\ \A t \in TokenRows : [ConsumeRow(t) EXCEPT !.fresh = FALSE] \in TokenRows
    /\ \A h \in ChallengeRows :
          h.status # "absent" => [h EXCEPT !.status = "used"] \in ChallengeRows
<1>1. \A q \in RequestRows, x \in Pcs : [q EXCEPT !.pc = x] \in RequestRows
  BY DEF RequestRows
<1>2. \A q \in RequestRows, h \in Challenges :
          [q EXCEPT !.pc = "claim", !.challenge = h] \in RequestRows
  BY DEF RequestRows, Pcs
<1>3. \A c \in CredentialRows : RevokeRow(c) \in CredentialRows
  BY DEF CredentialRows, RevokeRow
<1>4. \A s \in SessionRows : RevokeRow(s) \in SessionRows
  BY DEF SessionRows, RevokeRow
<1>5. \A t \in TokenRows : [ConsumeRow(t) EXCEPT !.fresh = FALSE] \in TokenRows
  BY DEF TokenRows, ConsumeRow
<1>6. \A h \in ChallengeRows :
          h.status # "absent" => [h EXCEPT !.status = "used"] \in ChallengeRows
  BY DEF ChallengeRows
<1>7. NoRequest \in RequestRows
  BY DEF NoRequest, RequestRows, Pcs, Kinds, Purposes
<1>8. QED
  BY <1>1, <1>2, <1>3, <1>4, <1>5, <1>6, <1>7

\* Every action keeps the types.
LEMMA StepTypeOK == TypeOK /\ Versions /\ RequestInv /\ [Next]_vars => TypeOK'
<1> SUFFICES ASSUME TypeOK, Versions, RequestInv, [Next]_vars PROVE TypeOK'
  OBVIOUS
<1>1. ASSUME NEW t \in Tokens, CreateToken(t) PROVE TypeOK'
  BY <1>1 DEF CreateToken, TypeOK, TokenRows
<1>2. ASSUME Revoke PROVE TypeOK'
  BY <1>2, RowEdits DEF Revoke, TypeOK, IdentityRows
<1>3. ASSUME NEW t \in Tokens, NEW k \in Keys,
            NEW c \in Credentials, Enroll(t, k, c)
       PROVE TypeOK'
  BY <1>3 DEF Enroll, TypeOK, IdentityRows, TokenRows, CredentialRows
<1>4. ASSUME NEW r \in Requests, NEW kind \in {"ask", "prove"},
            NEW p \in Purposes, NEW c \in Credentials, NEW k \in Keys,
            Present(r, kind, p, c, k)
       PROVE TypeOK'
  BY <1>4
     DEF Present, TypeOK, rows, RequestRows, NoRequest, Pcs, Kinds, Purposes
<1>5. ASSUME NEW r \in Requests, Live(r) PROVE TypeOK'
  BY <1>5, RowEdits DEF Live, TypeOK, rows, Pcs
<1>6. ASSUME NEW r \in Requests, NEW h \in Challenges, Issue(r, h) PROVE TypeOK'
  <2>1. request[r].purpose \in Purposes /\ request[r].key \in Keys
    BY <1>6 DEF Issue, TypeOK, RequestInv, Carried, RequestRows
  <2>2. [status |-> "open", purpose |-> request[r].purpose,
         key |-> IF request[r].purpose = "rotate" THEN request[r].key ELSE None]
           \in ChallengeRows
    BY <2>1 DEF ChallengeRows, Purposes
  <2>3. challenge' \in [Challenges -> ChallengeRows]
    BY <1>6, <2>2 DEF Issue, TypeOK
  <2>4. QED
    BY <1>6, <2>3, RowEdits DEF Issue, TypeOK
<1>7. ASSUME NEW r \in Requests, NEW h \in Challenges, Verify(r, h)
       PROVE TypeOK'
  BY <1>7, RowEdits DEF Verify, TypeOK, rows
<1>8. ASSUME NEW r \in Requests, NEW s \in Sessions, ClaimSession(r, s)
       PROVE TypeOK'
  BY <1>8, RowEdits
     DEF ClaimSession, Claim, TypeOK, RequestInv, Carried, SessionRows
<1>9. ASSUME NEW r \in Requests, NEW c \in Credentials, ClaimRotation(r, c)
       PROVE TypeOK'
  <2>1. /\ request[r].credential \in Credentials /\ request[r].key \in Keys
        /\ request[r].challenge \in Challenges
    BY <1>9 DEF ClaimRotation, Claim, RequestInv, Carried
  <2>2. challenge' \in [Challenges -> ChallengeRows]
    BY <1>9, <2>1, RowEdits DEF ClaimRotation, Claim, TypeOK
  <2>3. identity' \in IdentityRows
    <3>1. identity \in IdentityRows
      BY DEF TypeOK
    <3>2. identity' = [status |-> identity.status, key |-> request[r].key,
                       version |-> identity.version + 1]
      BY <1>9, <3>1 DEF ClaimRotation, IdentityRows
    <3>3. QED
      BY <2>1, <3>1, <3>2 DEF IdentityRows
  <2>4. [status |-> "active",
         version |-> credential[request[r].credential].version + 1]
           \in CredentialRows
    BY <2>1 DEF TypeOK, CredentialRows
  <2>5. credential' \in [Credentials -> CredentialRows]
    BY <1>9, <2>4, RowEdits DEF ClaimRotation, TypeOK
  <2>6. session' \in [Sessions -> SessionRows]
    BY <1>9, RowEdits DEF ClaimRotation, TypeOK
  <2>7. QED
    BY <1>9, <2>2, <2>3, <2>5, <2>6, RowEdits DEF ClaimRotation, Claim, TypeOK
<1>10. ASSUME NEW r \in Requests, NEW s \in Sessions, ReadSession(r, s)
       PROVE TypeOK'
  BY <1>10
     DEF ReadSession, TypeOK, rows, Versions, RequestRows, NoRequest, Pcs,
         Kinds, Purposes
<1>11. ASSUME NEW r \in Requests, ReadCredential(r) PROVE TypeOK'
  BY <1>11, RowEdits DEF ReadCredential, TypeOK, rows, Pcs
<1>12. ASSUME NEW r \in Requests, Confirm(r) PROVE TypeOK'
  BY <1>12, RowEdits DEF Confirm, TypeOK, rows, Pcs
<1>13. ASSUME NEW r \in Requests, Stop(r) PROVE TypeOK'
  BY <1>13, RowEdits DEF Stop, TypeOK, rows
<1>14. CASE UNCHANGED vars
  BY <1>14 DEF vars, TypeOK
<1>15. QED
  BY <1>1, <1>2, <1>3, <1>4, <1>5, <1>6, <1>7, <1>8,
     <1>9, <1>10, <1>11, <1>12, <1>13, <1>14
     DEF Next, Operator, Node, Gateway

\* No action leaves a credential or a session behind its key.
LEMMA StepKey == IInv /\ [Next]_vars => NothingOutlivesItsKey'
<1> SUFFICES ASSUME IInv, [Next]_vars PROVE NothingOutlivesItsKey'
  OBVIOUS
<1>1. ASSUME NEW t \in Tokens, CreateToken(t) PROVE NothingOutlivesItsKey'
  BY <1>1 DEF CreateToken, IInv, NothingOutlivesItsKey, TypeOK, rows,
         IdentityRows, CredentialRows, SessionRows
<1>2. ASSUME Revoke PROVE NothingOutlivesItsKey'
  BY <1>2 DEF Revoke, IInv, NothingOutlivesItsKey, TypeOK, rows, IdentityRows,
         CredentialRows, SessionRows, RevokeRow
<1>3. ASSUME NEW t \in Tokens, NEW k \in Keys,
            NEW c \in Credentials, Enroll(t, k, c)
       PROVE NothingOutlivesItsKey'
  BY <1>3 DEF Enroll, IInv, NothingOutlivesItsKey, TypeOK, rows, IdentityRows,
         CredentialRows, SessionRows, Versions
<1>4. ASSUME NEW r \in Requests, NEW kind \in {"ask", "prove"},
            NEW p \in Purposes, NEW c \in Credentials, NEW k \in Keys,
            Present(r, kind, p, c, k)
       PROVE NothingOutlivesItsKey'
  BY <1>4 DEF Present, IInv, NothingOutlivesItsKey, TypeOK, rows, IdentityRows,
         CredentialRows, SessionRows
<1>5. ASSUME NEW r \in Requests, Live(r) PROVE NothingOutlivesItsKey'
  BY <1>5 DEF Live, IInv, NothingOutlivesItsKey, TypeOK, rows, IdentityRows,
         CredentialRows, SessionRows
<1>6. ASSUME NEW r \in Requests, NEW h \in Challenges, Issue(r, h)
       PROVE NothingOutlivesItsKey'
  BY <1>6 DEF Issue, IInv, NothingOutlivesItsKey, TypeOK, rows, IdentityRows,
         CredentialRows, SessionRows
<1>7. ASSUME NEW r \in Requests, NEW h \in Challenges, Verify(r, h)
       PROVE NothingOutlivesItsKey'
  BY <1>7 DEF Verify, IInv, NothingOutlivesItsKey, TypeOK, rows, IdentityRows,
         CredentialRows, SessionRows
<1>8. ASSUME NEW r \in Requests, NEW s \in Sessions, ClaimSession(r, s)
       PROVE NothingOutlivesItsKey'
  BY <1>8 DEF ClaimSession, IInv, NothingOutlivesItsKey, TypeOK, rows,
         IdentityRows, CredentialRows, SessionRows, Claim, RequestInv, Carried
<1>9. ASSUME NEW r \in Requests, NEW c \in Credentials, ClaimRotation(r, c)
       PROVE NothingOutlivesItsKey'
  BY <1>9 DEF ClaimRotation, IInv, NothingOutlivesItsKey, TypeOK, rows,
         IdentityRows, CredentialRows, SessionRows, Claim, RevokeRow,
         RequestInv, Carried
<1>10. ASSUME NEW r \in Requests, NEW s \in Sessions, ReadSession(r, s)
       PROVE NothingOutlivesItsKey'
  BY <1>10 DEF ReadSession, IInv, NothingOutlivesItsKey, TypeOK, rows,
         IdentityRows, CredentialRows, SessionRows
<1>11. ASSUME NEW r \in Requests, ReadCredential(r) PROVE NothingOutlivesItsKey'
  BY <1>11 DEF ReadCredential, IInv, NothingOutlivesItsKey, TypeOK, rows,
         IdentityRows, CredentialRows, SessionRows
<1>12. ASSUME NEW r \in Requests, Confirm(r) PROVE NothingOutlivesItsKey'
  BY <1>12 DEF Confirm, IInv, NothingOutlivesItsKey, TypeOK, rows,
         IdentityRows, CredentialRows, SessionRows
<1>13. ASSUME NEW r \in Requests, Stop(r) PROVE NothingOutlivesItsKey'
  BY <1>13 DEF Stop, IInv, NothingOutlivesItsKey, TypeOK, rows, IdentityRows,
         CredentialRows, SessionRows
<1>14. CASE UNCHANGED vars
  BY <1>14 DEF vars, IInv, NothingOutlivesItsKey, TypeOK, rows, IdentityRows,
         CredentialRows, SessionRows
<1>15. QED
  BY <1>1, <1>2, <1>3, <1>4, <1>5, <1>6, <1>7, <1>8,
     <1>9, <1>10, <1>11, <1>12, <1>13, <1>14
     DEF Next, Operator, Node, Gateway

\* Every action keeps the order of the versions.
LEMMA StepVersions == IInv /\ [Next]_vars => Versions'
<1> SUFFICES ASSUME IInv, [Next]_vars PROVE Versions'
  OBVIOUS
<1>1. ASSUME NEW t \in Tokens, CreateToken(t) PROVE Versions'
  BY <1>1 DEF CreateToken, IInv, Versions, TypeOK, rows, NothingOutlivesItsKey,
         IdentityRows, CredentialRows, SessionRows
<1>2. ASSUME Revoke PROVE Versions'
  BY <1>2 DEF Revoke, IInv, Versions, TypeOK, rows, NothingOutlivesItsKey,
         IdentityRows, CredentialRows, SessionRows, RevokeRow
<1>3. ASSUME NEW t \in Tokens, NEW k \in Keys,
            NEW c \in Credentials, Enroll(t, k, c)
       PROVE Versions'
  BY <1>3 DEF Enroll, IInv, Versions, TypeOK, rows, NothingOutlivesItsKey,
         IdentityRows, CredentialRows, SessionRows
<1>4. ASSUME NEW r \in Requests, NEW kind \in {"ask", "prove"},
            NEW p \in Purposes, NEW c \in Credentials, NEW k \in Keys,
            Present(r, kind, p, c, k)
       PROVE Versions'
  BY <1>4 DEF Present, IInv, Versions, TypeOK, rows, NothingOutlivesItsKey,
         IdentityRows, CredentialRows, SessionRows
<1>5. ASSUME NEW r \in Requests, Live(r) PROVE Versions'
  BY <1>5 DEF Live, IInv, Versions, TypeOK, rows, NothingOutlivesItsKey,
         IdentityRows, CredentialRows, SessionRows
<1>6. ASSUME NEW r \in Requests, NEW h \in Challenges, Issue(r, h)
       PROVE Versions'
  BY <1>6 DEF Issue, IInv, Versions, TypeOK, rows, NothingOutlivesItsKey,
         IdentityRows, CredentialRows, SessionRows
<1>7. ASSUME NEW r \in Requests, NEW h \in Challenges, Verify(r, h)
       PROVE Versions'
  BY <1>7 DEF Verify, IInv, Versions, TypeOK, rows, NothingOutlivesItsKey,
         IdentityRows, CredentialRows, SessionRows
<1>8. ASSUME NEW r \in Requests, NEW s \in Sessions, ClaimSession(r, s)
       PROVE Versions'
  BY <1>8 DEF ClaimSession, IInv, Versions, TypeOK, rows,
         NothingOutlivesItsKey, IdentityRows, CredentialRows, SessionRows,
         Claim, RequestInv, Carried
<1>9. ASSUME NEW r \in Requests, NEW c \in Credentials, ClaimRotation(r, c)
       PROVE Versions'
  BY <1>9 DEF ClaimRotation, IInv, Versions, TypeOK, rows,
         NothingOutlivesItsKey, IdentityRows, CredentialRows, SessionRows,
         Claim, RevokeRow, RequestInv, Carried
<1>10. ASSUME NEW r \in Requests, NEW s \in Sessions, ReadSession(r, s)
       PROVE Versions'
  BY <1>10 DEF ReadSession, IInv, Versions, TypeOK, rows,
         NothingOutlivesItsKey, IdentityRows, CredentialRows, SessionRows
<1>11. ASSUME NEW r \in Requests, ReadCredential(r) PROVE Versions'
  BY <1>11 DEF ReadCredential, IInv, Versions, TypeOK, rows,
         NothingOutlivesItsKey, IdentityRows, CredentialRows, SessionRows
<1>12. ASSUME NEW r \in Requests, Confirm(r) PROVE Versions'
  BY <1>12 DEF Confirm, IInv, Versions, TypeOK, rows, NothingOutlivesItsKey,
         IdentityRows, CredentialRows, SessionRows
<1>13. ASSUME NEW r \in Requests, Stop(r) PROVE Versions'
  BY <1>13 DEF Stop, IInv, Versions, TypeOK, rows, NothingOutlivesItsKey,
         IdentityRows, CredentialRows, SessionRows
<1>14. CASE UNCHANGED vars
  BY <1>14 DEF vars, IInv, Versions, TypeOK, rows, NothingOutlivesItsKey,
         IdentityRows, CredentialRows, SessionRows
<1>15. QED
  BY <1>1, <1>2, <1>3, <1>4, <1>5, <1>6, <1>7, <1>8,
     <1>9, <1>10, <1>11, <1>12, <1>13, <1>14
     DEF Next, Operator, Node, Gateway

\* Every action keeps what the requests carry.
LEMMA StepRequests == IInv /\ [Next]_vars => RequestInv'
<1> SUFFICES ASSUME IInv, [Next]_vars PROVE RequestInv'
  OBVIOUS
<1>1. ASSUME NEW t \in Tokens, CreateToken(t) PROVE RequestInv'
  BY <1>1 DEF CreateToken, IInv, RequestInv, Carried, TypeOK, rows, NoRequest,
         Versions, RequestRows, CredentialRows
<1>2. ASSUME Revoke PROVE RequestInv'
  BY <1>2 DEF Revoke, IInv, RequestInv, Carried, TypeOK, rows, NoRequest,
         Versions, RequestRows, CredentialRows, RevokeRow
<1>3. ASSUME NEW t \in Tokens, NEW k \in Keys,
            NEW c \in Credentials, Enroll(t, k, c)
       PROVE RequestInv'
  <2>1. SUFFICES ASSUME NEW r \in Requests PROVE Carried(request[r])'
    BY DEF RequestInv
  <2>2. Carried(request[r]) /\ request' = request /\ session' = session
    BY <1>3 DEF Enroll, IInv, RequestInv
  <2>3. \A d \in Credentials : credential[d].status # "absent" =>
           /\ credential'[d] = credential[d]
           /\ credential[d].version \leq identity.version
    BY <1>3 DEF Enroll, IInv, Versions
  <2>4. \A d \in Credentials : credential[d].status # "absent" =>
           credential'[d].version # identity'.version
    BY <1>3, <2>3
       DEF Enroll, IInv, TypeOK, IdentityRows, CredentialRows
  <2>5. CASE request[r].pc \in {"identity", "issue", "challenge", "claim"}
    BY <2>2, <2>3, <2>4, <2>5 DEF Carried
  <2>6. CASE request[r].pc \notin {"identity", "issue", "challenge", "claim"}
    BY <2>2, <2>6 DEF Carried
  <2>7. QED
    BY <2>5, <2>6
<1>4. ASSUME NEW r \in Requests, NEW kind \in {"ask", "prove"},
            NEW p \in Purposes, NEW c \in Credentials, NEW k \in Keys,
            Present(r, kind, p, c, k)
       PROVE RequestInv'
  BY <1>4 DEF Present, IInv, RequestInv, Carried, TypeOK, rows, NoRequest,
         Versions, RequestRows, CredentialRows
<1>5. ASSUME NEW r \in Requests, Live(r) PROVE RequestInv'
  <2>1. SUFFICES ASSUME NEW q \in Requests PROVE Carried(request[q])'
    BY DEF RequestInv
  <2>2. CASE q # r
    BY <1>5, <2>2 DEF Live, rows, IInv, RequestInv, Carried, TypeOK
  <2>3. CASE q = r
    <3>1. request'[r] = [request[r] EXCEPT
             !.pc = IF request[r].kind = "ask" THEN "issue" ELSE "challenge"]
      BY <1>5 DEF Live, IInv, TypeOK
    <3>2. request[r] \in RequestRows /\ Carried(request[r])
      BY DEF IInv, TypeOK, RequestInv
    <3>3. request[r].kind # "ask" => request[r].kind = "prove"
      BY <1>5, <3>2 DEF Live, Carried
    <3>4. QED
      BY <1>5, <2>3, <3>1, <3>2, <3>3 DEF Live, rows, Carried, RequestRows
  <2>4. QED
    BY <2>2, <2>3
<1>6. ASSUME NEW r \in Requests, NEW h \in Challenges, Issue(r, h)
       PROVE RequestInv'
  BY <1>6 DEF Issue, IInv, RequestInv, Carried, TypeOK, rows, NoRequest,
         Versions, RequestRows, CredentialRows
<1>7. ASSUME NEW r \in Requests, NEW h \in Challenges, Verify(r, h)
       PROVE RequestInv'
  BY <1>7 DEF Verify, IInv, RequestInv, Carried, TypeOK, rows, NoRequest,
         Versions, RequestRows, CredentialRows
<1>8. ASSUME NEW r \in Requests, NEW s \in Sessions, ClaimSession(r, s)
       PROVE RequestInv'
  BY <1>8 DEF ClaimSession, IInv, RequestInv, Carried, TypeOK, rows, NoRequest,
         Versions, RequestRows, CredentialRows, Claim
<1>9. ASSUME NEW r \in Requests, NEW c \in Credentials, ClaimRotation(r, c)
       PROVE RequestInv'
  BY <1>9 DEF ClaimRotation, IInv, RequestInv, Carried, TypeOK, rows,
         NoRequest, Versions, RequestRows, CredentialRows, Claim, RevokeRow,
         NothingOutlivesItsKey
<1>10. ASSUME NEW r \in Requests, NEW s \in Sessions, ReadSession(r, s)
       PROVE RequestInv'
  BY <1>10 DEF ReadSession, IInv, RequestInv, Carried, TypeOK, rows, NoRequest,
         Versions, RequestRows, CredentialRows
<1>11. ASSUME NEW r \in Requests, ReadCredential(r) PROVE RequestInv'
  BY <1>11 DEF ReadCredential, IInv, RequestInv, Carried, TypeOK, rows,
         NoRequest, Versions, RequestRows, CredentialRows
<1>12. ASSUME NEW r \in Requests, Confirm(r) PROVE RequestInv'
  BY <1>12 DEF Confirm, IInv, RequestInv, Carried, TypeOK, rows, NoRequest,
         Versions, RequestRows, CredentialRows
<1>13. ASSUME NEW r \in Requests, Stop(r) PROVE RequestInv'
  BY <1>13 DEF Stop, IInv, RequestInv, Carried, TypeOK, rows, NoRequest,
         Versions, RequestRows, CredentialRows
<1>14. CASE UNCHANGED vars
  BY <1>14 DEF vars, IInv, RequestInv, Carried, TypeOK, rows, NoRequest,
         Versions, RequestRows, CredentialRows
<1>15. QED
  BY <1>1, <1>2, <1>3, <1>4, <1>5, <1>6, <1>7, <1>8,
     <1>9, <1>10, <1>11, <1>12, <1>13, <1>14
     DEF Next, Operator, Node, Gateway

\* Only a new token is pending.
LEMMA StepTokens == IInv /\ [Next]_vars => TokenInv'
<1> SUFFICES ASSUME IInv, [Next]_vars PROVE TokenInv'
  OBVIOUS
<1>1. ASSUME NEW t \in Tokens, CreateToken(t) PROVE TokenInv'
  BY <1>1 DEF CreateToken, IInv, TokenInv, TypeOK, rows, TokenRows
<1>2. ASSUME Revoke PROVE TokenInv'
  BY <1>2 DEF Revoke, IInv, TokenInv, TypeOK, rows, TokenRows, ConsumeRow
<1>3. ASSUME NEW t \in Tokens, NEW k \in Keys,
            NEW c \in Credentials, Enroll(t, k, c)
       PROVE TokenInv'
  BY <1>3 DEF Enroll, IInv, TokenInv, TypeOK, rows, TokenRows
<1>4. ASSUME NEW r \in Requests, NEW kind \in {"ask", "prove"},
            NEW p \in Purposes, NEW c \in Credentials, NEW k \in Keys,
            Present(r, kind, p, c, k)
       PROVE TokenInv'
  BY <1>4 DEF Present, IInv, TokenInv, TypeOK, rows, TokenRows
<1>5. ASSUME NEW r \in Requests, Live(r) PROVE TokenInv'
  BY <1>5 DEF Live, IInv, TokenInv, TypeOK, rows, TokenRows
<1>6. ASSUME NEW r \in Requests, NEW h \in Challenges, Issue(r, h)
       PROVE TokenInv'
  BY <1>6 DEF Issue, IInv, TokenInv, TypeOK, rows, TokenRows
<1>7. ASSUME NEW r \in Requests, NEW h \in Challenges, Verify(r, h)
       PROVE TokenInv'
  BY <1>7 DEF Verify, IInv, TokenInv, TypeOK, rows, TokenRows
<1>8. ASSUME NEW r \in Requests, NEW s \in Sessions, ClaimSession(r, s)
       PROVE TokenInv'
  BY <1>8 DEF ClaimSession, IInv, TokenInv, TypeOK, rows, TokenRows, Claim
<1>9. ASSUME NEW r \in Requests, NEW c \in Credentials, ClaimRotation(r, c)
       PROVE TokenInv'
  BY <1>9 DEF ClaimRotation, IInv, TokenInv, TypeOK, rows, TokenRows, Claim
<1>10. ASSUME NEW r \in Requests, NEW s \in Sessions, ReadSession(r, s)
       PROVE TokenInv'
  BY <1>10 DEF ReadSession, IInv, TokenInv, TypeOK, rows, TokenRows
<1>11. ASSUME NEW r \in Requests, ReadCredential(r) PROVE TokenInv'
  BY <1>11 DEF ReadCredential, IInv, TokenInv, TypeOK, rows, TokenRows
<1>12. ASSUME NEW r \in Requests, Confirm(r) PROVE TokenInv'
  BY <1>12 DEF Confirm, IInv, TokenInv, TypeOK, rows, TokenRows
<1>13. ASSUME NEW r \in Requests, Stop(r) PROVE TokenInv'
  BY <1>13 DEF Stop, IInv, TokenInv, TypeOK, rows, TokenRows
<1>14. CASE UNCHANGED vars
  BY <1>14 DEF vars, IInv, TokenInv, TypeOK, rows, TokenRows
<1>15. QED
  BY <1>1, <1>2, <1>3, <1>4, <1>5, <1>6, <1>7, <1>8,
     <1>9, <1>10, <1>11, <1>12, <1>13, <1>14
     DEF Next, Operator, Node, Gateway

\* The invariant holds at the start.
LEMMA InitInv == Init => IInv
<1> SUFFICES ASSUME Init PROVE IInv
  OBVIOUS
<1>1. TypeOK
  BY RowEdits DEF Init, TypeOK, IdentityRows, TokenRows, CredentialRows,
     ChallengeRows, SessionRows
<1>2. NothingOutlivesItsKey /\ Versions /\ RequestInv /\ TokenInv
  BY DEF Init, NothingOutlivesItsKey, Versions, RequestInv, Carried, TokenInv,
     NoRequest
<1>3. QED
  BY <1>1, <1>2 DEF IInv

\* The invariant is inductive.
THEOREM Inductive == Spec => []IInv
<1>1. IInv /\ [Next]_vars => IInv'
  <2> SUFFICES ASSUME IInv, [Next]_vars PROVE IInv'
    OBVIOUS
  <2>1. TypeOK'
    BY StepTypeOK DEF IInv
  <2>2. QED
    BY <2>1, StepKey, StepVersions, StepRequests, StepTokens DEF IInv
<1>2. QED
  BY InitInv, <1>1, PTL DEF Spec

\* Every row and request has its type, and a rotation's challenge binds a key.
THEOREM TypeCorrect == Spec => []TypeOK
<1>1. IInv => TypeOK
  BY DEF IInv
<1>2. QED
  BY <1>1, Inductive, PTL

\* No credential and no session outlives its key: neither a revocation nor a
\* rotation can be undone by a proof that was under way.
THEOREM KeyBound == Spec => []NothingOutlivesItsKey
<1>1. IInv => NothingOutlivesItsKey
  BY DEF IInv
<1>2. QED
  BY <1>1, Inductive, PTL

\* validate_session answers "valid" only while the session is, although it
\* reads three rows one after the other.
THEOREM AnswerCurrent == Spec => ValidAnswerIsCurrent
<1> DEFINE Sound ==
      \A r \in Requests :
          (request[r].pc = "confirm" /\ request'[r].pc = "valid") =>
              session[request[r].session].status = "active"
<1>1. IInv /\ [Next]_vars => [Sound]_vars
  <2> SUFFICES ASSUME IInv, [Next]_vars,
                      NEW r \in Requests,
                      request[r].pc = "confirm", request'[r].pc = "valid"
               PROVE session[request[r].session].status = "active"
    OBVIOUS
  <2>1. Confirm(r)
    <3>1. request[r].pc # request'[r].pc
      OBVIOUS
    <3>2. ASSUME NEW q \in Requests,
                 request' = [request EXCEPT ![q] = NoRequest]
          PROVE FALSE
      BY <3>1, <3>2 DEF IInv, TypeOK, NoRequest
    <3>3. ASSUME Operator PROVE FALSE
      BY <3>1, <3>3 DEF Operator, CreateToken, Revoke
    <3>4. ASSUME NEW q \in Requests, NEW kind, NEW p, NEW c, NEW k,
                 Present(q, kind, p, c, k)
          PROVE FALSE
      BY <3>4 DEF Present, NoRequest, IInv, TypeOK
    <3>5. ASSUME NEW q \in Requests, NEW h \in Challenges, Verify(q, h)
          PROVE FALSE
      BY <3>5 DEF Verify, IInv, TypeOK
    <3>6. ASSUME NEW q \in Requests, NEW s \in Sessions, ReadSession(q, s)
          PROVE FALSE
      BY <3>6 DEF ReadSession, NoRequest, IInv, TypeOK
    <3>7. ASSUME NEW q \in Requests, Confirm(q) PROVE q = r
      BY <3>7 DEF Confirm, IInv, TypeOK
    <3>8. ASSUME Node PROVE FALSE
      <4>1. ASSUME NEW q \in Requests, Live(q) PROVE FALSE
        BY <4>1 DEF Live, IInv, TypeOK
      <4>2. QED
        BY <3>1, <3>2, <3>4, <3>5, <3>8, <4>1
           DEF Node, Enroll, Issue, ClaimSession, ClaimRotation, Claim
    <3>9. ASSUME Gateway PROVE Confirm(r)
      <4>1. ASSUME NEW q \in Requests, ReadCredential(q) PROVE FALSE
        BY <4>1 DEF ReadCredential, IInv, TypeOK
      <4>2. QED
        BY <3>6, <3>7, <3>9, <4>1 DEF Gateway
    <3>10. QED
      BY <3>1, <3>2, <3>3, <3>8, <3>9 DEF Next, Stop, vars
  <2>2. /\ request[r].session \in Sessions
        /\ session[request[r].session].status # "absent"
        /\ request[r].credential = session[request[r].session].credential
    BY DEF IInv, RequestInv, Carried
  <2>3. credential[request[r].credential].status # "revoked"
    BY <2>1, <2>2 DEF Confirm, IInv, Versions
  <2>4. QED
    BY <2>2, <2>3 DEF IInv, Versions, TypeOK, SessionRows, CredentialRows
<1>2. QED
  BY <1>1, Inductive, PTL DEF Spec, ValidAnswerIsCurrent

\* A revoked identity is active again only by a token made after the
\* revocation.
THEOREM RevocationFinal == Spec => RevocationLasts
<1> DEFINE Renewed ==
      (identity.status = "revoked" /\ identity'.status = "active") =>
          \E t \in Tokens : /\ token[t].fresh /\ token[t].status = "pending"
                            /\ token'[t].status = "consumed"
<1>1. IInv /\ [Next]_vars => [Renewed]_vars
  <2> SUFFICES ASSUME IInv, [Next]_vars,
                      identity.status = "revoked", identity'.status = "active"
               PROVE \E t \in Tokens :
                         /\ token[t].fresh /\ token[t].status = "pending"
                         /\ token'[t].status = "consumed"
    OBVIOUS
  <2>1. PICK t \in Tokens, k \in Keys, c \in Credentials : Enroll(t, k, c)
    BY DEF Next, Operator, Node, Gateway, CreateToken, Revoke, Present, Live,
       Issue, Verify, ClaimSession, ClaimRotation, ReadSession, ReadCredential,
       Confirm, Stop, rows, vars
  <2>2. /\ token[t].fresh /\ token[t].status = "pending"
        /\ token'[t].status = "consumed"
    BY <2>1 DEF Enroll, IInv, TokenInv, TypeOK
  <2>3. QED
    BY <2>2
<1>2. QED
  BY <1>1, Inductive, PTL DEF Spec, RevocationLasts
=============================================================================
