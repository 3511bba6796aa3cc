---------------------------- MODULE NodeIdentity ----------------------------
(***************************************************************************)
(* The node identity of one machine: enrollment by a single-use token, the *)
(* challenges and proofs that turn a credential into a session or into a   *)
(* new key, revocation, and the validation of a session by the gateway.    *)
(*                                                                         *)
(* A request reads the credential, the identity and the challenge in       *)
(* statements of their own, verifies a signature against what it read, and *)
(* claims in one write transaction that looks again.  Only the transactions *)
(* are atomic.  A key is a name: a signature verifies against a key if it   *)
(* was made with it.  An expired token, credential, challenge or session,  *)
(* a store error and the end of the process all end a request early, which *)
(* Stop allows at any step; clocks are left out.                           *)
(***************************************************************************)
EXTENDS Naturals

CONSTANTS Keys,         \* public keys
          Tokens,       \* enrollment tokens
          Credentials,  \* node credentials
          Challenges,   \* proof challenges
          Sessions,     \* node sessions
          Requests,     \* requests of nodes and of the gateway
          None          \* no key, no row

ASSUME NoneAssumption ==
    None \notin Keys \cup Credentials \cup Challenges \cup Sessions

VARIABLES
    identity,    \* the row of node_identities
    token,       \* node_enrollment_tokens; `fresh`: made since the last revoke
    credential,  \* node_credentials
    challenge,   \* node_challenges
    session,     \* node_sessions; `key` is the key that proved it
    request      \* the requests: where each is, what it names and has read

rows == <<identity, token, credential, challenge, session>>
vars == <<identity, token, credential, challenge, session, request>>

-----------------------------------------------------------------------------
Purposes == {"session", "rotate"}
Kinds == {"ask", "prove", "validate"}
Pcs == {"idle", "identity", "issue", "challenge", "claim", "credential",
        "confirm", "valid"}

NoRequest == [pc |-> "idle", kind |-> "ask", purpose |-> "session", key |-> None,
              credential |-> None, challenge |-> None, session |-> None]

Init ==
    /\ identity = [status |-> "none", key |-> None, version |-> 0]
    /\ token = [t \in Tokens |-> [status |-> "absent", fresh |-> FALSE]]
    /\ credential = [c \in Credentials |-> [status |-> "absent", version |-> 0]]
    /\ challenge = [h \in Challenges |->
                       [status |-> "absent", purpose |-> "session", key |-> None]]
    /\ session = [s \in Sessions |->
                     [status |-> "absent", credential |-> None, key |-> None]]
    /\ request = [r \in Requests |-> NoRequest]

-----------------------------------------------------------------------------
\* A token is created without looking at the identity.
CreateToken(t) ==
    /\ token[t].status = "absent"
    /\ token' = [token EXCEPT ![t] = [status |-> "pending", fresh |-> TRUE]]
    /\ UNCHANGED <<identity, credential, challenge, session, request>>

\* The enrollment transaction: it claims the token and binds the key, unless
\* an identity is active, which leaves the token pending.  The version counts
\* the keys that were ever bound.
Enroll(t, k, c) ==
    LET version == identity.version + 1 IN
    /\ token[t].status = "pending" /\ identity.status # "active"
    /\ credential[c].status = "absent"
    /\ token' = [token EXCEPT ![t].status = "consumed"]
    /\ identity' = [status |-> "active", key |-> k, version |-> version]
    /\ credential' = [credential EXCEPT
                         ![c] = [status |-> "active", version |-> version]]
    /\ UNCHANGED <<challenge, session, request>>

RevokeRow(row) == IF row.status = "active" THEN [row EXCEPT !.status = "revoked"]
                                           ELSE row
ConsumeRow(row) == IF row.status = "pending" THEN [row EXCEPT !.status = "consumed"]
                                             ELSE row

\* Mutant: the tokens an operator made before outlive the revocation.
RevokeKeepsTokens ==
    /\ identity.status = "active"
    /\ identity' = [identity EXCEPT !.status = "revoked"]
    /\ credential' = [c \in Credentials |-> RevokeRow(credential[c])]
    /\ session' = [s \in Sessions |-> RevokeRow(session[s])]
    /\ token' = [t \in Tokens |-> [token[t] EXCEPT !.fresh = FALSE]]
    /\ UNCHANGED <<challenge, request>>

\* revoke_identity: one transaction ends the identity, its credentials and
\* sessions, and the tokens that could enroll it again.  Challenges are left.
Revoke ==
    /\ identity.status = "active"
    /\ identity' = [identity EXCEPT !.status = "revoked"]
    /\ credential' = [c \in Credentials |-> RevokeRow(credential[c])]
    /\ session' = [s \in Sessions |-> RevokeRow(session[s])]
    /\ token' = [t \in Tokens |-> [ConsumeRow(token[t]) EXCEPT !.fresh = FALSE]]
    /\ UNCHANGED <<challenge, request>>

-----------------------------------------------------------------------------
\* live_identity, first half: a request presents a credential that is active.
Present(r, kind, purpose, c, k) ==
    /\ request[r].pc \in {"idle", "valid"}
    /\ credential[c].status = "active"
    /\ request' = [request EXCEPT ![r] = [NoRequest EXCEPT
                      !.pc = "identity", !.kind = kind, !.purpose = purpose,
                      !.credential = c, !.key = k]]
    /\ UNCHANGED rows

\* live_identity, second half: the identity is active and of the credential's
\* version.  A rotation asks for a key that is not the bound one; a session is
\* proved with the key that is bound when it is read here.
Live(r) ==
    /\ request[r].pc = "identity"
    /\ identity.status = "active"
    /\ identity.version = credential[request[r].credential].version
    /\ request[r].kind = "ask" /\ request[r].purpose = "rotate"
          => request[r].key # identity.key
    /\ request[r].kind = "prove" /\ request[r].purpose = "session"
          => request[r].key = identity.key
    /\ request' = [request EXCEPT
           ![r].pc = IF request[r].kind = "ask" THEN "issue" ELSE "challenge"]
    /\ UNCHANGED rows

\* Mutant: the challenge of a rotation does not bind the new key.
IssueWithoutKey(r, h) ==
    /\ request[r].pc = "issue"
    /\ challenge[h].status = "absent" /\ identity.status = "active"
    /\ challenge' = [challenge EXCEPT ![h] =
           [status |-> "open", purpose |-> request[r].purpose, key |-> None]]
    /\ request' = [request EXCEPT ![r] = NoRequest]
    /\ UNCHANGED <<identity, token, credential, session>>

\* issue_challenge looks at the status of the identity alone.
Issue(r, h) ==
    /\ request[r].pc = "issue"
    /\ challenge[h].status = "absent" /\ identity.status = "active"
    /\ challenge' = [challenge EXCEPT ![h] =
           [status |-> "open", purpose |-> request[r].purpose,
            key |-> IF request[r].purpose = "rotate" THEN request[r].key ELSE None]]
    /\ request' = [request EXCEPT ![r] = NoRequest]
    /\ UNCHANGED <<identity, token, credential, session>>

\* prove_session and rotate, up to the claim: the challenge read is for this
\* proof, and the signature verifies: against the bound key for a session,
\* against the key the challenge binds for a rotation.
Verify(r, h) ==
    /\ request[r].pc = "challenge"
    /\ challenge[h].status # "absent" /\ challenge[h].purpose = request[r].purpose
    /\ request[r].purpose = "rotate" => request[r].key = challenge[h].key
    /\ request' = [request EXCEPT ![r].pc = "claim", ![r].challenge = h]
    /\ UNCHANGED rows

\* The part both claim transactions share: the challenge is consumed, and the
\* credential is still active.
Claim(r, purpose) ==
    /\ request[r].pc = "claim" /\ request[r].purpose = purpose
    /\ challenge[request[r].challenge].status = "open"
    /\ credential[request[r].credential].status = "active"
    /\ challenge' = [challenge EXCEPT ![request[r].challenge].status = "used"]
    /\ request' = [request EXCEPT ![r] = NoRequest]

\* Mutant: the transaction trusts the credential that was read before it.
ClaimSessionUnchecked(r, s) ==
    /\ request[r].pc = "claim" /\ request[r].purpose = "session"
    /\ challenge[request[r].challenge].status = "open"
    /\ identity.status = "active"
    /\ session[s].status = "absent"
    /\ session' = [session EXCEPT ![s] =
           [status |-> "active", credential |-> request[r].credential,
            key |-> request[r].key]]
    /\ challenge' = [challenge EXCEPT ![request[r].challenge].status = "used"]
    /\ request' = [request EXCEPT ![r] = NoRequest]
    /\ UNCHANGED <<identity, token, credential>>

\* consume_challenge_and_issue_session.
ClaimSession(r, s) ==
    /\ Claim(r, "session")
    /\ identity.status = "active"
    /\ identity.version = credential[request[r].credential].version
    /\ session[s].status = "absent"
    /\ session' = [session EXCEPT ![s] =
           [status |-> "active", credential |-> request[r].credential,
            key |-> request[r].key]]
    /\ UNCHANGED <<identity, token, credential>>

\* rotate_key: the new key is bound, whatever the version of the identity;
\* the new credential's version is counted from the credential presented.
ClaimRotation(r, c) ==
    LET version == credential[request[r].credential].version + 1 IN
    /\ Claim(r, "rotate")
    /\ identity.status = "active" /\ credential[c].status = "absent"
    /\ identity' = [identity EXCEPT !.key = request[r].key, !.version = @ + 1]
    /\ credential' = [d \in Credentials |->
           IF d = c THEN [status |-> "active", version |-> version]
                    ELSE RevokeRow(credential[d])]
    /\ session' = [s \in Sessions |-> RevokeRow(session[s])]
    /\ UNCHANGED token

-----------------------------------------------------------------------------
\* validate_session reads the session, then its credential, then the identity.
ReadSession(r, s) ==
    /\ request[r].pc \in {"idle", "valid"}
    /\ session[s].status = "active"
    /\ request' = [request EXCEPT ![r] = [NoRequest EXCEPT
                      !.pc = "credential", !.kind = "validate", !.session = s,
                      !.credential = session[s].credential]]
    /\ UNCHANGED rows

ReadCredential(r) ==
    /\ request[r].pc = "credential"
    /\ credential[request[r].credential].status = "active"
    /\ request' = [request EXCEPT ![r].pc = "confirm"]
    /\ UNCHANGED rows

\* Mutant: a live identity of whatever version is enough.
ConfirmAnyVersion(r) ==
    /\ request[r].pc = "confirm"
    /\ identity.status = "active"
    /\ request' = [request EXCEPT ![r].pc = "valid"]
    /\ UNCHANGED rows

Confirm(r) ==
    /\ request[r].pc = "confirm"
    /\ identity.status = "active"
    /\ identity.version = credential[request[r].credential].version
    /\ request' = [request EXCEPT ![r].pc = "valid"]
    /\ UNCHANGED rows

\* A request ends early: refused, failed or cut off.
Stop(r) ==
    /\ request[r].pc # "idle"
    /\ request' = [request EXCEPT ![r] = NoRequest]
    /\ UNCHANGED rows

-----------------------------------------------------------------------------
Operator ==
    \/ \E t \in Tokens : CreateToken(t)
    \/ Revoke

Node ==
    \/ \E t \in Tokens, k \in Keys, c \in Credentials : Enroll(t, k, c)
    \/ \E r \in Requests, p \in Purposes, c \in Credentials, k \in Keys :
           Present(r, "ask", p, c, k) \/ Present(r, "prove", p, c, k)
    \/ \E r \in Requests : Live(r)
    \/ \E r \in Requests, h \in Challenges : Issue(r, h) \/ Verify(r, h)
    \/ \E r \in Requests, s \in Sessions : ClaimSession(r, s)
    \/ \E r \in Requests, c \in Credentials : ClaimRotation(r, c)

Gateway ==
    \/ \E r \in Requests, s \in Sessions : ReadSession(r, s)
    \/ \E r \in Requests : ReadCredential(r) \/ Confirm(r)

Next == Operator \/ Node \/ Gateway \/ \E r \in Requests : Stop(r)

Spec == Init /\ [][Next]_vars
=============================================================================
