-------------------------- MODULE NodeIdentityProps --------------------------
(***************************************************************************)
(* What the identity of a node promises to the gateway and the operator.   *)
(***************************************************************************)
EXTENDS NodeIdentity

IdentityRows == [status : {"none", "active", "revoked"},
                 key : Keys \cup {None}, version : Nat]
TokenRows == [status : {"absent", "pending", "consumed"}, fresh : BOOLEAN]
CredentialRows == [status : {"absent", "active", "revoked"}, version : Nat]
ChallengeRows ==
    [status : {"absent", "open", "used"}, purpose : {"session"}, key : {None}]
    \cup [status : {"open", "used"}, purpose : {"rotate"}, key : Keys]
SessionRows == [status : {"absent", "active", "revoked"},
                credential : Credentials \cup {None}, key : Keys \cup {None}]
RequestRows == [pc : Pcs, kind : Kinds, purpose : Purposes,
                key : Keys \cup {None}, credential : Credentials \cup {None},
                challenge : Challenges \cup {None},
                session : Sessions \cup {None}]

\* Every row and request has its type; the challenge of a rotation binds the key
\* it is to prove.
TypeOK ==
    /\ identity \in IdentityRows
    /\ token \in [Tokens -> TokenRows]
    /\ credential \in [Credentials -> CredentialRows]
    /\ challenge \in [Challenges -> ChallengeRows]
    /\ session \in [Sessions -> SessionRows]
    /\ request \in [Requests -> RequestRows]

\* An active credential is of the key that is bound now, and an active session
\* was proved with that key: what a rotation or a revocation cut off does not
\* come back with a later enrollment, and no proof that was under way when the
\* key changed leaves a session behind.
NothingOutlivesItsKey ==
    /\ \A c \in Credentials : credential[c].status = "active" =>
          identity.status = "active" /\ credential[c].version = identity.version
    /\ \A s \in Sessions : session[s].status = "active" =>
          /\ session[s].credential \in Credentials
          /\ credential[session[s].credential].status = "active"
          /\ session[s].key = identity.key

\* The gateway is told that a session is valid only while it is, although the
\* three rows that say so are read one after the other.
ValidAnswerIsCurrent ==
    [][\A r \in Requests :
          (request[r].pc = "confirm" /\ request'[r].pc = "valid") =>
              session[request[r].session].status = "active"]_vars

\* A revoked identity comes back only by a token that was made after the
\* revocation ("until an explicit re-enrollment").
RevocationLasts ==
    [][(identity.status = "revoked" /\ identity'.status = "active") =>
          \E t \in Tokens : /\ token[t].fresh /\ token[t].status = "pending"
                            /\ token'[t].status = "consumed"]_vars

=============================================================================
