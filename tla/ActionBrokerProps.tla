------------------------- MODULE ActionBrokerProps -------------------------
(***************************************************************************)
(* What the broker promises about the requests it decides and carries out. *)
(***************************************************************************)
EXTENDS ActionBroker

\* Every variable stays in its range.
TypeOK ==
    /\ now \in 0 .. MaxTime /\ boot \in 1 .. MaxBoots
    /\ policy \in Policies /\ mayAsk \in BOOLEAN /\ mayApprove \subseteq Approvers
    /\ state \in [Requests -> RowState]
    /\ decidedBy \in [Requests -> Deciders \cup {NoOne}]
    /\ decidedAt \in [Requests -> (0 .. MaxTime) \cup {Never}]
    /\ expiresAt \in [Requests -> (0 .. MaxTime + Ttl) \cup {Never}]
    /\ linked \in [Requests -> BOOLEAN]
    /\ op \in [Requests -> OpState]
    /\ call \in [Calls -> {Idle} \cup CallLocals]

\* The requests, seen through the record requesters and approvers rely on.
Stage(s) ==
    CASE s = "pending"                -> "waiting"
      [] s \in {"denied", "expired"}  -> "refused"
      [] s = "executing"              -> "running"
      [] s = "succeeded"              -> "done"
      [] OTHER                        -> s

Record == INSTANCE ActionRecord WITH
    stage <- [r \in Requests |-> Stage(state[r])],
    decider <- decidedBy,
    opened <- {r \in Requests : op[r] # "none"}

\* Concurrent creations, decisions, expiries, recoveries and restarts never
\* decide a request twice, act on one that was not approved or was refused,
\* or run one without its operation.
ImplementsRecord == Record!Spec

\* The quota bounds what runs without a person, although it is counted over
\* four statements while other requests move, and before the row is inserted.
RunningUnasked == {r \in Requests : decidedBy[r] = PolicyAuto
                                    /\ state[r] \in {"executing", "succeeded"}}
QuotaKept == Cardinality(RunningUnasked) <= Max

\* An operation is opened only under the policy and permissions its process
\* runs with, however old the approval: never under deny, never for a requester
\* who may no longer ask, never unasked when a person must decide, and never on
\* the word of someone who may no longer approve.
OpenedUnderCurrentPolicy ==
    [][\A r \in Requests : (op[r] = "none" /\ op'[r] # "none") =>
          /\ policy # "deny" /\ mayAsk
          /\ IF decidedBy[r] = PolicyAuto THEN policy # "approve"
                                    ELSE decidedBy[r] \in mayApprove]_vars

-----------------------------------------------------------------------------
(* Someone keeps reading: the console's inbox polls and every read brings  *)
(* the request up to date. The store works once in a while.                *)

Reads(r) == \E c \in Calls : Begin(c, "read", r, NoOne)

Fairness ==
    /\ WF_vars(Tick)
    /\ \A c \in Calls : WF_vars(CallStep(c)) /\ SF_vars(Open(c))
    /\ \A r \in Requests : SF_vars(Reads(r))

LiveSpec == Spec /\ Fairness

\* A request whose process died between its approval and its operation does
\* not stay approved, and neither does one whose operation store failed.
StrandedApprovalRecovers ==
    \A r \in Requests : (state[r] = "approved" /\ decidedAt[r] + Grace < MaxTime)
                            ~> state[r] # "approved"
=============================================================================
