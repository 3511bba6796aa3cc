---------------------------- MODULE ActionBroker ----------------------------
(***************************************************************************)
(* The action broker: durable requests to run one provider action that a   *)
(* person, or the operator's bounds, must approve, and the operation each  *)
(* approved request starts.                                                *)
(*                                                                         *)
(* The action modelled is the guarded one, proxmox.machine.create: its     *)
(* bounds hold a per-principal quota, and its approver needs a permission  *)
(* of its own. A request is known by its requester and idempotency key,    *)
(* and the requests of the model are those of one requester.               *)
(*                                                                         *)
(* Every call of the API takes the clock once, when it arrives, and then   *)
(* runs statement by statement: one action is one SQL statement (or one    *)
(* BEGIN IMMEDIATE transaction, with its audit row). Nothing runs between  *)
(* calls: expiry, recovery and the sync with the operation happen when a   *)
(* call touches the request. Policy and permissions are read at start-up.  *)
(***************************************************************************)
EXTENDS Integers, FiniteSets

CONSTANTS
    Requests,   \* bound: the (requester, idempotency key) pairs ever used
    Calls,      \* bound: API calls in progress at once
    Approvers,  \* the people who decide
    Max,        \* the quota: requests of this principal, max_per_principal
    Grace,      \* how long an approved request may wait for its operation
    Ttl,        \* how long a request may wait for a decision
    MaxTime,    \* bound: the last clock value
    MaxBoots    \* bound: process incarnations

ASSUME BrokerAssumption ==
    /\ IsFiniteSet(Requests)
    /\ Max \in Nat /\ Grace \in Nat /\ Ttl \in Nat
    /\ MaxTime \in Nat /\ MaxBoots \in Nat \ {0}
    /\ Approvers \cap {"none", "auto", "policy", "system"} = {}

RequestState == {"pending", "approved", "denied", "expired", "executing",
                 "succeeded", "failed"}
RowState == RequestState \cup {"absent"}
NoOne == "none"
PolicyAuto == "auto"        \* policy:auto, the decider of a request in bounds
Deciders == Approvers \cup {PolicyAuto, "policy", "system"}
Never == -1                 \* decided_at and expires_at before they are set
\* The operator's override of the risk class; "unset" leaves the declared
\* class, approve, to the bounds.
Policies == {"unset", "auto", "approve", "deny"}
\* An operation in the broker's eyes: live, succeeded, or ended otherwise.
OpState == {"none", "open", "succeeded", "ended"}

VARIABLES
    now, boot,
    policy, mayAsk, mayApprove,     \* what the running process was started with
    \* The action_requests table, a variable per column.
    state, decidedBy, decidedAt, expiresAt, linked,
    op,     \* the operation created under the request's own key
    call    \* the calls in progress, with what each holds between statements

columns == <<state, decidedBy, decidedAt, expiresAt, linked>>
config == <<policy, mayAsk, mayApprove>>
vars == <<now, boot, config, columns, op, call>>

Pcs == {"idle", "lookup", "count", "insert", "made", "load", "expire", "decide",
        "policy_deny", "find", "recount", "open", "link", "fail", "operation",
        "succeed", "end"}
Whats == {"create", "read", "approve", "deny"}
Idle == [pc |-> "idle"]
CallLocals == [pc : Pcs \ {"idle"}, what : Whats, req : Requests, who : Approvers \cup {NoOne},
               at : 0 .. MaxTime, step : 1 .. 4, live : Nat, auto : BOOLEAN]

Init ==
    /\ now = 0 /\ boot = 1
    /\ policy \in Policies /\ mayAsk = TRUE /\ mayApprove = Approvers
    /\ state = [r \in Requests |-> "absent"]
    /\ decidedBy = [r \in Requests |-> NoOne]
    /\ decidedAt = [r \in Requests |-> Never]
    /\ expiresAt = [r \in Requests |-> Never]
    /\ linked = [r \in Requests |-> FALSE]
    /\ op = [r \in Requests |-> "none"]
    /\ call = [c \in Calls |-> Idle]

Busy(c, pc) == call[c].pc = pc
Req(c) == call[c].req
At(c) == call[c].at
Return(c) == call' = [call EXCEPT ![c] = Idle]
Go(c, pc) == call' = [call EXCEPT ![c].pc = pc]
Resume(c, pc) == IF pc = "idle" THEN Return(c) ELSE Go(c, pc)

-----------------------------------------------------------------------------
(* A call arrives. A create is authorized at once, the others once they    *)
(* have read the row; one for an unknown request is refused.               *)

Begin(c, what, r, who) ==
    /\ Busy(c, "idle")
    /\ (who = NoOne) <=> (what \in {"create", "read"})
    /\ IF what = "create" THEN mayAsk ELSE state[r] # "absent"
    /\ call' = [call EXCEPT ![c] =
          [pc |-> IF what = "create" THEN "lookup" ELSE "load", what |-> what,
           req |-> r, who |-> who, at |-> now, step |-> 1, live |-> 0, auto |-> FALSE]]
    /\ UNCHANGED <<now, boot, config, columns, op>>

\* Mutant: an approved request is never looked at again.
DueOnceStarted(r, t) ==
    CASE state[r] = "pending" /\ t >= expiresAt[r] -> "expire"
      [] state[r] = "executing" /\ linked[r]       -> "operation"
      [] OTHER                                     -> "idle"

\* `reconcile`, over the row just read: where the call goes to bring the
\* request up to date with time and with its operation, if anywhere.
Due(r, t) ==
    CASE state[r] = "pending" /\ t >= expiresAt[r]              -> "expire"
      [] state[r] = "approved" /\ t - decidedAt[r] > Grace      -> "find"
      [] state[r] = "executing" /\ linked[r]                    -> "operation"
      [] OTHER                                                  -> "idle"

-----------------------------------------------------------------------------
(* `create`: find a request under the key, classify, insert.               *)

Lookup(c) ==
    /\ Busy(c, "lookup")
    /\ IF state[Req(c)] # "absent" THEN Resume(c, Due(Req(c), At(c)))
       ELSE IF policy = "deny" THEN Return(c) ELSE Go(c, "count")
    /\ UNCHANGED <<now, boot, config, columns, op>>

\* Mutant: the quota counts the states in the order a request leaves them.
BackwardQuotaStates == [k \in 1 .. 4 |->
    CASE k = 1 -> "succeeded" [] k = 2 -> "executing"
      [] k = 3 -> "approved" [] OTHER -> "pending"]

\* The states that hold a quota, in the order `count_for` asks for them.
QuotaStates == [k \in 1 .. 4 |->
    CASE k = 1 -> "pending" [] k = 2 -> "approved"
      [] k = 3 -> "executing" [] OTHER -> "succeeded"]

\* One of the statements of `count_for`. A pending request past its deadline,
\* by a clock read a little earlier, holds nothing.
Counted(c, t) ==
    {r \in Requests \ (IF Busy(c, "recount") THEN {Req(c)} ELSE {}) :
        /\ state[r] = QuotaStates[call[c].step]
        /\ state[r] = "pending" => expiresAt[r] > t}

\* `classify`: the bounds let a request run at once unless the operator pinned
\* the class, and keep one over the quota from running even then.
RunsAtOnce(live) == policy \in {"unset", "auto"} /\ live < Max

\* What the call holds after a statement; the last one gives the answer.
Tally(k, live) ==
    IF k.step < 4 THEN [k EXCEPT !.step = @ + 1, !.live = live]
    ELSE IF k.pc = "count"
         THEN [k EXCEPT !.pc = "insert", !.step = 1, !.live = 0, !.auto = RunsAtOnce(live)]
         ELSE [k EXCEPT !.pc = IF RunsAtOnce(live) THEN "open" ELSE "fail",
                        !.step = 1, !.live = 0]

Count(c) ==
    /\ Busy(c, "count") \/ Busy(c, "recount")
    /\ \E t \in At(c) .. now :
         call' = [call EXCEPT ![c] = Tally(@, @.live + Cardinality(Counted(c, t)))]
    /\ UNCHANGED <<now, boot, config, columns, op>>

\* The insert; a row another call inserted under the same key is the answer.
Insert(c) ==
    /\ Busy(c, "insert")
    /\ LET r == Req(c) IN
       IF state[r] # "absent"
       THEN Go(c, "load") /\ UNCHANGED columns
       ELSE /\ expiresAt' = [expiresAt EXCEPT ![r] = At(c) + Ttl]
            /\ UNCHANGED linked
            /\ IF call[c].auto
               THEN /\ state' = [state EXCEPT ![r] = "approved"]
                    /\ decidedBy' = [decidedBy EXCEPT ![r] = PolicyAuto]
                    /\ decidedAt' = [decidedAt EXCEPT ![r] = At(c)]
                    /\ Go(c, "find")
               ELSE /\ state' = [state EXCEPT ![r] = "pending"]
                    /\ Go(c, "made")
                    /\ UNCHANGED <<decidedBy, decidedAt>>
    /\ UNCHANGED <<now, boot, config, op>>

-----------------------------------------------------------------------------
(* The store's transition, a compare-and-set on the state, and the calls   *)
(* that end with one whichever way it goes.                                *)

\* Mutant: the row is not compared, only named.
BlindTransition(r, from, to, by, t) ==
    /\ state' = [state EXCEPT ![r] = to]
    /\ decidedBy' = [decidedBy EXCEPT ![r] = IF by = NoOne THEN @ ELSE by]
    /\ decidedAt' = [decidedAt EXCEPT ![r] = IF by = NoOne THEN @ ELSE t]

Transition(r, from, to, by, t) ==
    IF state[r] = from
    THEN /\ state' = [state EXCEPT ![r] = to]
         /\ decidedBy' = [decidedBy EXCEPT ![r] = IF by = NoOne THEN @ ELSE by]
         /\ decidedAt' = [decidedAt EXCEPT ![r] = IF by = NoOne THEN @ ELSE t]
    ELSE UNCHANGED <<state, decidedBy, decidedAt>>

Settle(c, from, to, by) ==
    /\ Transition(Req(c), from, to, by, At(c))
    /\ Return(c)
    /\ UNCHANGED <<now, boot, config, expiresAt, linked, op>>

\* A provider that cannot carry out what it just asked for withdraws it.
Abandon(c) == Busy(c, "made") /\ Settle(c, "pending", "denied", "system")
Made(c) ==
    /\ Busy(c, "made") /\ Return(c)
    /\ UNCHANGED <<now, boot, config, columns, op>>

Expire(c) == Busy(c, "expire") /\ Settle(c, "pending", "expired", "system")
PolicyDeny(c) == Busy(c, "policy_deny") /\ Settle(c, "pending", "denied", "policy")
Fail(c) == Busy(c, "fail") /\ Settle(c, "approved", "failed", NoOne)
Succeed(c) == Busy(c, "succeed") /\ Settle(c, "executing", "succeeded", NoOne)

\* Mutant: the operation's own state is copied into the request.
EndAsOperation(c) == Busy(c, "end") /\ Settle(c, "executing", op[Req(c)], NoOne)
End(c) == Busy(c, "end") /\ Settle(c, "executing", "failed", NoOne)

-----------------------------------------------------------------------------
(* Reading and deciding.                                                   *)

\* The row is read and reconciled; a decision on a request reconcile would
\* move, or one that is no longer pending, goes no further. An approver who may
\* not decide at all is refused before that, one who lacks only the action's own
\* permission after it.
Load(c) ==
    /\ Busy(c, "load")
    /\ LET r == Req(c)  due == Due(r, At(c))  what == call[c].what IN
       IF what = "approve" /\ call[c].who \notin mayApprove
       THEN Return(c) \/ Resume(c, due)
       ELSE IF due # "idle" \/ what \in {"create", "read"} \/ state[r] # "pending"
            THEN Resume(c, due)
            ELSE Go(c, IF what = "approve" /\ policy = "deny" THEN "policy_deny" ELSE "decide")
    /\ UNCHANGED <<now, boot, config, columns, op>>

\* The decision also requires the deadline to be ahead of the call's clock; a
\* decision that lost reports what the request is by then.
Decide(c) ==
    /\ Busy(c, "decide")
    /\ LET r == Req(c)
           won == state[r] = "pending" /\ expiresAt[r] > At(c)
           to == IF call[c].what = "approve" THEN "approved" ELSE "denied" IN
       IF won
       THEN /\ Transition(r, "pending", to, call[c].who, At(c))
            /\ IF to = "approved" THEN Go(c, "find") ELSE Return(c)
       ELSE Return(c) /\ UNCHANGED <<state, decidedBy, decidedAt>>
    /\ UNCHANGED <<now, boot, config, expiresAt, linked, op>>

-----------------------------------------------------------------------------
(* `start`: create the operation of an approved request and link it.       *)

\* Mutant: only the decision is consulted.
Unrechecked(r) == "open"

\* `recheck`, before the bounds are counted again: what is left to do for a
\* request without an operation.
Recheck(r) ==
    IF policy = "deny" \/ ~mayAsk THEN "fail"
    ELSE IF decidedBy[r] = PolicyAuto THEN "recount"
    ELSE IF decidedBy[r] \in mayApprove THEN "open" ELSE "fail"

Find(c) ==
    /\ Busy(c, "find")
    /\ Go(c, IF op[Req(c)] = "none" THEN Recheck(Req(c)) ELSE "open")
    /\ UNCHANGED <<now, boot, config, columns, op>>

\* The operation's key is the request's: creating it again returns it.
Created(c) == op' = [op EXCEPT ![Req(c)] = IF @ = "none" THEN "open" ELSE @]

Open(c) ==
    /\ Busy(c, "open") /\ Created(c) /\ Go(c, "link")
    /\ UNCHANGED <<now, boot, config, columns>>

\* The store fails, before the operation's row is written or after it.
OpenFails(c) ==
    /\ Busy(c, "open") /\ (Created(c) \/ UNCHANGED op) /\ Return(c)
    /\ UNCHANGED <<now, boot, config, columns>>

Link(c) ==
    /\ Busy(c, "link")
    /\ Transition(Req(c), "approved", "executing", NoOne, At(c))
    /\ linked' = [linked EXCEPT ![Req(c)] = @ \/ state[Req(c)] = "approved"]
    /\ Return(c)
    /\ UNCHANGED <<now, boot, config, expiresAt, op>>

\* The linked operation is read; a live one leaves the request as it is.
Operation(c) ==
    /\ Busy(c, "operation")
    /\ Resume(c, CASE op[Req(c)] = "succeeded" -> "succeed"
                   [] op[Req(c)] = "ended"     -> "end"
                   [] OTHER                    -> "idle")
    /\ UNCHANGED <<now, boot, config, columns, op>>

-----------------------------------------------------------------------------
(* Around the broker.                                                      *)

\* The operation queue moves an operation it holds; that a resolved one may
\* come back to life is the queue's own doing.
OperationMoves(r) ==
    /\ op[r] # "none"
    /\ op' \in {[op EXCEPT ![r] = s] : s \in OpState \ {"none"}}
    /\ UNCHANGED <<now, boot, config, columns, call>>

\* The process ends at any point and the next one is started, perhaps with
\* another policy and other permissions: the calls in progress are gone.
Restart ==
    /\ boot < MaxBoots /\ boot' = boot + 1
    /\ policy' \in Policies /\ mayAsk' \in BOOLEAN /\ mayApprove' \in SUBSET Approvers
    /\ call' = [c \in Calls |-> Idle]
    /\ UNCHANGED <<now, columns, op>>

Tick ==
    /\ now < MaxTime /\ now' = now + 1
    /\ UNCHANGED <<boot, config, columns, op, call>>

CallStep(c) ==
    \/ Lookup(c) \/ Count(c) \/ Insert(c) \/ Abandon(c) \/ Made(c) \/ Expire(c)
    \/ PolicyDeny(c) \/ Fail(c) \/ Succeed(c) \/ End(c) \/ Load(c) \/ Decide(c)
    \/ Find(c) \/ Open(c) \/ OpenFails(c) \/ Link(c) \/ Operation(c)

Next ==
    \/ \E c \in Calls : CallStep(c)
    \/ \E c \in Calls, what \in Whats, r \in Requests,
          who \in Approvers \cup {NoOne} : Begin(c, what, r, who)
    \/ \E r \in Requests : OperationMoves(r)
    \/ Restart \/ Tick

Spec == Init /\ [][Next]_vars
=============================================================================
