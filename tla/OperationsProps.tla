-------------------------- MODULE OperationsProps --------------------------
(***************************************************************************)
(* What the operation queue promises: what the code keeps, and what its    *)
(* comments, tests and domain rules say of it.                             *)
(***************************************************************************)
EXTENDS Operations

\* Every variable stays in its range.
TypeOK ==
    /\ now \in 0 .. MaxTime /\ boot \in 1 .. MaxBoots
    /\ state \in [Ops -> RowState]
    /\ cancelRequested \in [Ops -> BOOLEAN]
    /\ deadlineAt \in [Ops -> Deadlines \cup {NoDeadline}]
    /\ claimedAt \in [Ops -> (0 .. MaxTime) \cup {Never}]
    /\ workerId \in [Ops -> {NoWorker, Inline} \cup 1 .. MaxBoots]
    /\ hostPc \in HostPcs /\ tickNow \in 0 .. MaxTime
    /\ expired \subseteq Ops \X (0 .. MaxTime)
    /\ overdue \subseteq Ops /\ inHand \in Ops \cup {NoOp}
    /\ inFlight \subseteq Ops /\ drainTodo \subseteq Ops
    /\ cancelPc \in [Cancellers -> CancelPcs]
    /\ cancelOp \in [Cancellers -> Ops \cup {NoOp}]
    /\ cancelSeen \in [Cancellers -> RowState]
    /\ task \in [Ops -> TaskPcs]
    /\ goal \in [Ops -> Goals]
    /\ seenCancel \in [Ops -> BOOLEAN]
    /\ beat \in [Ops -> BOOLEAN]
    /\ beatNow \in [Ops -> (0 .. MaxTime) \cup {Never}]
    /\ starts \in [Ops -> Nat]
    /\ askedPending \in [Ops -> BOOLEAN]

-----------------------------------------------------------------------------
(* What the code keeps. *)

\* "Nothing auto-retries": over any interleaving of the queue's claim, claims
\* by id, recovery, deadline sweeps, cancellations, drains and crashes, the
\* executor of an operation is started at most once.
ExecutedOnce == \A o \in Ops : starts[o] <= 1

\* Recovery never fails a claim that was renewed within the lease: at the very
\* write, the claim it resolves is older than the lease by the tick's clock,
\* although a heartbeat may have landed since the tick selected it.
RecoveryRespectsLease ==
    [][\A o \in Ops : (expired' # expired /\ state'[o] # state[o])
                          => claimedAt[o] < tickNow - Lease]_vars

\* The host never runs, or is about to run, more than `max_active` claims.
ActiveBound == Permits <= MaxActive

\* A cancellation the store took while the operation was pending is seen by
\* the queue, however late the claim: its executor is never started.
FlaggedPendingNeverQueued ==
    \A o \in Ops \ InlineOps : askedPending[o] => starts[o] = 0

\* Once the drain is through its list, every operation with a task in flight
\* was asked to cancel or had already ended, whoever else was writing.
DrainAsksEveryTask ==
    hostPc \in {"grace", "stopped"} =>
        \A o \in inFlight : cancelRequested[o] \/ state[o] \in Terminal

\* The whole system, seen per row, is the record callers may rely on.
Phase(s) ==
    CASE s = "absent"  -> "absent"
      [] s = "pending" -> "queued"
      [] s \in Live    -> "live"
      [] OTHER         -> "over"

Record == INSTANCE OperationRecord WITH
    phase <- [o \in Ops |-> Phase(state[o])],
    claimed <- {o \in Ops : claimedAt[o] # Never},
    runs <- starts,
    asked <- cancelRequested

\* Each step of the queue is a step of that record or leaves it alone.
ImplementsRecord == Record!Spec

-----------------------------------------------------------------------------
(* What is said of the program and does not hold. *)

\* fleet-core: "Terminal states are terminal: no transition leaves them."
TerminalIsFinal ==
    [][\A o \in Ops : state[o] \in Terminal => state'[o] = state[o]]_vars
=============================================================================
