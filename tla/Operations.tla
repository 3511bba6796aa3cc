----------------------------- MODULE Operations -----------------------------
(***************************************************************************)
(* The durable operation queue of one controller: the rows of the          *)
(* `operations` table and everything that reads and writes them at once.   *)
(*                                                                         *)
(*   - the worker host's loop (maintain, claim, spawn, drain),             *)
(*   - one tracked task and one heartbeat per claimed operation,           *)
(*   - the executors that claim an inner operation by its id,              *)
(*   - callers of the cancel route,                                        *)
(*   - the process itself, which may crash, exit and start again.          *)
(*                                                                         *)
(* One action is one SQL statement (or one BEGIN IMMEDIATE transaction)    *)
(* with the in-memory work up to the next await: the store's `transition`  *)
(* and `complete` read a row, validate the move against what they read,    *)
(* and then write the new state unconditionally, so the read and the write *)
(* are two actions and anything may happen between them.                   *)
(***************************************************************************)
EXTENDS OperationStates, Integers, FiniteSets

CONSTANTS
    NumOps,     \* bound: operations ever accepted, numbered in created_at order
    Callers,    \* requests that may call the cancel route
    Deadlines,  \* bound: the deadline_at values callers give
    Lease,      \* the claim lease, in clock ticks
    MaxActive,  \* the host's active-job bound
    MaxTime,    \* bound: the last clock value
    MaxBoots,   \* bound: process incarnations
    InlineOps,  \* operations an executor created to run as its own step
    CanPanic    \* may an executor panic

ASSUME OperationsAssumption ==
    /\ NumOps \in Nat \ {0}
    /\ Deadlines \subseteq Nat
    /\ Lease \in Nat
    /\ MaxActive \in Nat \ {0}
    /\ MaxTime \in Nat
    /\ MaxBoots \in Nat \ {0}
    /\ InlineOps \subseteq 1 .. NumOps
    /\ CanPanic \in BOOLEAN
    /\ "host" \notin Callers

Ops == 1 .. NumOps
NoOp == 0                   \* no operation in hand
NoDeadline == -1            \* deadline_at IS NULL
Never == -1                 \* claimed_at IS NULL, and a clock nobody read
NoWorker == -1              \* worker_id IS NULL
Inline == 0                 \* the worker_id every claim by id carries
Cancellers == Callers \cup {"host"}     \* the drain calls the same use case

VARIABLES
    now,        \* the wall clock
    boot,       \* the process incarnation, which stands for its worker_id
    \* The operations table, a variable per column.
    state, cancelRequested, deadlineAt, claimedAt, workerId,
    \* The worker host's loop and its locals.
    hostPc, tickNow, expired, overdue, inHand, inFlight, drainTodo,
    \* Per canceller: where its call is, on which operation, what it read.
    cancelPc, cancelOp, cancelSeen,
    \* Per operation: its task, the state that task is about to write, the
    \* flag in the claimed snapshot, its heartbeat and the clock that one read.
    task, goal, seenCancel, beat, beatNow,
    \* History: executor starts, and cancellations asked for while pending.
    starts, askedPending

table == <<state, cancelRequested, deadlineAt, claimedAt, workerId>>
host == <<hostPc, tickNow, expired, overdue, inHand, inFlight, drainTodo>>
cancels == <<cancelPc, cancelOp, cancelSeen>>
tasks == <<task, goal, seenCancel>>
beats == <<beat, beatNow>>
history == <<starts, askedPending>>
vars == <<now, boot, table, host, cancels, tasks, beats, history>>

HostPcs == {"loop", "select", "recover", "sweep", "sweep_write", "claim",
            "fetch", "drain", "grace", "stopped"}
CancelPcs == {"idle", "get", "flag", "reread", "write"}
\* "claimed": spawned, the snapshot not yet looked at; "stop_write" and "cancel":
\* execute_claimed resolving a flagged snapshot; "executing": inside the
\* executor; "write": a validated complete, about to write its goal; "fail":
\* the executor returned an error, about to complete as failed.
TaskPcs == {"none", "claimed", "stop_write", "cancel", "executing", "write",
            "fail", "done"}
Goals == {"succeeded", "failed", "cancelled", "blocked_manual_approval"}
RowState == OperationState \cup {"absent"}

Accepted(o) == state[o] # "absent"
Overdue(o, t) == deadlineAt[o] # NoDeadline /\ deadlineAt[o] <= t
Legal(o, to) == Accepted(o) /\ CanTransition(state[o], to)
Running(o) == task[o] \notin {"none", "done"}

\* A task the queue claimed holds a permit until it ends; so does a claim under
\* way in the host's loop. A task that claimed by id holds none.
Tracked == {o \in Ops : Running(o) /\ workerId[o] # Inline}
\* It runs inside the executor that claimed it, so inside a task in flight.
UnderWay == inFlight \cup {o \in Ops : Running(o) /\ workerId[o] = Inline}
Permits == Cardinality(Tracked) + (IF hostPc \in {"claim", "fetch"} THEN 1 ELSE 0)

InitAt(t) ==
    /\ now = t /\ boot = 1
    /\ state = [o \in Ops |-> "absent"]
    /\ cancelRequested = [o \in Ops |-> FALSE]
    /\ deadlineAt = [o \in Ops |-> NoDeadline]
    /\ claimedAt = [o \in Ops |-> Never]
    /\ workerId = [o \in Ops |-> NoWorker]
    /\ hostPc = "loop" /\ tickNow = 0
    /\ expired = {} /\ overdue = {} /\ inHand = NoOp
    /\ inFlight = {} /\ drainTodo = {}
    /\ cancelPc = [c \in Cancellers |-> "idle"]
    /\ cancelOp = [c \in Cancellers |-> NoOp]
    /\ cancelSeen = [c \in Cancellers |-> "absent"]
    /\ task = [o \in Ops |-> "none"]
    /\ goal = [o \in Ops |-> "failed"]
    /\ seenCancel = [o \in Ops |-> FALSE]
    /\ beat = [o \in Ops |-> FALSE]
    /\ beatNow = [o \in Ops |-> Never]
    /\ starts = [o \in Ops |-> 0]
    /\ askedPending = [o \in Ops |-> FALSE]

Init == InitAt(0)

-----------------------------------------------------------------------------
(* Accepting work, and the clock. *)

\* `create`: the row is inserted pending; ids follow created_at.
Create(o, d) ==
    /\ ~Accepted(o)
    /\ \A p \in Ops : p < o => Accepted(p)
    /\ state' = [state EXCEPT ![o] = "pending"]
    /\ deadlineAt' = [deadlineAt EXCEPT ![o] = d]
    /\ UNCHANGED <<now, boot, cancelRequested, claimedAt, workerId, host,
                   cancels, tasks, beats, history>>

Tick ==
    /\ now < MaxTime
    /\ now' = now + 1
    /\ UNCHANGED <<boot, table, host, cancels, tasks, beats, history>>

-----------------------------------------------------------------------------
(* The host's loop: reap, then either shut down or run one tick. *)

\* Every tick starts by forgetting the tasks that ended.
HostReap ==
    /\ hostPc = "loop"
    /\ inFlight' = {o \in inFlight : task[o] # "done"}
    /\ hostPc' = "select" /\ tickNow' = 0
    /\ UNCHANGED <<now, boot, table, expired, overdue, inHand, drainTodo,
                   cancels, tasks, beats, history>>

\* Mutant: recovery looks for running claims only.
ExpiredRunningOnly(o, t) ==
    state[o] = "running" /\ claimedAt[o] # Never /\ claimedAt[o] < t - Lease

\* `maintain` reads the clock and selects the claims past their lease.
ClaimExpired(o, t) == state[o] \in Live /\ claimedAt[o] # Never /\ claimedAt[o] < t - Lease
HostTick ==
    /\ hostPc = "select"
    /\ tickNow' = now
    /\ expired' = {<<o, claimedAt[o]>> : o \in {p \in Ops : ClaimExpired(p, now)}}
    /\ hostPc' = "recover"
    /\ UNCHANGED <<now, boot, table, overdue, inHand, inFlight, drainTodo,
                   cancels, tasks, beats, history>>

\* Mutant: an expired claim goes back to the queue.
RequeueExpired(o, t) ==
    /\ hostPc = "recover" /\ <<o, t>> \in expired
    /\ expired' = expired \ {<<o, t>>}
    /\ state' = IF state[o] \in Live /\ claimedAt[o] = t
                THEN [state EXCEPT ![o] = "pending"] ELSE state
    /\ UNCHANGED <<now, boot, cancelRequested, deadlineAt, claimedAt, workerId,
                   hostPc, tickNow, overdue, inHand, inFlight, drainTodo,
                   cancels, tasks, beats, history>>

\* Mutant: recovery does not compare the claim timestamp.
RecoverUnconditionally(o, t) ==
    /\ hostPc = "recover" /\ <<o, t>> \in expired
    /\ expired' = expired \ {<<o, t>>}
    /\ state' = IF state[o] \in Live THEN [state EXCEPT ![o] = "failed"] ELSE state
    /\ UNCHANGED <<now, boot, cancelRequested, deadlineAt, claimedAt, workerId,
                   hostPc, tickNow, overdue, inHand, inFlight, drainTodo,
                   cancels, tasks, beats, history>>

\* `fail_expired_claim`: fails the row only if it is still live under the very
\* claim timestamp that was selected.
HostRecover(o, t) ==
    /\ hostPc = "recover" /\ <<o, t>> \in expired
    /\ expired' = expired \ {<<o, t>>}
    /\ state' = IF state[o] \in Live /\ claimedAt[o] = t
                THEN [state EXCEPT ![o] = "failed"] ELSE state
    /\ UNCHANGED <<now, boot, cancelRequested, deadlineAt, claimedAt, workerId,
                   hostPc, tickNow, overdue, inHand, inFlight, drainTodo,
                   cancels, tasks, beats, history>>

\* `sweep_deadlines` finds; each `complete(timed_out)` decides for itself.
HostFindOverdue ==
    /\ hostPc = "recover" /\ expired = {}
    /\ overdue' = {o \in Ops : /\ state[o] \in Live \cup {"pending"}
                               /\ Overdue(o, tickNow)}
    /\ hostPc' = "sweep"
    /\ UNCHANGED <<now, boot, table, tickNow, expired, inHand, inFlight,
                   drainTodo, cancels, tasks, beats, history>>

HostSweepRead(o) ==
    /\ hostPc = "sweep" /\ o \in overdue
    /\ overdue' = overdue \ {o}
    /\ IF Legal(o, "timed_out")
       THEN hostPc' = "sweep_write" /\ inHand' = o
       ELSE UNCHANGED <<hostPc, inHand>>
    /\ UNCHANGED <<now, boot, table, tickNow, expired, inFlight, drainTodo,
                   cancels, tasks, beats, history>>

HostSweepWrite ==
    /\ hostPc = "sweep_write"
    /\ state' = [state EXCEPT ![inHand] = "timed_out"]
    /\ hostPc' = "sweep" /\ inHand' = NoOp
    /\ UNCHANGED <<now, boot, cancelRequested, deadlineAt, claimedAt, workerId,
                   tickNow, expired, overdue, inFlight, drainTodo, cancels,
                   tasks, beats, history>>

\* Mutant: one permit too many.
AcquireOffByOne ==
    /\ hostPc = "sweep" /\ overdue = {}
    /\ hostPc' = IF Permits <= MaxActive THEN "claim" ELSE "loop"
    /\ UNCHANGED <<now, boot, table, tickNow, expired, overdue, inHand,
                   inFlight, drainTodo, cancels, tasks, beats, history>>

\* The tick claims only while it can take a permit.
HostAcquire ==
    /\ hostPc = "sweep" /\ overdue = {}
    /\ hostPc' = IF Permits < MaxActive THEN "claim" ELSE "loop"
    /\ UNCHANGED <<now, boot, table, tickNow, expired, overdue, inHand,
                   inFlight, drainTodo, cancels, tasks, beats, history>>

\* `claim_pending`: the oldest pending row whose deadline is after the tick's
\* own clock, moved to running under this worker in one transaction.
Claimable(o, t) == state[o] = "pending" /\ ~Overdue(o, t)
HostClaim(o) ==
    /\ hostPc = "claim" /\ Claimable(o, tickNow)
    /\ \A p \in Ops : Claimable(p, tickNow) => o <= p
    /\ state' = [state EXCEPT ![o] = "running"]
    /\ workerId' = [workerId EXCEPT ![o] = boot]
    /\ claimedAt' = [claimedAt EXCEPT ![o] = tickNow]
    /\ hostPc' = "fetch" /\ inHand' = o
    /\ UNCHANGED <<now, boot, cancelRequested, deadlineAt, tickNow, expired,
                   overdue, inFlight, drainTodo, cancels, tasks, beats, history>>

HostClaimNone ==
    /\ hostPc = "claim" /\ \A o \in Ops : ~Claimable(o, tickNow)
    /\ hostPc' = "loop"
    /\ UNCHANGED <<now, boot, table, tickNow, expired, overdue, inHand,
                   inFlight, drainTodo, cancels, tasks, beats, history>>

\* The claimed row is read back after the claim committed; that snapshot goes
\* to the spawned task, which starts its heartbeat.
HostSpawn ==
    /\ hostPc = "fetch"
    /\ task' = [task EXCEPT ![inHand] = "claimed"]
    /\ seenCancel' = [seenCancel EXCEPT ![inHand] = cancelRequested[inHand]]
    /\ beat' = [beat EXCEPT ![inHand] = TRUE]
    /\ inFlight' = inFlight \cup {inHand}
    /\ hostPc' = "loop" /\ inHand' = NoOp
    /\ UNCHANGED <<now, boot, table, tickNow, expired, overdue, drainTodo,
                   cancels, goal, beatNow, history>>

-----------------------------------------------------------------------------
(* Shutdown: no further claim, a cancellation asked for every task in flight, *)
(* a bounded grace, then the tasks that remain are aborted.                 *)

\* Mutant: the drain forgets the tasks that have not started executing.
DrainExecutingOnly ==
    /\ hostPc = "select" /\ boot < MaxBoots
    /\ hostPc' = "drain" /\ drainTodo' = {o \in inFlight : task[o] = "executing"}
    /\ UNCHANGED <<now, boot, table, tickNow, expired, overdue, inHand,
                   inFlight, cancels, tasks, beats, history>>

HostShutdown ==
    /\ hostPc = "select" /\ boot < MaxBoots
    /\ hostPc' = "drain" /\ drainTodo' = inFlight
    /\ UNCHANGED <<now, boot, table, tickNow, expired, overdue, inHand,
                   inFlight, cancels, tasks, beats, history>>

\* The next task's operation goes through `cancel`, whose first read refuses a
\* terminal one; the host ignores the refusal.
HostDrainNext(o) ==
    /\ hostPc = "drain" /\ o \in drainTodo /\ cancelPc["host"] = "idle"
    /\ drainTodo' = drainTodo \ {o}
    /\ IF state[o] \in Terminal
       THEN UNCHANGED cancels
       ELSE /\ cancelPc' = [cancelPc EXCEPT !["host"] = "get"]
            /\ cancelOp' = [cancelOp EXCEPT !["host"] = o]
            /\ UNCHANGED cancelSeen
    /\ UNCHANGED <<now, boot, table, hostPc, tickNow, expired, overdue, inHand,
                   inFlight, tasks, beats, history>>

HostDrained ==
    /\ hostPc = "drain" /\ drainTodo = {} /\ cancelPc["host"] = "idle"
    /\ hostPc' = "grace"
    /\ UNCHANGED <<now, boot, table, tickNow, expired, overdue, inHand,
                   inFlight, drainTodo, cancels, tasks, beats, history>>

HostStop ==
    /\ hostPc = "grace" /\ \A o \in UnderWay : task[o] = "done"
    /\ hostPc' = "stopped"
    /\ UNCHANGED <<now, boot, table, tickNow, expired, overdue, inHand,
                   inFlight, drainTodo, cancels, tasks, beats, history>>

\* The grace expired: the remaining tasks are aborted where they stand, with
\* the inner operations they were executing. Their heartbeats are tasks of
\* their own, which nothing aborts.
HostAbort ==
    /\ hostPc = "grace" /\ \E o \in UnderWay : task[o] # "done"
    /\ task' = [o \in Ops |-> IF o \in UnderWay THEN "done" ELSE task[o]]
    /\ goal' = [o \in Ops |-> IF o \in UnderWay THEN "failed" ELSE goal[o]]
    /\ seenCancel' = [o \in Ops |-> o \notin UnderWay /\ seenCancel[o]]
    /\ hostPc' = "stopped"
    /\ UNCHANGED <<now, boot, table, tickNow, expired, overdue, inHand,
                   inFlight, drainTodo, cancels, beats, history>>

\* The process ends, by a crash at any point or after the host stopped, and the
\* next one starts over the same file: only the table survives.
Restart ==
    /\ boot < MaxBoots
    /\ boot' = boot + 1
    /\ hostPc' = "loop" /\ tickNow' = 0
    /\ expired' = {} /\ overdue' = {} /\ inHand' = NoOp
    /\ inFlight' = {} /\ drainTodo' = {}
    /\ cancelPc' = [c \in Cancellers |-> "idle"]
    /\ cancelOp' = [c \in Cancellers |-> NoOp]
    /\ cancelSeen' = [c \in Cancellers |-> "absent"]
    /\ task' = [o \in Ops |-> IF task[o] = "none" THEN "none" ELSE "done"]
    /\ goal' = [o \in Ops |-> "failed"]
    /\ seenCancel' = [o \in Ops |-> FALSE]
    /\ beat' = [o \in Ops |-> FALSE]
    /\ beatNow' = [o \in Ops |-> Never]
    /\ UNCHANGED <<now, table, history>>

-----------------------------------------------------------------------------
(* `cancel`: read and refuse a terminal row; then the store's             *)
(* `request_cancel`: read, set the flag, and, when what was read first may *)
(* move to cancelling, `transition`: read again, validate, write.          *)

CancelStep(c, pc) == cancelPc' = [cancelPc EXCEPT ![c] = pc]

\* The call returns and its locals go.
CancelReturn(c) ==
    /\ CancelStep(c, "idle")
    /\ cancelOp' = [cancelOp EXCEPT ![c] = NoOp]
    /\ cancelSeen' = [cancelSeen EXCEPT ![c] = "absent"]

CancelBegin(c, o) ==
    /\ c \in Callers /\ cancelPc[c] = "idle"
    /\ Accepted(o) /\ state[o] \notin Terminal
    /\ CancelStep(c, "get")
    /\ cancelOp' = [cancelOp EXCEPT ![c] = o]
    /\ UNCHANGED <<now, boot, table, host, cancelSeen, tasks, beats, history>>

CancelGet(c) ==
    /\ cancelPc[c] = "get"
    /\ CancelStep(c, "flag")
    /\ cancelSeen' = [cancelSeen EXCEPT ![c] = state[cancelOp[c]]]
    /\ UNCHANGED <<now, boot, table, host, cancelOp, tasks, beats, history>>

\* Mutant: the flag is left to `transition` when the row can move at once.
FlagOnlyWhenStuck(c) ==
    /\ cancelPc[c] = "flag"
    /\ IF CanTransition(cancelSeen[c], "cancelling")
       THEN /\ CancelStep(c, "reread")
            /\ UNCHANGED <<cancelRequested, askedPending, cancelOp, cancelSeen>>
       ELSE /\ CancelReturn(c)
            /\ cancelRequested' = [cancelRequested EXCEPT ![cancelOp[c]] = TRUE]
            /\ askedPending' = [askedPending EXCEPT ![cancelOp[c]] =
                                    @ \/ state[cancelOp[c]] = "pending"]
    /\ UNCHANGED <<now, boot, state, deadlineAt, claimedAt, workerId, host,
                   tasks, beats, starts>>

CancelFlag(c) ==
    /\ cancelPc[c] = "flag"
    /\ cancelRequested' = [cancelRequested EXCEPT ![cancelOp[c]] = TRUE]
    /\ askedPending' = [askedPending EXCEPT ![cancelOp[c]] =
                            @ \/ state[cancelOp[c]] = "pending"]
    /\ IF CanTransition(cancelSeen[c], "cancelling")
       THEN CancelStep(c, "reread") /\ UNCHANGED <<cancelOp, cancelSeen>>
       ELSE CancelReturn(c)
    /\ UNCHANGED <<now, boot, state, deadlineAt, claimedAt, workerId, host,
                   tasks, beats, starts>>

CancelReread(c) ==
    /\ cancelPc[c] = "reread"
    /\ IF Legal(cancelOp[c], "cancelling")
       THEN CancelStep(c, "write") /\ UNCHANGED <<cancelOp, cancelSeen>>
       ELSE CancelReturn(c)
    /\ UNCHANGED <<now, boot, table, host, tasks, beats, history>>

CancelWrite(c) ==
    /\ cancelPc[c] = "write"
    /\ state' = [state EXCEPT ![cancelOp[c]] = "cancelling"]
    /\ CancelReturn(c)
    /\ UNCHANGED <<now, boot, cancelRequested, deadlineAt, claimedAt, workerId,
                   host, tasks, beats, history>>

-----------------------------------------------------------------------------
(* The task of one claimed operation: `execute_claimed`, whose `complete`   *)
(* reads and validates in one step and writes in the next.                  *)

\* The task ends, its locals go, and it aborts its own heartbeat.
EndTask(o) ==
    /\ task' = [task EXCEPT ![o] = "done"]
    /\ goal' = [goal EXCEPT ![o] = "failed"]
    /\ seenCancel' = [seenCancel EXCEPT ![o] = FALSE]
    /\ beat' = [beat EXCEPT ![o] = FALSE]
    /\ beatNow' = [beatNow EXCEPT ![o] = Never]

\* Mutant: the snapshot's flag is not looked at.
StartUnchecked(o) ==
    /\ task[o] = "claimed"
    /\ task' = [task EXCEPT ![o] = "executing"]
    /\ starts' = [starts EXCEPT ![o] = @ + 1]
    /\ UNCHANGED <<now, boot, table, host, cancels, goal, seenCancel, beats,
                   askedPending>>

\* A snapshot without the flag goes to the executor.
TaskStart(o) ==
    /\ task[o] = "claimed" /\ ~seenCancel[o]
    /\ task' = [task EXCEPT ![o] = "executing"]
    /\ starts' = [starts EXCEPT ![o] = @ + 1]
    /\ UNCHANGED <<now, boot, table, host, cancels, goal, seenCancel, beats,
                   askedPending>>

\* A flagged one is moved to cancelling first; if that is refused the task
\* ends and completes nothing.
TaskStop(o) ==
    /\ task[o] = "claimed" /\ seenCancel[o]
    /\ IF Legal(o, "cancelling")
       THEN /\ task' = [task EXCEPT ![o] = "stop_write"]
            /\ UNCHANGED <<goal, seenCancel, beats>>
       ELSE EndTask(o)
    /\ UNCHANGED <<now, boot, table, host, cancels, history>>

TaskStopWrite(o) ==
    /\ task[o] = "stop_write"
    /\ state' = [state EXCEPT ![o] = "cancelling"]
    /\ task' = [task EXCEPT ![o] = "cancel"]
    /\ UNCHANGED <<now, boot, cancelRequested, deadlineAt, claimedAt, workerId,
                   host, cancels, goal, seenCancel, beats, history>>

\* The read half of the wrapper's own `complete`: cancelled, or failed.
TaskResolve(o) ==
    /\ task[o] \in {"cancel", "fail"}
    /\ LET to == IF task[o] = "cancel" THEN "cancelled" ELSE "failed"
       IN  IF Legal(o, to)
           THEN /\ task' = [task EXCEPT ![o] = "write"]
                /\ goal' = [goal EXCEPT ![o] = to]
                /\ UNCHANGED <<seenCancel, beats>>
           ELSE EndTask(o)
    /\ UNCHANGED <<now, boot, table, host, cancels, history>>

\* The executor resolves its operation; it says "cancelled" only once it has
\* seen the flag. A refused completion is an error like any other.
ExecutorComplete(o, to) ==
    /\ task[o] = "executing"
    /\ to = "cancelled" => cancelRequested[o]
    /\ IF Legal(o, to)
       THEN task' = [task EXCEPT ![o] = "write"] /\ goal' = [goal EXCEPT ![o] = to]
       ELSE task' = [task EXCEPT ![o] = "fail"] /\ UNCHANGED goal
    /\ UNCHANGED <<now, boot, table, host, cancels, seenCancel, beats, history>>

ExecutorError(o) ==
    /\ task[o] = "executing"
    /\ task' = [task EXCEPT ![o] = "fail"]
    /\ UNCHANGED <<now, boot, table, host, cancels, goal, seenCancel, beats, history>>

\* A panic unwinds the task; the heartbeat's handle is dropped, which detaches it.
ExecutorPanic(o) ==
    /\ CanPanic /\ task[o] = "executing"
    /\ task' = [task EXCEPT ![o] = "done"]
    /\ goal' = [goal EXCEPT ![o] = "failed"]
    /\ seenCancel' = [seenCancel EXCEPT ![o] = FALSE]
    /\ UNCHANGED <<now, boot, table, host, cancels, beats, history>>

\* The write half of `complete`: it does not look at the row again.
TaskWrite(o) ==
    /\ task[o] = "write"
    /\ state' = [state EXCEPT ![o] = goal[o]]
    /\ EndTask(o)
    /\ UNCHANGED <<now, boot, cancelRequested, deadlineAt, claimedAt, workerId,
                   host, cancels, history>>

\* `claim_only_execute`: an executor claims an inner operation by its id and
\* executes it at once, whatever its cancel flag says.
InlineClaim(o) ==
    /\ o \in InlineOps /\ Claimable(o, now) /\ hostPc # "stopped"
    /\ state' = [state EXCEPT ![o] = "running"]
    /\ workerId' = [workerId EXCEPT ![o] = Inline]
    /\ claimedAt' = [claimedAt EXCEPT ![o] = now]
    /\ task' = [task EXCEPT ![o] = "executing"]
    /\ beat' = [beat EXCEPT ![o] = TRUE]
    /\ starts' = [starts EXCEPT ![o] = @ + 1]
    /\ UNCHANGED <<now, boot, cancelRequested, deadlineAt, host, cancels, goal,
                   seenCancel, beatNow, askedPending>>

-----------------------------------------------------------------------------
(* The heartbeat of a claim: read the clock, then renew under a             *)
(* compare-and-set on the worker, the live states and the lease's age.      *)

BeatClock(o) ==
    /\ beat[o] /\ beatNow[o] = Never
    /\ beatNow' = [beatNow EXCEPT ![o] = now]
    /\ UNCHANGED <<now, boot, table, host, cancels, tasks, beat, history>>

Renewable(o, t) ==
    /\ workerId[o] \in {boot, Inline} /\ state[o] \in Live
    /\ claimedAt[o] # Never /\ claimedAt[o] >= t - Lease

\* Mutant: claimed_at is taken for the moment the lease ends.
RenewAsExpiry(o) ==
    /\ beat[o] /\ beatNow[o] # Never
    /\ IF Renewable(o, beatNow[o])
       THEN claimedAt' = [claimedAt EXCEPT ![o] = beatNow[o] + Lease] /\ UNCHANGED beat
       ELSE beat' = [beat EXCEPT ![o] = FALSE] /\ UNCHANGED claimedAt
    /\ beatNow' = [beatNow EXCEPT ![o] = Never]
    /\ UNCHANGED <<now, boot, state, cancelRequested, deadlineAt, workerId,
                   host, cancels, tasks, history>>

BeatRenew(o) ==
    /\ beat[o] /\ beatNow[o] # Never
    /\ IF Renewable(o, beatNow[o])
       THEN claimedAt' = [claimedAt EXCEPT ![o] = beatNow[o]] /\ UNCHANGED beat
       ELSE beat' = [beat EXCEPT ![o] = FALSE] /\ UNCHANGED claimedAt
    /\ beatNow' = [beatNow EXCEPT ![o] = Never]
    /\ UNCHANGED <<now, boot, state, cancelRequested, deadlineAt, workerId,
                   host, cancels, tasks, history>>

-----------------------------------------------------------------------------
HostStep ==
    \/ HostReap \/ HostTick \/ HostFindOverdue \/ HostSweepWrite
    \/ HostAcquire \/ HostClaimNone \/ HostSpawn
    \/ \E o \in Ops : HostSweepRead(o) \/ HostClaim(o) \/ HostDrainNext(o)
    \/ \E e \in expired : HostRecover(e[1], e[2])
    \/ HostDrained \/ HostStop

CancelCall(c) == CancelGet(c) \/ CancelFlag(c) \/ CancelReread(c) \/ CancelWrite(c)

TaskStep(o) ==
    \/ TaskStart(o) \/ TaskStop(o) \/ TaskStopWrite(o) \/ TaskResolve(o)
    \/ TaskWrite(o) \/ ExecutorError(o)
    \/ \E to \in Goals : ExecutorComplete(o, to)

Beat(o) == BeatClock(o) \/ BeatRenew(o)

\* What the program does on its own accord.
Program ==
    \/ HostStep \/ HostAbort
    \/ \E c \in Cancellers : CancelCall(c)
    \/ \E o \in Ops : TaskStep(o) \/ Beat(o)

\* What its callers and the process's own end do to it.
Surroundings ==
    \/ \E o \in Ops, d \in Deadlines \cup {NoDeadline} : Create(o, d)
    \/ \E c \in Callers, o \in Ops : CancelBegin(c, o)
    \/ HostShutdown \/ Restart

\* ... and executors, their own and those of other operations.
Environment ==
    Surroundings \/ \E o \in Ops : InlineClaim(o) \/ ExecutorPanic(o)

Next == Program \/ Environment \/ Tick

Spec == Init /\ [][Next]_vars
=============================================================================
