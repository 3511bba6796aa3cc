--------------------------- MODULE OperationsLive ---------------------------
(***************************************************************************)
(* Operations under fairness, on a clock that never runs out.              *)
(*                                                                         *)
(* The code only ever compares a timestamp with another one, so the clock  *)
(* stands still at MaxTime and a tick ages every timestamp instead; 0 is   *)
(* "long ago" and does not age further. MaxStall bounds how old a clock    *)
(* value in somebody's hand may get before it is used: the host's tick and *)
(* a heartbeat's statement run within SQLite's busy timeout, which is well *)
(* inside the lease. With MaxTime > Lease + MaxStall and MaxTime >         *)
(* 2 * MaxStall "long ago" is told apart from every timestamp in use.      *)
(***************************************************************************)
EXTENDS Operations

CONSTANT MaxStall   \* bound: ticks between reading the clock and the write

ASSUME LiveAssumption ==
    /\ MaxStall \in Nat \ {0}
    /\ MaxTime > Lease + MaxStall /\ MaxTime > 2 * MaxStall

Older(t) == IF t > 0 THEN t - 1 ELSE t
Fresh(t) == t > MaxTime - MaxStall

Age ==
    /\ hostPc \in {"recover", "sweep", "sweep_write", "claim"} => Fresh(tickNow)
    /\ \A o \in Ops : beatNow[o] # Never => Fresh(beatNow[o])
    /\ deadlineAt' = [o \in Ops |-> Older(deadlineAt[o])]
    /\ claimedAt' = [o \in Ops |-> Older(claimedAt[o])]
    /\ beatNow' = [o \in Ops |-> Older(beatNow[o])]
    /\ tickNow' = Older(tickNow)
    /\ expired' = {<<e[1], Older(e[2])>> : e \in expired}
    /\ UNCHANGED <<now, boot, state, cancelRequested, workerId, hostPc, overdue,
                   inHand, inFlight, drainTodo, cancels, tasks, beat, history>>

\* A stopped host is started again; nothing obliges a crash.
StartAgain == hostPc = "stopped" /\ Restart

Fairness ==
    /\ WF_vars(Age) /\ WF_vars(HostStep) /\ WF_vars(StartAgain)
    /\ \A c \in Cancellers : WF_vars(CancelCall(c))
    /\ \A o \in Ops : WF_vars(TaskStep(o)) /\ WF_vars(Beat(o))

LiveSpec ==
    InitAt(MaxTime) /\ [][Program \/ Surroundings \/ Age]_vars /\ Fairness

\* Without panics, every accepted operation reaches a terminal state: through
\* its executor, a deadline, or lease expiry after its process died.
EveryOperationSettles == \A o \in Ops : Accepted(o) ~> state[o] \in Terminal
=============================================================================
