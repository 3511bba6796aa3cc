-------------------------- MODULE OperationsProofs --------------------------
(***************************************************************************)
(* Machine-checked proofs about the operation queue, for every number of   *)
(* operations, callers, boots, leases and clock values.                    *)
(*                                                                         *)
(* The inductive invariant IInv adds to the types what each actor carries  *)
(* between its read and its write: a row in the host's hand is claimed, a  *)
(* canceller past the flag has set it, a task exists only for a claimed    *)
(* row, a selected claim was past its lease by the tick's clock, and the   *)
(* drain still has in its list or in its hand whatever nobody has asked.   *)
(***************************************************************************)
EXTENDS OperationsProps, FiniteSetTheorems, TLAPS

Claimed(o) == claimedAt[o] # Never

\* A row that was never claimed has no task; one whose task has not reached
\* the executor was never executed; a live row is claimed; a task that stops
\* its operation does so on a flag that is set.
RowInv ==
    \A o \in Ops :
        /\ state[o] \in {"absent", "pending"} => task[o] = "none" /\ ~Claimed(o)
        /\ task[o] \in {"none", "claimed"} => starts[o] = 0
        /\ starts[o] <= 1
        /\ state[o] \in Live => Claimed(o)
        /\ task[o] # "none" => Claimed(o)
        /\ task[o] = "stop_write" \/ seenCancel[o] => cancelRequested[o]

\* The operation the host holds between two statements, and those it tracks.
HandInv ==
    /\ hostPc = "fetch" =>
          inHand \in Ops /\ task[inHand] = "none" /\ Claimed(inHand)
          /\ state[inHand] \notin {"absent", "pending"}
          /\ workerId[inHand] # Inline
    /\ hostPc = "sweep_write" => inHand \in Ops /\ Accepted(inHand)
    /\ \A o \in inFlight \cup drainTodo : task[o] # "none"

\* What a canceller has established by the time it reaches each step.
CancelInv ==
    \A c \in Cancellers :
        /\ cancelPc[c] # "idle" => cancelOp[c] \in Ops /\ Accepted(cancelOp[c])
        /\ cancelPc[c] \in {"reread", "write"} => cancelRequested[cancelOp[c]]
        /\ cancelPc[c] = "write" => Claimed(cancelOp[c])

\* The claims recovery selected were past the lease by the clock of this tick.
ExpiredInv ==
    /\ hostPc # "recover" => expired = {}
    /\ \A e \in expired : e[2] < tickNow - Lease

\* A cancellation taken while the row was pending is set for good, and every
\* snapshot the queue reads of it afterwards carries it.
FlagInv ==
    \A o \in Ops : askedPending[o] =>
        /\ cancelRequested[o]
        /\ o \notin InlineOps => starts[o] = 0 /\ (task[o] = "claimed" => seenCancel[o])

\* The drain: a task in flight was asked, is over, is next in the list, or is
\* the one whose cancellation the host is making.
Asked(o) == cancelRequested[o] \/ state[o] \in Terminal
Asking(o) == cancelPc["host"] \in {"get", "flag"} /\ cancelOp["host"] = o
DrainInv ==
    /\ hostPc = "drain" => \A o \in inFlight \ drainTodo : Asked(o) \/ Asking(o)
    /\ hostPc \in {"grace", "stopped"} => \A o \in inFlight : Asked(o)

IInv == /\ TypeOK /\ RowInv /\ HandInv /\ CancelInv /\ ExpiredInv
        /\ FlagInv /\ DrainInv /\ ActiveBound

-----------------------------------------------------------------------------

\* Only a running operation may legally move to cancelling: the one fact about
\* `can_transition` a canceller's re-read relies on.
LEMMA LegalMoves ==
    ASSUME NEW o \in Ops, state[o] \in RowState
    PROVE  Legal(o, "cancelling") => state[o] = "running"
BY DEF Legal, Accepted, CanTransition, Successors, RowState, OperationState

\* A controller that starts over an empty table satisfies the invariant.
LEMMA InitIInv == Init => IInv
<1> SUFFICES ASSUME Init PROVE IInv OBVIOUS
<1>1. TypeOK /\ RowInv /\ HandInv /\ CancelInv /\ ExpiredInv /\ FlagInv /\ DrainInv
  BY OperationsAssumption
     DEF Init, InitAt, TypeOK, RowInv, HandInv, CancelInv, ExpiredInv, FlagInv,
         DrainInv, Claimed, Accepted, RowState, OperationState, HostPcs, CancelPcs,
         TaskPcs, Goals, Ops, NoOp, Never, NoDeadline, NoWorker, Inline, Live
<1>2. Tracked = {} /\ hostPc = "loop"
  BY DEF Init, InitAt, Tracked, Running
<1>3. ActiveBound
  BY <1>2, FS_EmptySet, OperationsAssumption DEF ActiveBound, Permits
<1> QED
  BY <1>1, <1>3 DEF IInv

USE DEF table, host, cancels, tasks, beats, history

\* Every step keeps every variable in its range.
LEMMA TypeStep == IInv /\ [Next]_vars => TypeOK'
<1> SUFFICES ASSUME IInv, [Next]_vars PROVE TypeOK' OBVIOUS
<1> USE OperationsAssumption DEF IInv, TypeOK
<1>1. ASSUME NEW o \in Ops, NEW d \in Deadlines \cup {NoDeadline}, Create(o, d)
      PROVE  TypeOK'
  BY <1>1 DEF Create, RowState, OperationState
<1>2. CASE Tick
  BY <1>2 DEF Tick
<1>3. CASE HostReap
  BY <1>3 DEF HostReap, HostPcs
<1>4. CASE HostTick
  BY <1>4 DEF HostTick, HostPcs, ClaimExpired
<1>5. ASSUME NEW e \in expired, HostRecover(e[1], e[2])
      PROVE  TypeOK'
  BY <1>5 DEF HostRecover, RowState, OperationState
<1>6. CASE HostFindOverdue
  BY <1>6 DEF HostFindOverdue, HostPcs
<1>7. ASSUME NEW o \in Ops, HostSweepRead(o)
      PROVE  TypeOK'
  BY <1>7 DEF HostSweepRead, HostPcs
<1>8. CASE HostSweepWrite
  BY <1>8 DEF HostSweepWrite, HostPcs, RowState, OperationState
<1>9. CASE HostAcquire
  BY <1>9 DEF HostAcquire, HostPcs
<1>10. ASSUME NEW o \in Ops, HostClaim(o)
      PROVE  TypeOK'
  BY <1>10 DEF HostClaim, HostPcs, RowState, OperationState
<1>11. CASE HostClaimNone
  BY <1>11 DEF HostClaimNone, HostPcs
<1>12. CASE HostSpawn
  BY <1>12 DEF HostSpawn, HandInv, HostPcs, TaskPcs
<1>13. CASE HostShutdown
  BY <1>13 DEF HostShutdown, HostPcs
<1>14. ASSUME NEW o \in Ops, HostDrainNext(o)
      PROVE  TypeOK'
  BY <1>14 DEF HostDrainNext, HostPcs, CancelPcs, Cancellers
<1>15. CASE HostDrained
  BY <1>15 DEF HostDrained, HostPcs
<1>16. CASE HostStop
  BY <1>16 DEF HostStop, HostPcs
<1>17. CASE HostAbort
  BY <1>17 DEF HostAbort, HostPcs, TaskPcs, Goals
<1>18. CASE Restart
  BY <1>18 DEF Restart, HostPcs, CancelPcs, TaskPcs, Goals, RowState
<1>19. ASSUME NEW c \in Callers, NEW o \in Ops, CancelBegin(c, o)
      PROVE  TypeOK'
  BY <1>19 DEF CancelBegin, CancelStep, CancelPcs, Cancellers
<1>20. ASSUME NEW c \in Cancellers, CancelGet(c)
      PROVE  TypeOK'
  BY <1>20 DEF CancelGet, CancelInv, CancelStep, CancelPcs
<1>21. ASSUME NEW c \in Cancellers, CancelFlag(c)
      PROVE  TypeOK'
  BY <1>21 DEF CancelFlag, CancelReturn, CancelStep, CancelPcs, RowState
<1>22. ASSUME NEW c \in Cancellers, CancelReread(c)
      PROVE  TypeOK'
  BY <1>22 DEF CancelReread, CancelReturn, CancelStep, CancelPcs, RowState
<1>23. ASSUME NEW c \in Cancellers, CancelWrite(c)
      PROVE  TypeOK'
  BY <1>23 DEF CancelWrite, CancelReturn, CancelStep, CancelPcs, RowState, OperationState
<1>24. ASSUME NEW o \in Ops, TaskStart(o)
      PROVE  TypeOK'
  BY <1>24 DEF TaskStart, TaskPcs
<1>25. ASSUME NEW o \in Ops, TaskStop(o)
      PROVE  TypeOK'
  BY <1>25, ZenonT(30) DEF TaskStop, EndTask, TaskPcs, Goals
<1>26. ASSUME NEW o \in Ops, TaskStopWrite(o)
      PROVE  TypeOK'
  BY <1>26 DEF TaskStopWrite, TaskPcs, RowState, OperationState
<1>27. ASSUME NEW o \in Ops, TaskResolve(o)
      PROVE  TypeOK'
  BY <1>27, ZenonT(30) DEF TaskResolve, EndTask, TaskPcs, Goals
<1>28. ASSUME NEW o \in Ops, NEW to \in Goals, ExecutorComplete(o, to)
      PROVE  TypeOK'
  BY <1>28 DEF ExecutorComplete, TaskPcs, Goals
<1>29. ASSUME NEW o \in Ops, ExecutorError(o)
      PROVE  TypeOK'
  BY <1>29 DEF ExecutorError, TaskPcs
<1>30. ASSUME NEW o \in Ops, ExecutorPanic(o)
      PROVE  TypeOK'
  BY <1>30 DEF ExecutorPanic, TaskPcs, Goals
<1>31. ASSUME NEW o \in Ops, TaskWrite(o)
      PROVE  TypeOK'
  BY <1>31 DEF TaskWrite, EndTask, TaskPcs, Goals, RowState, OperationState
<1>32. ASSUME NEW o \in Ops, InlineClaim(o)
      PROVE  TypeOK'
  BY <1>32 DEF InlineClaim, TaskPcs, RowState, OperationState
<1>33. ASSUME NEW o \in Ops, BeatClock(o)
      PROVE  TypeOK'
  BY <1>33 DEF BeatClock
<1>34. ASSUME NEW o \in Ops, BeatRenew(o)
      PROVE  TypeOK'
  BY <1>34 DEF BeatRenew
<1>35. CASE UNCHANGED vars
  BY <1>35 DEF vars
<1> QED
  BY <1>1, <1>2, <1>3, <1>4, <1>5, <1>6, <1>7, <1>8, <1>9, <1>10, <1>11,
     <1>12, <1>13, <1>14, <1>15, <1>16, <1>17, <1>18, <1>19, <1>20,
     <1>21, <1>22, <1>23, <1>24, <1>25, <1>26, <1>27, <1>28, <1>29,
     <1>30, <1>31, <1>32, <1>33, <1>34, <1>35
  DEF Next, Program, Environment, Surroundings, HostStep, CancelCall, TaskStep, Beat

\* Rows, tasks and execution counts stay in step.
LEMMA RowStep == IInv /\ [Next]_vars => RowInv'
<1> SUFFICES ASSUME IInv, [Next]_vars PROVE RowInv' OBVIOUS
<1> USE OperationsAssumption DEF IInv, TypeOK
<1>0. TypeOK'
  BY TypeStep
<1>1. CASE UNCHANGED <<state, task, claimedAt, starts, seenCancel, cancelRequested>>
  BY <1>1 DEF RowInv, Claimed
<1>2. ASSUME NEW o \in Ops, NEW d \in Deadlines \cup {NoDeadline}, Create(o, d)
      PROVE  RowInv'
  BY <1>0, <1>2 DEF Create, Accepted, Live, RowInv, Claimed
<1>3. ASSUME NEW e \in expired, HostRecover(e[1], e[2])
      PROVE  RowInv'
  BY <1>0, <1>3 DEF HostRecover, Live, RowInv, Claimed
<1>4. CASE HostSweepWrite
  BY <1>0, <1>4 DEF HostSweepWrite, HandInv, Live, Accepted, RowInv, Claimed
<1>5. ASSUME NEW o \in Ops, HostClaim(o)
      PROVE  RowInv'
  BY <1>0, <1>5 DEF HostClaim, Claimable, Live, Never, RowInv, Claimed
<1>6. CASE HostSpawn
  BY <1>0, <1>6 DEF HostSpawn, HandInv, Live, RowInv, Claimed
<1>7. CASE HostAbort
  BY <1>0, <1>7 DEF HostAbort, HandInv, UnderWay, Running, RowInv, Claimed
<1>8. CASE Restart
  BY <1>0, <1>8 DEF Restart, RowInv, Claimed
<1>9. ASSUME NEW c \in Cancellers, CancelFlag(c)
      PROVE  RowInv'
  BY <1>0, <1>9 DEF CancelFlag, RowInv, Claimed
<1>10. ASSUME NEW c \in Cancellers, CancelWrite(c)
      PROVE  RowInv'
  BY <1>0, <1>10 DEF CancelWrite, CancelInv, Live, Accepted, RowInv, Claimed
<1>11. ASSUME NEW o \in Ops, TaskStart(o)
      PROVE  RowInv'
  BY <1>0, <1>11 DEF TaskStart, RowInv, Claimed
<1>12. ASSUME NEW o \in Ops, TaskStop(o)
      PROVE  RowInv'
  BY <1>0, <1>12 DEF TaskStop, EndTask, RowInv, Claimed
<1>13. ASSUME NEW o \in Ops, TaskStopWrite(o)
      PROVE  RowInv'
  BY <1>0, <1>13 DEF TaskStopWrite, Live, RowInv, Claimed
<1>14. ASSUME NEW o \in Ops, TaskResolve(o)
      PROVE  RowInv'
  BY <1>0, <1>14 DEF TaskResolve, EndTask, RowInv, Claimed
<1>15. ASSUME NEW o \in Ops, NEW to \in Goals, ExecutorComplete(o, to)
      PROVE  RowInv'
  BY <1>0, <1>15 DEF ExecutorComplete, RowInv, Claimed
<1>16. ASSUME NEW o \in Ops, ExecutorError(o)
      PROVE  RowInv'
  BY <1>0, <1>16 DEF ExecutorError, RowInv, Claimed
<1>17. ASSUME NEW o \in Ops, ExecutorPanic(o)
      PROVE  RowInv'
  BY <1>0, <1>17 DEF ExecutorPanic, RowInv, Claimed
<1>18. ASSUME NEW o \in Ops, TaskWrite(o)
      PROVE  RowInv'
  BY <1>0, <1>18 DEF TaskWrite, EndTask, Live, Goals, RowInv, Claimed
<1>19. ASSUME NEW o \in Ops, InlineClaim(o)
      PROVE  RowInv'
  BY <1>0, <1>19 DEF InlineClaim, Claimable, Live, Never, RowInv, Claimed
<1>20. ASSUME NEW o \in Ops, BeatRenew(o)
      PROVE  RowInv'
  BY <1>0, <1>20 DEF BeatRenew, Never, Renewable, RowInv, Claimed
<1> QED
  BY <1>1, <1>2, <1>3, <1>4, <1>5, <1>6, <1>7, <1>8, <1>9, <1>10, <1>11,
       <1>12, <1>13, <1>14, <1>15, <1>16, <1>17, <1>18, <1>19, <1>20
  DEF Next, Program, Environment, Surroundings, HostStep, CancelCall, TaskStep, Beat,
       vars, Tick, HostReap, HostTick, HostFindOverdue, HostSweepRead,
       HostAcquire, HostClaimNone, HostShutdown, HostDrainNext, HostDrained,
       HostStop, CancelBegin, CancelGet, CancelReread, BeatClock

\* What the host holds between two statements stays as it found it.
LEMMA HandStep == IInv /\ [Next]_vars => HandInv'
<1> SUFFICES ASSUME IInv, [Next]_vars PROVE HandInv' OBVIOUS
<1> USE OperationsAssumption DEF IInv, TypeOK
<1>0. TypeOK'
  BY TypeStep
<1>1. CASE UNCHANGED <<hostPc, inHand, inFlight, drainTodo, state, task, claimedAt,
                       workerId>>
  BY <1>1 DEF HandInv, Claimed, Accepted
<1>2. ASSUME NEW o \in Ops, NEW d \in Deadlines \cup {NoDeadline}, Create(o, d)
      PROVE  HandInv'
  BY <1>0, <1>2 DEF Create, HandInv, Claimed, Accepted
<1>3. CASE HostReap
  BY <1>0, <1>3 DEF HostReap, HandInv, Claimed, Accepted
<1>4. CASE HostTick
  BY <1>0, <1>4 DEF HostTick, HandInv, Claimed, Accepted
<1>5. ASSUME NEW e \in expired, HostRecover(e[1], e[2])
      PROVE  HandInv'
  BY <1>0, <1>5 DEF HostRecover, HandInv, Claimed, Accepted
<1>6. CASE HostFindOverdue
  BY <1>0, <1>6 DEF HostFindOverdue, HandInv, Claimed, Accepted
<1>7. ASSUME NEW o \in Ops, HostSweepRead(o)
      PROVE  HandInv'
  BY <1>0, <1>7 DEF HostSweepRead, Legal, HandInv, Claimed, Accepted
<1>8. CASE HostSweepWrite
  BY <1>0, <1>8 DEF HostSweepWrite, HandInv, Claimed, Accepted
<1>9. CASE HostAcquire
  BY <1>0, <1>9 DEF HostAcquire, HandInv, Claimed, Accepted
<1>10. ASSUME NEW o \in Ops, HostClaim(o)
      PROVE  HandInv'
  BY <1>0, <1>10 DEF HostClaim, RowInv, Claimable, Never, HandInv, Claimed,
       Accepted, Inline
<1>11. CASE HostClaimNone
  BY <1>0, <1>11 DEF HostClaimNone, HandInv, Claimed, Accepted
<1>12. CASE HostSpawn
  BY <1>0, <1>12 DEF HostSpawn, HandInv, Claimed, Accepted
<1>13. CASE HostShutdown
  BY <1>0, <1>13 DEF HostShutdown, HandInv, Claimed, Accepted
<1>14. ASSUME NEW o \in Ops, HostDrainNext(o)
      PROVE  HandInv'
  BY <1>0, <1>14 DEF HostDrainNext, HandInv, Claimed, Accepted
<1>15. CASE HostDrained
  BY <1>0, <1>15 DEF HostDrained, HandInv, Claimed, Accepted
<1>16. CASE HostStop
  BY <1>0, <1>16 DEF HostStop, HandInv, Claimed, Accepted
<1>17. CASE HostAbort
  BY <1>0, <1>17 DEF HostAbort, HandInv, Claimed, Accepted
<1>18. CASE Restart
  BY <1>0, <1>18 DEF Restart, HandInv, Claimed, Accepted
<1>19. ASSUME NEW c \in Cancellers, CancelWrite(c)
      PROVE  HandInv'
  BY <1>0, <1>19 DEF CancelWrite, CancelInv, HandInv, Claimed, Accepted
<1>20. ASSUME NEW o \in Ops, TaskStart(o)
      PROVE  HandInv'
  BY <1>0, <1>20 DEF TaskStart, HandInv, Claimed, Accepted
<1>21. ASSUME NEW o \in Ops, TaskStop(o)
      PROVE  HandInv'
  BY <1>0, <1>21 DEF TaskStop, EndTask, HandInv, Claimed, Accepted
<1>22. ASSUME NEW o \in Ops, TaskStopWrite(o)
      PROVE  HandInv'
  BY <1>0, <1>22 DEF TaskStopWrite, HandInv, Claimed, Accepted
<1>23. ASSUME NEW o \in Ops, TaskResolve(o)
      PROVE  HandInv'
  BY <1>0, <1>23 DEF TaskResolve, EndTask, HandInv, Claimed, Accepted
<1>24. ASSUME NEW o \in Ops, NEW to \in Goals, ExecutorComplete(o, to)
      PROVE  HandInv'
  BY <1>0, <1>24 DEF ExecutorComplete, HandInv, Claimed, Accepted
<1>25. ASSUME NEW o \in Ops, ExecutorError(o)
      PROVE  HandInv'
  BY <1>0, <1>25 DEF ExecutorError, HandInv, Claimed, Accepted
<1>26. ASSUME NEW o \in Ops, ExecutorPanic(o)
      PROVE  HandInv'
  BY <1>0, <1>26 DEF ExecutorPanic, HandInv, Claimed, Accepted
<1>27. ASSUME NEW o \in Ops, TaskWrite(o)
      PROVE  HandInv'
  BY <1>0, <1>27 DEF TaskWrite, EndTask, Accepted, Goals, HandInv, Claimed,
       Accepted
<1>28. ASSUME NEW o \in Ops, InlineClaim(o)
      PROVE  HandInv'
  BY <1>0, <1>28 DEF InlineClaim, Claimable, HandInv, Claimed, Accepted
<1>29. ASSUME NEW o \in Ops, BeatRenew(o)
      PROVE  HandInv'
  BY <1>0, <1>29 DEF BeatRenew, Never, HandInv, Claimed, Accepted
<1> QED
  BY <1>1, <1>2, <1>3, <1>4, <1>5, <1>6, <1>7, <1>8, <1>9, <1>10, <1>11,
       <1>12, <1>13, <1>14, <1>15, <1>16, <1>17, <1>18, <1>19, <1>20, <1>21,
       <1>22, <1>23, <1>24, <1>25, <1>26, <1>27, <1>28, <1>29
  DEF Next, Program, Environment, Surroundings, HostStep, CancelCall, TaskStep, Beat,
       vars, Tick, CancelBegin, CancelGet, CancelFlag, CancelReread,
       BeatClock

\* What a canceller has established stays true while it goes on.
LEMMA CancelKeeps == IInv /\ [Next]_vars => CancelInv'
<1> SUFFICES ASSUME IInv, [Next]_vars PROVE CancelInv' OBVIOUS
<1> USE OperationsAssumption DEF IInv, TypeOK
<1>0. TypeOK'
  BY TypeStep
<1>1. CASE UNCHANGED <<cancelPc, cancelOp, state, cancelRequested, claimedAt>>
  BY <1>1 DEF CancelInv, Claimed, Accepted
<1>2. ASSUME NEW o \in Ops, NEW d \in Deadlines \cup {NoDeadline}, Create(o, d)
      PROVE  CancelInv'
  BY <1>0, <1>2 DEF Create, CancelInv, Claimed, Accepted
<1>3. ASSUME NEW e \in expired, HostRecover(e[1], e[2])
      PROVE  CancelInv'
  BY <1>0, <1>3 DEF HostRecover, CancelInv, Claimed, Accepted
<1>4. CASE HostSweepWrite
  BY <1>0, <1>4 DEF HostSweepWrite, CancelInv, Claimed, Accepted
<1>5. ASSUME NEW o \in Ops, HostClaim(o)
      PROVE  CancelInv'
  BY <1>0, <1>5 DEF HostClaim, Never, CancelInv, Claimed, Accepted
<1>6. ASSUME NEW o \in Ops, HostDrainNext(o)
      PROVE  CancelInv'
  BY <1>0, <1>6 DEF HostDrainNext, Cancellers, HandInv, RowInv, CancelInv,
       Claimed, Accepted
<1>7. CASE Restart
  BY <1>0, <1>7 DEF Restart, CancelInv, Claimed, Accepted
<1>8. ASSUME NEW c \in Callers, NEW o \in Ops, CancelBegin(c, o)
      PROVE  CancelInv'
  BY <1>0, <1>8 DEF CancelBegin, CancelStep, Cancellers, CancelInv, Claimed,
       Accepted
<1>9. ASSUME NEW c \in Cancellers, CancelGet(c)
      PROVE  CancelInv'
  BY <1>0, <1>9 DEF CancelGet, CancelStep, CancelInv, Claimed, Accepted
<1>10. ASSUME NEW c \in Cancellers, CancelFlag(c)
      PROVE  CancelInv'
  BY <1>0, <1>10 DEF CancelFlag, CancelStep, CancelReturn, CancelInv,
       Claimed, Accepted
<1>11. ASSUME NEW c \in Cancellers, CancelReread(c)
      PROVE  CancelInv'
  BY <1>0, <1>11, LegalMoves DEF CancelReread, CancelStep, CancelReturn,
       RowInv, Live, CancelInv, Claimed, Accepted
<1>12. ASSUME NEW c \in Cancellers, CancelWrite(c)
      PROVE  CancelInv'
  BY <1>0, <1>12 DEF CancelWrite, CancelStep, CancelReturn, CancelInv,
       Claimed, Accepted
<1>13. ASSUME NEW o \in Ops, TaskStopWrite(o)
      PROVE  CancelInv'
  BY <1>0, <1>13 DEF TaskStopWrite, CancelInv, Claimed, Accepted
<1>14. ASSUME NEW o \in Ops, TaskWrite(o)
      PROVE  CancelInv'
  BY <1>0, <1>14 DEF TaskWrite, EndTask, Accepted, Goals, CancelInv,
       Claimed, Accepted
<1>15. ASSUME NEW o \in Ops, InlineClaim(o)
      PROVE  CancelInv'
  BY <1>0, <1>15 DEF InlineClaim, Never, CancelInv, Claimed, Accepted
<1>16. ASSUME NEW o \in Ops, BeatRenew(o)
      PROVE  CancelInv'
  BY <1>0, <1>16 DEF BeatRenew, Never, CancelInv, Claimed, Accepted
<1> QED
  BY <1>1, <1>2, <1>3, <1>4, <1>5, <1>6, <1>7, <1>8, <1>9, <1>10, <1>11,
       <1>12, <1>13, <1>14, <1>15, <1>16
  DEF Next, Program, Environment, Surroundings, HostStep, CancelCall, TaskStep, Beat,
       vars, Tick, HostReap, HostTick, HostFindOverdue, HostSweepRead,
       HostAcquire, HostClaimNone, HostSpawn, HostShutdown, HostDrained,
       HostStop, HostAbort, TaskStart, TaskStop, TaskResolve,
       ExecutorComplete, ExecutorError, ExecutorPanic, BeatClock

\* The selection recovery works through stays past the lease.
LEMMA ExpiredStep == IInv /\ [Next]_vars => ExpiredInv'
<1> SUFFICES ASSUME IInv, [Next]_vars PROVE ExpiredInv' OBVIOUS
<1> USE OperationsAssumption DEF IInv, TypeOK
<1>0. TypeOK'
  BY TypeStep
<1>1. CASE UNCHANGED <<hostPc, expired, tickNow>>
  BY <1>1 DEF ExpiredInv
<1>2. CASE HostReap
  BY <1>0, <1>2 DEF HostReap, ExpiredInv
<1>3. CASE HostTick
  BY <1>0, <1>3 DEF HostTick, ClaimExpired, ExpiredInv
<1>4. ASSUME NEW e \in expired, HostRecover(e[1], e[2])
      PROVE  ExpiredInv'
  BY <1>0, <1>4 DEF HostRecover, ExpiredInv
<1>5. CASE HostFindOverdue
  BY <1>0, <1>5 DEF HostFindOverdue, ExpiredInv
<1>6. ASSUME NEW o \in Ops, HostSweepRead(o)
      PROVE  ExpiredInv'
  BY <1>0, <1>6 DEF HostSweepRead, ExpiredInv
<1>7. CASE HostSweepWrite
  BY <1>0, <1>7 DEF HostSweepWrite, ExpiredInv
<1>8. CASE HostAcquire
  BY <1>0, <1>8 DEF HostAcquire, ExpiredInv
<1>9. ASSUME NEW o \in Ops, HostClaim(o)
      PROVE  ExpiredInv'
  BY <1>0, <1>9 DEF HostClaim, ExpiredInv
<1>10. CASE HostClaimNone
  BY <1>0, <1>10 DEF HostClaimNone, ExpiredInv
<1>11. CASE HostSpawn
  BY <1>0, <1>11 DEF HostSpawn, ExpiredInv
<1>12. CASE HostShutdown
  BY <1>0, <1>12 DEF HostShutdown, ExpiredInv
<1>13. CASE HostDrained
  BY <1>0, <1>13 DEF HostDrained, ExpiredInv
<1>14. CASE HostStop
  BY <1>0, <1>14 DEF HostStop, ExpiredInv
<1>15. CASE HostAbort
  BY <1>0, <1>15 DEF HostAbort, ExpiredInv
<1>16. CASE Restart
  BY <1>0, <1>16 DEF Restart, ExpiredInv
<1> QED
  BY <1>1, <1>2, <1>3, <1>4, <1>5, <1>6, <1>7, <1>8, <1>9, <1>10, <1>11,
       <1>12, <1>13, <1>14, <1>15, <1>16
  DEF Next, Program, Environment, Surroundings, HostStep, CancelCall, TaskStep, Beat,
       vars, Create, Tick, HostDrainNext, CancelBegin, CancelGet,
       CancelFlag, CancelReread, CancelWrite, TaskStart, TaskStop,
       TaskStopWrite, TaskResolve, ExecutorComplete, ExecutorError,
       ExecutorPanic, TaskWrite, InlineClaim, BeatClock, BeatRenew

\* The flag of an operation that was cancelled while pending reaches its task.
LEMMA FlagStep == IInv /\ [Next]_vars => FlagInv'
<1> SUFFICES ASSUME IInv, [Next]_vars PROVE FlagInv' OBVIOUS
<1> USE OperationsAssumption DEF IInv, TypeOK
<1>0. TypeOK'
  BY TypeStep
<1>1. CASE UNCHANGED <<askedPending, cancelRequested, starts, task, seenCancel>>
  BY <1>1 DEF FlagInv
<1>2. CASE HostSpawn
  BY <1>0, <1>2 DEF HostSpawn, HandInv, FlagInv
<1>3. CASE HostAbort
  BY <1>0, <1>3 DEF HostAbort, RowInv, FlagInv
<1>4. CASE Restart
  BY <1>0, <1>4 DEF Restart, FlagInv
<1>5. ASSUME NEW c \in Cancellers, CancelFlag(c)
      PROVE  FlagInv'
  BY <1>0, <1>5 DEF CancelFlag, RowInv, FlagInv
<1>6. ASSUME NEW o \in Ops, TaskStart(o)
      PROVE  FlagInv'
  BY <1>0, <1>6 DEF TaskStart, FlagInv
<1>7. ASSUME NEW o \in Ops, TaskStop(o)
      PROVE  FlagInv'
  BY <1>0, <1>7 DEF TaskStop, EndTask, FlagInv
<1>8. ASSUME NEW o \in Ops, TaskStopWrite(o)
      PROVE  FlagInv'
  BY <1>0, <1>8 DEF TaskStopWrite, FlagInv
<1>9. ASSUME NEW o \in Ops, TaskResolve(o)
      PROVE  FlagInv'
  BY <1>0, <1>9 DEF TaskResolve, EndTask, FlagInv
<1>10. ASSUME NEW o \in Ops, NEW to \in Goals, ExecutorComplete(o, to)
      PROVE  FlagInv'
  BY <1>0, <1>10 DEF ExecutorComplete, FlagInv
<1>11. ASSUME NEW o \in Ops, ExecutorError(o)
      PROVE  FlagInv'
  BY <1>0, <1>11 DEF ExecutorError, FlagInv
<1>12. ASSUME NEW o \in Ops, ExecutorPanic(o)
      PROVE  FlagInv'
  BY <1>0, <1>12 DEF ExecutorPanic, FlagInv
<1>13. ASSUME NEW o \in Ops, TaskWrite(o)
      PROVE  FlagInv'
  BY <1>0, <1>13 DEF TaskWrite, EndTask, FlagInv
<1>14. ASSUME NEW o \in Ops, InlineClaim(o)
      PROVE  FlagInv'
  BY <1>0, <1>14 DEF InlineClaim, FlagInv
<1> QED
  BY <1>1, <1>2, <1>3, <1>4, <1>5, <1>6, <1>7, <1>8, <1>9, <1>10, <1>11,
       <1>12, <1>13, <1>14
  DEF Next, Program, Environment, Surroundings, HostStep, CancelCall,
       TaskStep, Beat, vars, Create, Tick, HostReap, HostTick, HostRecover,
       HostFindOverdue, HostSweepRead, HostSweepWrite, HostAcquire, HostClaim,
       HostClaimNone, HostShutdown, HostDrainNext, HostDrained, HostStop,
       CancelBegin, CancelGet, CancelReread, CancelWrite, BeatClock, BeatRenew

\* The drain forgets no task it has in flight.
LEMMA DrainStep == IInv /\ [Next]_vars => DrainInv'
<1> SUFFICES ASSUME IInv, [Next]_vars PROVE DrainInv' OBVIOUS
<1> USE OperationsAssumption DEF IInv, TypeOK
<1>0. TypeOK'
  BY TypeStep
<1>1. CASE UNCHANGED <<hostPc, inFlight, drainTodo, cancelRequested, state, cancelPc, cancelOp>>
  BY <1>1 DEF DrainInv, Asked, Asking
<1>2. ASSUME NEW o \in Ops, NEW d \in Deadlines \cup {NoDeadline}, Create(o, d)
      PROVE  DrainInv'
  BY <1>0, <1>2 DEF Create, HandInv, RowInv, Accepted, DrainInv, Asked, Asking
<1>3. CASE HostReap
  BY <1>0, <1>3 DEF HostReap, DrainInv, Asked, Asking
<1>4. CASE HostTick
  BY <1>0, <1>4 DEF HostTick, DrainInv, Asked, Asking
<1>5. ASSUME NEW e \in expired, HostRecover(e[1], e[2])
      PROVE  DrainInv'
  BY <1>0, <1>5 DEF HostRecover, Terminal, DrainInv, Asked, Asking
<1>6. CASE HostFindOverdue
  BY <1>0, <1>6 DEF HostFindOverdue, DrainInv, Asked, Asking
<1>7. ASSUME NEW o \in Ops, HostSweepRead(o)
      PROVE  DrainInv'
  BY <1>0, <1>7 DEF HostSweepRead, DrainInv, Asked, Asking
<1>8. CASE HostSweepWrite
  BY <1>0, <1>8 DEF HostSweepWrite, DrainInv, Asked, Asking
<1>9. CASE HostAcquire
  BY <1>0, <1>9 DEF HostAcquire, DrainInv, Asked, Asking
<1>10. ASSUME NEW o \in Ops, HostClaim(o)
      PROVE  DrainInv'
  BY <1>0, <1>10 DEF HostClaim, DrainInv, Asked, Asking
<1>11. CASE HostClaimNone
  BY <1>0, <1>11 DEF HostClaimNone, DrainInv, Asked, Asking
<1>12. CASE HostSpawn
  BY <1>0, <1>12 DEF HostSpawn, DrainInv, Asked, Asking
<1>13. CASE HostShutdown
  BY <1>0, <1>13 DEF HostShutdown, DrainInv, Asked, Asking
<1>14. ASSUME NEW o \in Ops, HostDrainNext(o)
      PROVE  DrainInv'
  BY <1>0, <1>14 DEF HostDrainNext, Cancellers, DrainInv, Asked, Asking
<1>15. CASE HostDrained
  BY <1>0, <1>15 DEF HostDrained, DrainInv, Asked, Asking
<1>16. CASE HostStop
  BY <1>0, <1>16 DEF HostStop, DrainInv, Asked, Asking
<1>17. CASE HostAbort
  BY <1>0, <1>17 DEF HostAbort, DrainInv, Asked, Asking
<1>18. CASE Restart
  BY <1>0, <1>18 DEF Restart, DrainInv, Asked, Asking
<1>19. ASSUME NEW c \in Callers, NEW o \in Ops, CancelBegin(c, o)
      PROVE  DrainInv'
  BY <1>0, <1>19 DEF CancelBegin, CancelStep, DrainInv, Asked, Asking
<1>20. ASSUME NEW c \in Cancellers, CancelGet(c)
      PROVE  DrainInv'
  BY <1>0, <1>20 DEF CancelGet, CancelStep, DrainInv, Asked, Asking
<1>21. ASSUME NEW c \in Cancellers, CancelFlag(c)
      PROVE  DrainInv'
  BY <1>0, <1>21 DEF CancelFlag, CancelStep, CancelReturn, Cancellers,
       DrainInv, Asked, Asking
<1>22. ASSUME NEW c \in Cancellers, CancelReread(c)
      PROVE  DrainInv'
  BY <1>0, <1>22 DEF CancelReread, CancelStep, CancelReturn, Cancellers,
       DrainInv, Asked, Asking
<1>23. ASSUME NEW c \in Cancellers, CancelWrite(c)
      PROVE  DrainInv'
  BY <1>0, <1>23 DEF CancelWrite, CancelStep, CancelReturn, CancelInv,
       DrainInv, Asked, Asking
<1>24. ASSUME NEW o \in Ops, TaskStopWrite(o)
      PROVE  DrainInv'
  BY <1>0, <1>24 DEF TaskStopWrite, RowInv, DrainInv, Asked, Asking
<1>25. ASSUME NEW o \in Ops, TaskWrite(o)
      PROVE  DrainInv'
  BY <1>0, <1>25 DEF TaskWrite, Goals, Terminal, DrainInv, Asked, Asking
<1>26. ASSUME NEW o \in Ops, InlineClaim(o)
      PROVE  DrainInv'
  BY <1>0, <1>26 DEF InlineClaim, Claimable, HandInv, RowInv, DrainInv, Asked,
       Asking
<1> QED
  BY <1>1, <1>2, <1>3, <1>4, <1>5, <1>6, <1>7, <1>8, <1>9, <1>10, <1>11,
       <1>12, <1>13, <1>14, <1>15, <1>16, <1>17, <1>18, <1>19, <1>20, <1>21,
       <1>22, <1>23, <1>24, <1>25, <1>26
  DEF Next, Program, Environment, Surroundings, HostStep, CancelCall,
       TaskStep, Beat, vars, Tick, TaskStart, TaskStop, TaskResolve,
       ExecutorComplete, ExecutorError, ExecutorPanic, BeatClock, BeatRenew

\* Tracked tasks are finitely many, and fewer of them take fewer permits.
LEMMA TrackedFinite ==
    ASSUME NEW S, S \subseteq Tracked
    PROVE  /\ IsFiniteSet(Tracked) /\ IsFiniteSet(S)
           /\ Cardinality(S) \in Nat /\ Cardinality(Tracked) \in Nat
           /\ Cardinality(S) <= Cardinality(Tracked)
<1>1. IsFiniteSet(Ops)
  BY FS_Interval, OperationsAssumption DEF Ops
<1>2. IsFiniteSet(Tracked)
  BY <1>1, FS_Subset DEF Tracked
<1> QED
  BY <1>2, FS_Subset, FS_CardinalityType

\* A step that tracks no new task and takes no permit keeps the bound.
LEMMA FewerPermits ==
    ASSUME IInv, Tracked' \subseteq Tracked,
           hostPc' \in {"claim", "fetch"} => hostPc \in {"claim", "fetch"}
    PROVE  ActiveBound'
<1>1. /\ Cardinality(Tracked') \in Nat /\ Cardinality(Tracked) \in Nat
      /\ Cardinality(Tracked') <= Cardinality(Tracked)
  BY TrackedFinite
<1> QED
  BY <1>1, OperationsAssumption DEF IInv, ActiveBound, Permits

\* A permit is taken where one is free, and goes with the claim to its task.
LEMMA ActiveStep == IInv /\ [Next]_vars => ActiveBound'
<1> SUFFICES ASSUME IInv, [Next]_vars PROVE ActiveBound' OBVIOUS
<1> USE OperationsAssumption DEF IInv, TypeOK
<1>1. CASE HostAcquire
  <2>1. UNCHANGED Tracked
    BY <1>1 DEF HostAcquire, Tracked, Running
  <2>2. Cardinality(Tracked) \in Nat
    BY TrackedFinite
  <2> QED
    BY <1>1, <2>1, <2>2 DEF HostAcquire, ActiveBound, Permits
<1>2. CASE HostSpawn
  <2>1. Tracked' = Tracked \cup {inHand} /\ inHand \notin Tracked
    BY <1>2 DEF HostSpawn, HandInv, Tracked, Running
  <2>2. IsFiniteSet(Tracked) /\ Cardinality(Tracked) \in Nat
    BY TrackedFinite
  <2>3. Cardinality(Tracked') = Cardinality(Tracked) + 1
    BY <2>1, <2>2, FS_AddElement
  <2> QED
    BY <1>2, <2>2, <2>3 DEF HostSpawn, ActiveBound, Permits
<1>3. CASE UNCHANGED <<hostPc, task, workerId>>
  <2>1. Tracked' = Tracked
    BY <1>3 DEF Tracked, Running
  <2> QED
    BY <1>3, <2>1, FewerPermits
<1>4. CASE HostReap
  BY <1>4, FewerPermits DEF HostReap, Tracked, Running
<1>5. CASE HostTick
  BY <1>5, FewerPermits DEF HostTick, Tracked, Running
<1>6. CASE HostFindOverdue
  BY <1>6, FewerPermits DEF HostFindOverdue, Tracked, Running
<1>7. ASSUME NEW o \in Ops, HostSweepRead(o)
      PROVE  ActiveBound'
  BY <1>7, FewerPermits DEF HostSweepRead, Tracked, Running
<1>8. CASE HostSweepWrite
  BY <1>8, FewerPermits DEF HostSweepWrite, Tracked, Running
<1>9. ASSUME NEW o \in Ops, HostClaim(o)
      PROVE  ActiveBound'
  BY <1>9, FewerPermits DEF HostClaim, Claimable, RowInv, Tracked, Running
<1>10. CASE HostClaimNone
  BY <1>10, FewerPermits DEF HostClaimNone, Tracked, Running
<1>11. CASE HostShutdown
  BY <1>11, FewerPermits DEF HostShutdown, Tracked, Running
<1>12. CASE HostDrained
  BY <1>12, FewerPermits DEF HostDrained, Tracked, Running
<1>13. CASE HostStop
  BY <1>13, FewerPermits DEF HostStop, Tracked, Running
<1>14. CASE HostAbort
  BY <1>14, FewerPermits DEF HostAbort, Tracked, Running
<1>15. CASE Restart
  BY <1>15, FewerPermits DEF Restart, Tracked, Running
<1>16. ASSUME NEW o \in Ops, TaskStart(o)
      PROVE  ActiveBound'
  BY <1>16, FewerPermits DEF TaskStart, Tracked, Running
<1>17. ASSUME NEW o \in Ops, TaskStop(o)
      PROVE  ActiveBound'
  BY <1>17, FewerPermits DEF TaskStop, EndTask, Tracked, Running
<1>18. ASSUME NEW o \in Ops, TaskStopWrite(o)
      PROVE  ActiveBound'
  BY <1>18, FewerPermits DEF TaskStopWrite, Tracked, Running
<1>19. ASSUME NEW o \in Ops, TaskResolve(o)
      PROVE  ActiveBound'
  BY <1>19, FewerPermits DEF TaskResolve, EndTask, Tracked, Running
<1>20. ASSUME NEW o \in Ops, NEW to \in Goals, ExecutorComplete(o, to)
      PROVE  ActiveBound'
  BY <1>20, FewerPermits DEF ExecutorComplete, Tracked, Running
<1>21. ASSUME NEW o \in Ops, ExecutorError(o)
      PROVE  ActiveBound'
  BY <1>21, FewerPermits DEF ExecutorError, Tracked, Running
<1>22. ASSUME NEW o \in Ops, ExecutorPanic(o)
      PROVE  ActiveBound'
  BY <1>22, FewerPermits DEF ExecutorPanic, Tracked, Running
<1>23. ASSUME NEW o \in Ops, TaskWrite(o)
      PROVE  ActiveBound'
  BY <1>23, FewerPermits DEF TaskWrite, EndTask, Tracked, Running
<1>24. ASSUME NEW o \in Ops, InlineClaim(o)
      PROVE  ActiveBound'
  BY <1>24, FewerPermits DEF InlineClaim, Tracked, Running
<1> QED
  BY <1>1, <1>2, <1>3, <1>4, <1>5, <1>6, <1>7, <1>8, <1>9, <1>10, <1>11,
       <1>12, <1>13, <1>14, <1>15, <1>16, <1>17, <1>18, <1>19, <1>20, <1>21,
       <1>22, <1>23, <1>24
  DEF Next, Program, Environment, Surroundings, HostStep, CancelCall,
       TaskStep, Beat, vars, Create, Tick, HostRecover, HostDrainNext,
       CancelBegin, CancelGet, CancelFlag, CancelReread, CancelWrite,
       BeatClock, BeatRenew

-----------------------------------------------------------------------------
\* The strengthened invariant holds of every behaviour.
THEOREM Inductive == Spec => []IInv
<1>1. Init => IInv
  BY InitIInv
<1>2. IInv /\ [Next]_vars => IInv'
  BY TypeStep, RowStep, HandStep, CancelKeeps, ExpiredStep, FlagStep, DrainStep,
     ActiveStep DEF IInv
<1> QED
  BY <1>1, <1>2, PTL DEF Spec

\* Type correctness of the queue.
THEOREM TypeCorrect == Spec => []TypeOK
<1>1. IInv => TypeOK
  BY DEF IInv
<1> QED
  BY <1>1, Inductive, PTL

\* Nothing auto-retries: no operation is executed twice.
THEOREM NothingRunsTwice == Spec => []ExecutedOnce
<1>1. IInv => ExecutedOnce
  BY DEF IInv, RowInv, ExecutedOnce
<1> QED
  BY <1>1, Inductive, PTL

\* The host never runs more claims than its bound: a permit goes from the
\* tick's check to the claim and from the claim to its task, and nothing else
\* takes one.
THEOREM ActiveIsBounded == Spec => []ActiveBound
<1>1. IInv => ActiveBound
  BY DEF IInv
<1> QED
  BY <1>1, Inductive, PTL

\* A cancellation taken while the operation was pending is never lost: the
\* queue's snapshot, read after the claim, carries it.
THEOREM PendingCancelWins == Spec => []FlaggedPendingNeverQueued
<1>1. IInv => FlaggedPendingNeverQueued
  BY DEF IInv, FlagInv, FlaggedPendingNeverQueued
<1> QED
  BY <1>1, Inductive, PTL

\* A shutdown asks for the end of every task it then waits for or aborts.
THEOREM DrainIsComplete == Spec => []DrainAsksEveryTask
<1>1. IInv => DrainAsksEveryTask
  BY DEF IInv, DrainInv, Asked, DrainAsksEveryTask
<1> QED
  BY <1>1, Inductive, PTL

\* Recovery fails only claims that were silent for longer than the lease, even
\* when a heartbeat lands between its select and its write.
THEOREM RecoveryIsSound == Spec => RecoveryRespectsLease
<1> DEFINE Sound == \A o \in Ops : (expired' # expired /\ state'[o] # state[o])
                                       => claimedAt[o] < tickNow - Lease
<1>1. IInv /\ [Next]_vars => [Sound]_vars
  <2> SUFFICES ASSUME IInv, [Next]_vars PROVE [Sound]_vars OBVIOUS
  <2>1. CASE UNCHANGED vars \/ UNCHANGED expired \/ UNCHANGED state
    BY <2>1
  <2>2. ASSUME NEW e \in expired, HostRecover(e[1], e[2]) PROVE Sound
    BY <2>2 DEF HostRecover, IInv, TypeOK, ExpiredInv
  <2> QED
    BY <2>1, <2>2
    DEF Next, Program, Environment, Surroundings, HostStep, CancelCall, TaskStep, Beat, vars,
        Create, Tick, HostReap, HostTick, HostFindOverdue, HostSweepRead,
        HostSweepWrite, HostAcquire, HostClaim, HostClaimNone,
        HostSpawn, HostShutdown, HostDrainNext, HostDrained, HostStop,
        HostAbort, Restart, CancelBegin, CancelGet, CancelFlag,
        CancelReread, CancelWrite, TaskStart, TaskStop, TaskStopWrite,
        TaskResolve, ExecutorComplete, ExecutorError, ExecutorPanic,
        TaskWrite, InlineClaim, BeatClock, BeatRenew
<1> QED
  BY <1>1, Inductive, PTL DEF Spec, RecoveryRespectsLease

-----------------------------------------------------------------------------
(* The refinement: each step of the queue maps to a step of the record.    *)

rowPhase == [o \in Ops |-> Phase(state[o])]
rowClaimed == {o \in Ops : claimedAt[o] # Never}

\* The phase a stored state stands for, by each kind of state.
LEMMA PhaseOf ==
    ASSUME NEW s \in RowState
    PROVE  /\ Phase("absent") = "absent" /\ Phase("pending") = "queued"
           /\ Phase("running") = "live" /\ Phase("cancelling") = "live"
           /\ s \in Live => Phase(s) = "live"
           /\ s \in Terminal => Phase(s) = "over"
           /\ Phase(s) = "absent" <=> s = "absent"
           /\ s \notin Live \cup Terminal => s \in {"absent", "pending"}
BY DEF Phase, RowState, OperationState, Live, Terminal

\* A statement that writes one row's state moves that row's phase only.
LEMMA PhaseMove ==
    ASSUME NEW o \in Ops, NEW s \in RowState, state \in [Ops -> RowState],
           state' = [state EXCEPT ![o] = s]
    PROVE  rowPhase' = [rowPhase EXCEPT ![o] = Phase(s)]
BY DEF rowPhase

\* An empty table is an empty record.
LEMMA RecordInit == Init => Record!Init
BY OperationsAssumption, PhaseOf
   DEF Init, InitAt, Record!Init, RowState, Never

\* Each statement of the queue is a step of the record, or one it does not see.
LEMMA RecordStep == IInv /\ [Next]_vars => [Record!Next]_(Record!vars)
<1> SUFFICES ASSUME IInv, [Next]_vars
             PROVE  Record!Next \/ UNCHANGED Record!vars
    OBVIOUS
<1> USE OperationsAssumption DEF IInv, TypeOK
<1> USE DEF Record!vars, Record!Move
<1>1. CASE UNCHANGED <<state, claimedAt, starts, cancelRequested>>
  BY <1>1
<1>2. ASSUME NEW o \in Ops, NEW d \in Deadlines \cup {NoDeadline}, Create(o, d)
      PROVE  Record!Accept(o)
  <2>1. rowPhase' = [rowPhase EXCEPT ![o] = "queued"]
    BY <1>2, PhaseMove, PhaseOf DEF Create, RowState, OperationState
  <2> QED
    BY <1>2, <2>1, PhaseOf DEF Create, Accepted, Record!Accept, rowPhase
<1>3. ASSUME NEW o \in Ops, HostClaim(o) PROVE Record!Claim(o)
  <2>1. rowPhase' = [rowPhase EXCEPT ![o] = Phase("running")]
    BY <1>3, PhaseMove DEF HostClaim, RowState, OperationState
  <2>2. o \notin rowClaimed /\ rowClaimed' = rowClaimed \cup {o}
    BY <1>3 DEF HostClaim, Claimable, RowInv, Claimed, rowClaimed, Never
  <2>3. rowPhase[o] = "queued" /\ starts' \in {starts, [starts EXCEPT ![o] = 1]}
    BY <1>3, PhaseOf DEF HostClaim, Claimable, rowPhase
  <2> QED
    BY <1>3, <2>1, <2>2, <2>3, PhaseOf
    DEF HostClaim, Record!Claim, rowPhase, rowClaimed
<1>4. ASSUME NEW o \in Ops, InlineClaim(o) PROVE Record!Claim(o)
  <2>1. rowPhase' = [rowPhase EXCEPT ![o] = Phase("running")]
    BY <1>4, PhaseMove DEF InlineClaim, RowState, OperationState
  <2>2. state[o] = "pending" /\ starts[o] = 0
    BY <1>4 DEF InlineClaim, Claimable, RowInv
  <2>3. starts' = [starts EXCEPT ![o] = 1]
    BY <1>4, <2>2 DEF InlineClaim
  <2>4. o \notin rowClaimed /\ rowClaimed' = rowClaimed \cup {o}
    BY <1>4 DEF InlineClaim, Claimable, RowInv, Claimed, rowClaimed, Never
  <2>5. rowPhase[o] = "queued" /\ starts' \in {starts, [starts EXCEPT ![o] = 1]}
    BY <1>4, <2>3, PhaseOf DEF InlineClaim, Claimable, rowPhase
  <2> QED
    BY <1>4, <2>1, <2>4, <2>5, PhaseOf
    DEF InlineClaim, Record!Claim, rowPhase, rowClaimed
<1>5. ASSUME NEW o \in Ops, TaskStart(o) PROVE Record!Run(o)
  <2>1. starts[o] = 0 /\ Claimed(o)
    BY <1>5 DEF TaskStart, RowInv
  <2>2. starts' = [starts EXCEPT ![o] = 1]
    BY <1>5, <2>1 DEF TaskStart
  <2> QED
    BY <1>5, <2>1, <2>2 DEF TaskStart, Claimed, Record!Run
<1>6. ASSUME NEW c \in Cancellers, CancelFlag(c)
      PROVE  cancelOp[c] \in Ops /\ Record!Ask(cancelOp[c])
  BY <1>6, PhaseOf DEF CancelFlag, CancelInv, Accepted, Record!Ask, Live, RowState, OperationState
\* Every write of a terminal state resolves a row that was still open, and
\* overwrites one that was not.
<1>7. ASSUME NEW o \in Ops, Accepted(o), NEW s \in Terminal,
             state' = [state EXCEPT ![o] = s],
             UNCHANGED <<claimedAt, starts, cancelRequested>>
      PROVE  Record!Resolve(o) \/ UNCHANGED Record!vars
  <2>0. s \in RowState
    BY <1>7 DEF Terminal, RowState, OperationState
  <2>1. rowPhase' = [rowPhase EXCEPT ![o] = "over"]
    BY <1>7, <2>0, PhaseMove, PhaseOf
  <2>2. CASE state[o] \in {"pending", "running", "cancelling"}
    BY <1>7, <2>1, <2>2, PhaseOf DEF Record!Resolve, rowPhase, Live
  <2>3. CASE state[o] \notin {"pending", "running", "cancelling"}
    <3>1. rowPhase[o] = "over"
      BY <1>7, <2>3, PhaseOf DEF rowPhase, Terminal, RowState, OperationState, Accepted, Live
    <3>2. rowPhase' = rowPhase
      BY <2>1, <3>1 DEF rowPhase
    <3> QED
      BY <1>7, <3>2 DEF rowPhase
  <2> QED
    BY <2>2, <2>3
\* A write of cancelling leaves a live row live and revives a resolved one.
<1>8. ASSUME NEW o \in Ops, cancelRequested[o], Claimed(o),
             state[o] \notin {"absent", "pending"},
             state' = [state EXCEPT ![o] = "cancelling"],
             UNCHANGED <<claimedAt, starts, cancelRequested>>
      PROVE  Record!Revive(o) \/ UNCHANGED Record!vars
  <2>0. "cancelling" \in RowState
    BY DEF RowState, OperationState
  <2>1. rowPhase' = [rowPhase EXCEPT ![o] = "live"]
    BY <1>8, <2>0, PhaseMove, PhaseOf
  <2>2. CASE state[o] \in Live
    <3>1. rowPhase' = rowPhase
      BY <1>8, <2>1, <2>2, PhaseOf DEF rowPhase, Live
    <3> QED
      BY <1>8, <3>1 DEF rowPhase
  <2>3. CASE state[o] \notin Live
    BY <1>8, <2>1, <2>3, PhaseOf DEF RowState, OperationState, Terminal, Record!Revive, rowPhase, Live, Claimed
  <2> QED
    BY <2>2, <2>3
<1>9. ASSUME NEW e \in expired, HostRecover(e[1], e[2])
      PROVE  Record!Next \/ UNCHANGED Record!vars
  <2>1. e[1] \in Ops /\ "failed" \in Terminal
    BY <1>9 DEF Terminal
  <2>2. CASE UNCHANGED state
    BY <1>1, <1>9, <2>2 DEF HostRecover
  <2>3. CASE state' # state
    <3>1. Accepted(e[1]) /\ state' = [state EXCEPT ![e[1]] = "failed"]
      BY <1>9, <2>3 DEF HostRecover, Accepted, Live
    <3>2. UNCHANGED <<claimedAt, starts, cancelRequested>>
      BY <1>9 DEF HostRecover
    <3> QED
      BY <1>7, <2>1, <3>1, <3>2 DEF Record!Next
  <2> QED
    BY <2>2, <2>3
<1>10. CASE HostSweepWrite
  BY <1>7, <1>10 DEF HostSweepWrite, HandInv, Terminal, Record!Next
<1>11. ASSUME NEW c \in Cancellers, CancelWrite(c)
       PROVE  Record!Next \/ UNCHANGED Record!vars
  BY <1>8, <1>11 DEF CancelWrite, CancelInv, RowInv, Claimed, Accepted, Record!Next
<1>12. ASSUME NEW o \in Ops, TaskStopWrite(o)
       PROVE  Record!Next \/ UNCHANGED Record!vars
  BY <1>8, <1>12 DEF TaskStopWrite, RowInv, Record!Next
<1>13. ASSUME NEW o \in Ops, TaskWrite(o)
       PROVE  Record!Next \/ UNCHANGED Record!vars
  BY <1>7, <1>13 DEF TaskWrite, EndTask, RowInv, Accepted, Goals, Terminal, Record!Next
<1>14. ASSUME NEW o \in Ops, BeatRenew(o) PROVE UNCHANGED Record!vars
  <2>1. rowClaimed' = rowClaimed
    BY <1>14 DEF BeatRenew, Renewable, rowClaimed, Never
  <2> QED
    BY <1>14, <2>1 DEF BeatRenew, rowClaimed
<1> QED
  BY <1>1, <1>2, <1>3, <1>4, <1>5, <1>6, <1>9, <1>10, <1>11, <1>12, <1>13,
     <1>14
  DEF Next, Program, Environment, Surroundings, HostStep, CancelCall, TaskStep, Beat, vars,
        Record!Next, Tick, HostReap, HostTick, HostFindOverdue, HostSweepRead, HostAcquire,
        HostClaimNone, HostSpawn, HostShutdown, HostDrainNext,
        HostDrained, HostStop, HostAbort, Restart, CancelBegin,
        CancelGet, CancelReread, TaskStop, TaskResolve,
        ExecutorComplete, ExecutorError, ExecutorPanic, BeatClock,
        EndTask

\* Whatever races, the queue implements the record its callers rely on.
THEOREM QueueImplementsRecord == Spec => ImplementsRecord
<1>1. Init => Record!Init
  BY RecordInit
<1>2. IInv /\ [Next]_vars => [Record!Next]_(Record!vars)
  BY RecordStep
<1> QED
  BY <1>1, <1>2, Inductive, PTL DEF Spec, ImplementsRecord, Record!Spec
=============================================================================
