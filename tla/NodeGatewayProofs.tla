-------------------------- MODULE NodeGatewayProofs -------------------------
(***************************************************************************)
(* The gateway's registry follows its sessions, a removed machine stays    *)
(* out, no end leaves a ghost, and an answer is the node's own, for any    *)
(* number of connections and dispatches.                                   *)
(***************************************************************************)
EXTENDS NodeGatewayProps, TLAPS

\* What an executor or the sweeper holds between two steps is a session.
Held ==
    /\ \A d \in Dispatches :
          dispatchPc[d] \in {"claim", "send", "wait"} => entry[d] \in Sessions
    /\ sweepPc # "tick" => sweepSession \in Sessions

\* The session has yet to store its end: unless it believes that offline is
\* stored already, finish_session will write it.
Owes(s) ==
    \/ pc[s] = "write"
    \/ pc[s] \in {"loop", "finish", "mark"} /\ persisted[s] # "offline"

\* A stored "connected" is owed an end, by somebody.
OweInv ==
    /\ durable = "connected" => \E s \in Sessions : Owes(s)
    /\ \A s \in Sessions :
          pc[s] = "write" /\ goal[s] = "connected" => persisted[s] # "offline"
    /\ identity = "deleted" => durable = "gone"

\* A waiter is of the session its dispatch holds, and a result is of a command
\* the node ran there.
AnswerInv ==
    /\ AnsweredByTheNode
    /\ \A d \in Dispatches : dispatchPc[d] = "idle" => outcome[d] = "none"
    /\ \A s \in Sessions :
          /\ \A d \in results[s] : <<s, d>> \in ran
          /\ \A d \in pending[s] : entry[d] = s /\ dispatchPc[d] # "idle"

IInv ==
    /\ TypeOK /\ Held
    /\ RegistryTracksSessions /\ RemovedStaysOut
    /\ OweInv /\ AnswerInv

\* The counter stays in its range, wrapping or not.
LEMMA LessInRange == \A n \in 0 .. Wrap - 1 : Less(n) \in 0 .. Wrap - 1
BY NodeGatewayAssumption DEF Less

\* Every action keeps the types.
LEMMA StepTypeOK == TypeOK /\ Held /\ [Next]_vars => TypeOK'
<1> SUFFICES ASSUME TypeOK, Held, [Next]_vars PROVE TypeOK'
  OBVIOUS
<1>1. ASSUME NEW s \in Sessions, Connect(s) PROVE TypeOK'
  BY <1>1 DEF Connect, TypeOK, GatewayState, SessionPcs, DispatchPcs, Outcomes,
       row, reg, slots, socket, sweeper, executors
<1>2. ASSUME NEW s \in Sessions, Negotiate(s) PROVE TypeOK'
  BY <1>2 DEF Negotiate, TypeOK, GatewayState, SessionPcs, DispatchPcs,
       Outcomes, row, reg, slots, socket, sweeper, executors
<1>3. ASSUME NEW s \in Sessions, Register(s) PROVE TypeOK'
  <2>1. Notified \in [Sessions -> BOOLEAN]
    BY Zenon DEF TypeOK, Notified
  <2>2. permit' \in [Sessions -> BOOLEAN] /\ registry' \in Sessions \cup {NoSession}
    BY <1>3, <2>1, Zenon DEF Register, TypeOK
  <2>3. pc' \in [Sessions -> SessionPcs]
    BY <1>3 DEF Register, TypeOK, SessionPcs
  <2>4. QED
    BY <1>3, <2>2, <2>3
       DEF Register, TypeOK, row, slots, socket, sweeper, executors
<1>4. ASSUME NEW s \in Sessions, Welcome(s) PROVE TypeOK'
  BY <1>4 DEF Welcome, TypeOK, GatewayState, SessionPcs, DispatchPcs, Outcomes,
       row, reg, slots, socket, sweeper, executors
<1>5. ASSUME NEW s \in Sessions, Mark(s) PROVE TypeOK'
  BY <1>5 DEF Mark, TypeOK, GatewayState, SessionPcs, DispatchPcs, Outcomes,
       AfterPersist, row, reg, slots, socket, sweeper, executors
<1>6. ASSUME NEW s \in Sessions, Write(s) PROVE TypeOK'
  BY <1>6 DEF Write, TypeOK, GatewayState, SessionPcs, DispatchPcs, Outcomes,
       Record, AfterPersist, reg, slots, socket, sweeper, executors
<1>7. ASSUME NEW s \in Sessions, Heartbeat(s) PROVE TypeOK'
  BY <1>7 DEF Heartbeat, TypeOK, GatewayState, SessionPcs, DispatchPcs,
       Outcomes, row, reg, slots, socket, sweeper, executors
<1>8. ASSUME NEW s \in Sessions, GoQuiet(s) PROVE TypeOK'
  BY <1>8 DEF GoQuiet, TypeOK, GatewayState, SessionPcs, DispatchPcs, Outcomes,
       row, reg, slots, socket, sweeper, executors
<1>9. ASSUME NEW s \in Sessions, SendCommand(s) PROVE TypeOK'
  BY <1>9 DEF SendCommand, TypeOK, GatewayState, SessionPcs, DispatchPcs,
       Outcomes, row, reg, slots, loop, sweeper, executors
<1>10. ASSUME NEW s \in Sessions, RouteResult(s) PROVE TypeOK'
  BY <1>10, SMTT(20) DEF RouteResult, TypeOK, GatewayState, SessionPcs, DispatchPcs,
       Outcomes, row, reg, loop, sweeper
<1>11. ASSUME NEW s \in Sessions, TakeSupersede(s) PROVE TypeOK'
  BY <1>11 DEF TakeSupersede, TypeOK, GatewayState, SessionPcs, DispatchPcs,
       Outcomes, row, reg, slots, socket, sweeper, executors
<1>12. ASSUME NEW s \in Sessions, Disconnect(s) PROVE TypeOK'
  BY <1>12 DEF Disconnect, TypeOK, GatewayState, SessionPcs, DispatchPcs,
       Outcomes, row, reg, slots, socket, sweeper, executors
<1>13. ASSUME NEW s \in Sessions, Finish(s) PROVE TypeOK'
  BY <1>13 DEF Finish, TypeOK, GatewayState, SessionPcs, DispatchPcs, Outcomes,
       row, slots, socket, sweeper, executors
<1>14. ASSUME NEW s \in Sessions, NodeActs(s) PROVE TypeOK'
  BY <1>14 DEF NodeActs, TypeOK, GatewayState, SessionPcs, DispatchPcs,
       Outcomes, row, reg, slots, loop, sweeper, executors
<1>15. ASSUME NEW d \in Dispatches, Lookup(d) PROVE TypeOK'
  BY <1>15 DEF Lookup, TypeOK, GatewayState, SessionPcs, DispatchPcs, Outcomes,
       row, reg, slots, socket, loop, sweeper
<1>16. ASSUME NEW d \in Dispatches, ClaimSlot(d) PROVE TypeOK'
  BY <1>16, NodeGatewayAssumption
     DEF ClaimSlot, Held, TypeOK, DispatchPcs, Outcomes, row, reg, socket,
         loop, sweeper
<1>17. ASSUME NEW d \in Dispatches, Enqueue(d) PROVE TypeOK'
  <2>1. entry[d] \in Sessions
    BY <1>17 DEF Enqueue, Held
  <2>2. pending' \in [Sessions -> SUBSET Dispatches]
    BY <1>17, <2>1 DEF Enqueue, TypeOK
  <2>3. outbound' \in [Sessions -> SUBSET Dispatches]
    BY <1>17, <2>1 DEF Enqueue, TypeOK
  <2>4. inFlight' \in [Sessions -> 0 .. Wrap - 1]
    BY <1>17, <2>1, LessInRange DEF Enqueue, TypeOK
  <2>5. QED
    BY <1>17, <2>2, <2>3, <2>4
       DEF Enqueue, TypeOK, DispatchPcs, Outcomes, row, reg, loop, sweeper
<1>18. ASSUME NEW d \in Dispatches, TimeOut(d) PROVE TypeOK'
  BY <1>18 DEF TimeOut, TypeOK, GatewayState, SessionPcs, DispatchPcs,
       Outcomes, row, reg, slots, socket, loop, sweeper
<1>19. ASSUME NEW d \in Dispatches, Release(d) PROVE TypeOK'
  BY <1>19, LessInRange
     DEF Release, TypeOK, DispatchPcs, row, reg, socket, loop, sweeper
<1>20. ASSUME SweepFind PROVE TypeOK'
  BY <1>20 DEF SweepFind, TypeOK, GatewayState, SessionPcs, DispatchPcs,
       Outcomes, row, reg, slots, socket, loop, executors
<1>21. ASSUME SweepMark PROVE TypeOK'
  BY <1>21 DEF SweepMark, TypeOK, GatewayState, SessionPcs, DispatchPcs,
       Outcomes, row, reg, slots, socket, executors
<1>22. ASSUME SweepWrite PROVE TypeOK'
  BY <1>22 DEF SweepWrite, TypeOK, GatewayState, SessionPcs, DispatchPcs,
       Outcomes, Record, reg, slots, socket, loop, executors
<1>23. ASSUME DeleteMachine PROVE TypeOK'
  BY <1>23 DEF DeleteMachine, TypeOK, GatewayState, SessionPcs, DispatchPcs,
       Outcomes, reg, slots, socket, loop, sweeper, executors
<1>24. ASSUME CloseSession PROVE TypeOK'
  BY <1>24 DEF CloseSession, TypeOK, GatewayState, SessionPcs, DispatchPcs,
       Outcomes, Notified, row, slots, socket, sweeper, executors
<1>25. ASSUME UNCHANGED <<identity, durable, registry, removed, pc, goal,
    permit, persisted, fresh, inFlight, pending, outbound, commands, results,
    sweepPc, sweepSession, dispatchPc, entry, outcome, ran>> PROVE TypeOK'
  BY <1>25 DEF TypeOK, GatewayState, SessionPcs, DispatchPcs, Outcomes
<1>26. CASE UNCHANGED vars
  BY <1>26, <1>25 DEF vars, row, reg, slots, socket, loop, sweeper, executors
<1>27. QED
  BY <1>1, <1>2, <1>3, <1>4, <1>5, <1>6, <1>7, <1>8, <1>9, <1>10, <1>11, <1>12,
       <1>13, <1>14, <1>15, <1>16, <1>17, <1>18, <1>19, <1>20, <1>21, <1>22,
       <1>23, <1>24, <1>26 DEF Next, SessionNext, DispatchNext

\* Executors and the sweeper hold what they found registered.
LEMMA StepHeld == TypeOK /\ Held /\ [Next]_vars => Held'
<1> SUFFICES ASSUME TypeOK, Held, [Next]_vars PROVE Held'
  OBVIOUS
<1>1. ASSUME NEW s \in Sessions, RouteResult(s) PROVE Held'
  BY <1>1 DEF RouteResult, TypeOK, Held, row, reg, loop, sweeper
<1>2. ASSUME NEW d \in Dispatches, Lookup(d) PROVE Held'
  BY <1>2 DEF Lookup, TypeOK, Held, row, reg, slots, socket, loop, sweeper
<1>3. ASSUME NEW d \in Dispatches, ClaimSlot(d) PROVE Held'
  BY <1>3 DEF ClaimSlot, TypeOK, Held, row, reg, socket, loop, sweeper
<1>4. ASSUME NEW d \in Dispatches, Enqueue(d) PROVE Held'
  BY <1>4 DEF Enqueue, TypeOK, Held, row, reg, loop, sweeper
<1>5. ASSUME NEW d \in Dispatches, TimeOut(d) PROVE Held'
  BY <1>5 DEF TimeOut, TypeOK, Held, row, reg, slots, socket, loop, sweeper
<1>6. ASSUME NEW d \in Dispatches, Release(d) PROVE Held'
  BY <1>6 DEF Release, TypeOK, Held, row, reg, socket, loop, sweeper
<1>7. ASSUME SweepFind PROVE Held'
  BY <1>7 DEF SweepFind, TypeOK, Held, row, reg, slots, socket, loop, executors
<1>8. ASSUME SweepMark PROVE Held'
  BY <1>8 DEF SweepMark, TypeOK, Held, row, reg, slots, socket, executors
<1>9. ASSUME SweepWrite PROVE Held'
  BY <1>9 DEF SweepWrite, TypeOK, Held, Record, reg, slots, socket, loop,
       executors
<1>10. ASSUME UNCHANGED <<dispatchPc, entry, sweepPc, sweepSession>>
    PROVE Held'
  BY <1>10 DEF TypeOK, Held
<1>11. ASSUME NEW s \in Sessions, Connect(s) \/ Negotiate(s) \/ Register(s)
    \/ Welcome(s) \/ Mark(s) \/ Write(s) \/ Heartbeat(s) \/ GoQuiet(s)
    \/ SendCommand(s) \/ TakeSupersede(s) \/ Disconnect(s) \/ Finish(s)
    \/ NodeActs(s)
      PROVE  Held'
  BY <1>11, <1>10 DEF Connect, Negotiate, Register, Welcome, Mark, Write,
       Heartbeat, GoQuiet, SendCommand, TakeSupersede, Disconnect, Finish,
       NodeActs, executors, loop, reg, row, slots, socket, sweeper
<1>12. CASE DeleteMachine \/ CloseSession
  BY <1>12, <1>10 DEF DeleteMachine, CloseSession, executors, loop, reg, row,
       slots, socket, sweeper
<1>13. CASE UNCHANGED vars
  BY <1>13, <1>10 DEF vars, row, reg, slots, socket, loop, sweeper, executors
<1>14. QED
  BY <1>1, <1>2, <1>3, <1>4, <1>5, <1>6, <1>7, <1>8, <1>9, <1>11, <1>12,
       <1>13 DEF Next, SessionNext, DispatchNext

\* The registry follows the loops through registration, takeover and end.
LEMMA StepRegistry == TypeOK /\ RegistryTracksSessions /\ [Next]_vars => RegistryTracksSessions'
<1> SUFFICES ASSUME TypeOK, RegistryTracksSessions,
    [Next]_vars PROVE RegistryTracksSessions'
  OBVIOUS
<1>1. ASSUME NEW s \in Sessions, Connect(s) PROVE RegistryTracksSessions'
  BY <1>1 DEF Connect, TypeOK, RegistryTracksSessions, Open, row, reg, slots,
       socket, sweeper, executors
<1>2. ASSUME NEW s \in Sessions, Negotiate(s) PROVE RegistryTracksSessions'
  BY <1>2 DEF Negotiate, TypeOK, RegistryTracksSessions, Open, row, reg, slots,
       socket, sweeper, executors
<1>3. ASSUME NEW s \in Sessions, Register(s) PROVE RegistryTracksSessions'
  <2>1. CASE removed
    BY <1>3, <2>1 DEF Register, TypeOK, RegistryTracksSessions, Open
  <2>2. CASE ~removed
    <3>1. pc' = [pc EXCEPT ![s] = "welcome"] /\ registry' = s /\ UNCHANGED goal
      BY <1>3, <2>2 DEF Register
    <3>2. \A p \in Sessions : ~permit'[p] => ~permit[p] /\ p # registry
      BY <1>3, <2>2, Zenon DEF Register, Notified
    <3>3. QED
      BY <3>1, <3>2 DEF TypeOK, RegistryTracksSessions, Open
  <2>3. QED
    BY <2>1, <2>2
<1>4. ASSUME NEW s \in Sessions, Welcome(s) PROVE RegistryTracksSessions'
  BY <1>4 DEF Welcome, TypeOK, RegistryTracksSessions, Open, row, reg, slots,
       socket, sweeper, executors
<1>5. ASSUME NEW s \in Sessions, Mark(s) PROVE RegistryTracksSessions'
  BY <1>5 DEF Mark, TypeOK, RegistryTracksSessions, Open, AfterPersist, row,
       reg, slots, socket, sweeper, executors
<1>6. ASSUME NEW s \in Sessions, Write(s) PROVE RegistryTracksSessions'
  BY <1>6 DEF Write, TypeOK, RegistryTracksSessions, Open, Record,
       AfterPersist, reg, slots, socket, sweeper, executors
<1>7. ASSUME NEW s \in Sessions, Heartbeat(s) PROVE RegistryTracksSessions'
  BY <1>7 DEF Heartbeat, TypeOK, RegistryTracksSessions, Open, row, reg, slots,
       socket, sweeper, executors
<1>8. ASSUME NEW s \in Sessions, TakeSupersede(s) PROVE RegistryTracksSessions'
  BY <1>8 DEF TakeSupersede, TypeOK, RegistryTracksSessions, Open, row, reg,
       slots, socket, sweeper, executors
<1>9. ASSUME NEW s \in Sessions, Disconnect(s) PROVE RegistryTracksSessions'
  BY <1>9 DEF Disconnect, TypeOK, RegistryTracksSessions, Open, row, reg,
       slots, socket, sweeper, executors
<1>10. ASSUME NEW s \in Sessions, Finish(s) PROVE RegistryTracksSessions'
  BY <1>10 DEF Finish, TypeOK, RegistryTracksSessions, Open, row, slots,
       socket, sweeper, executors
<1>11. ASSUME CloseSession PROVE RegistryTracksSessions'
  BY <1>11 DEF CloseSession, TypeOK, RegistryTracksSessions, Open, Notified,
       row, slots, socket, sweeper, executors
<1>12. ASSUME UNCHANGED <<registry, pc, goal, permit>>
    PROVE RegistryTracksSessions'
  BY <1>12 DEF TypeOK, RegistryTracksSessions, Open
<1>13. ASSUME NEW s \in Sessions, GoQuiet(s) \/ SendCommand(s)
    \/ RouteResult(s) \/ NodeActs(s)
      PROVE  RegistryTracksSessions'
  BY <1>13, <1>12 DEF GoQuiet, SendCommand, RouteResult, NodeActs, executors,
       loop, reg, row, slots, socket, sweeper
<1>14. ASSUME NEW d \in Dispatches, Lookup(d) \/ ClaimSlot(d) \/ Enqueue(d)
    \/ TimeOut(d) \/ Release(d)
      PROVE  RegistryTracksSessions'
  BY <1>14, <1>12 DEF Lookup, ClaimSlot, Enqueue, TimeOut, Release, loop, reg,
       row, slots, socket, sweeper
<1>15. CASE SweepFind \/ SweepMark \/ SweepWrite \/ DeleteMachine
  BY <1>15, <1>12 DEF SweepFind, SweepMark, SweepWrite, DeleteMachine,
       executors, loop, reg, row, slots, socket, sweeper
<1>16. CASE UNCHANGED vars
  BY <1>16, <1>12 DEF vars, row, reg, slots, socket, loop, sweeper, executors
<1>17. QED
  BY <1>1, <1>2, <1>3, <1>4, <1>5, <1>6, <1>7, <1>8, <1>9, <1>10, <1>11, <1>13,
       <1>14, <1>15, <1>16 DEF Next, SessionNext, DispatchNext

\* A tombstone keeps registrations out and the signal is not lost.
LEMMA StepRemoved == TypeOK /\ RemovedStaysOut /\ [Next]_vars => RemovedStaysOut'
<1> SUFFICES ASSUME TypeOK, RemovedStaysOut, [Next]_vars PROVE RemovedStaysOut'
  OBVIOUS
<1>1. ASSUME NEW s \in Sessions, Connect(s) PROVE RemovedStaysOut'
  BY <1>1 DEF Connect, TypeOK, RemovedStaysOut, row, reg, slots, socket,
       sweeper, executors
<1>2. ASSUME NEW s \in Sessions, Negotiate(s) PROVE RemovedStaysOut'
  BY <1>2 DEF Negotiate, TypeOK, RemovedStaysOut, row, reg, slots, socket,
       sweeper, executors
<1>3. ASSUME NEW s \in Sessions, Register(s) PROVE RemovedStaysOut'
  BY <1>3 DEF Register, TypeOK, RemovedStaysOut, Notified, row, slots, socket,
       sweeper, executors
<1>4. ASSUME NEW s \in Sessions, Welcome(s) PROVE RemovedStaysOut'
  BY <1>4 DEF Welcome, TypeOK, RemovedStaysOut, row, reg, slots, socket,
       sweeper, executors
<1>5. ASSUME NEW s \in Sessions, Mark(s) PROVE RemovedStaysOut'
  BY <1>5 DEF Mark, TypeOK, RemovedStaysOut, AfterPersist, row, reg, slots,
       socket, sweeper, executors
<1>6. ASSUME NEW s \in Sessions, Write(s) PROVE RemovedStaysOut'
  BY <1>6 DEF Write, TypeOK, RemovedStaysOut, Record, AfterPersist, reg, slots,
       socket, sweeper, executors
<1>7. ASSUME NEW s \in Sessions, Heartbeat(s) PROVE RemovedStaysOut'
  BY <1>7 DEF Heartbeat, TypeOK, RemovedStaysOut, row, reg, slots, socket,
       sweeper, executors
<1>8. ASSUME NEW s \in Sessions, TakeSupersede(s) PROVE RemovedStaysOut'
  BY <1>8 DEF TakeSupersede, TypeOK, RemovedStaysOut, row, reg, slots, socket,
       sweeper, executors
<1>9. ASSUME NEW s \in Sessions, Disconnect(s) PROVE RemovedStaysOut'
  BY <1>9 DEF Disconnect, TypeOK, RemovedStaysOut, row, reg, slots, socket,
       sweeper, executors
<1>10. ASSUME NEW s \in Sessions, Finish(s) PROVE RemovedStaysOut'
  BY <1>10 DEF Finish, TypeOK, RemovedStaysOut, row, slots, socket, sweeper,
       executors
<1>11. ASSUME CloseSession PROVE RemovedStaysOut'
  BY <1>11 DEF CloseSession, TypeOK, RemovedStaysOut, Notified, row, slots,
       socket, sweeper, executors
<1>12. ASSUME UNCHANGED <<registry, removed, pc, permit>>
    PROVE RemovedStaysOut'
  BY <1>12 DEF TypeOK, RemovedStaysOut
<1>13. ASSUME NEW s \in Sessions, GoQuiet(s) \/ SendCommand(s)
    \/ RouteResult(s) \/ NodeActs(s)
      PROVE  RemovedStaysOut'
  BY <1>13, <1>12 DEF GoQuiet, SendCommand, RouteResult, NodeActs, executors,
       loop, reg, row, slots, socket, sweeper
<1>14. ASSUME NEW d \in Dispatches, Lookup(d) \/ ClaimSlot(d) \/ Enqueue(d)
    \/ TimeOut(d) \/ Release(d)
      PROVE  RemovedStaysOut'
  BY <1>14, <1>12 DEF Lookup, ClaimSlot, Enqueue, TimeOut, Release, loop, reg,
       row, slots, socket, sweeper
<1>15. CASE SweepFind \/ SweepMark \/ SweepWrite \/ DeleteMachine
  BY <1>15, <1>12 DEF SweepFind, SweepMark, SweepWrite, DeleteMachine,
       executors, loop, reg, row, slots, socket, sweeper
<1>16. CASE UNCHANGED vars
  BY <1>16, <1>12 DEF vars, row, reg, slots, socket, loop, sweeper, executors
<1>17. QED
  BY <1>1, <1>2, <1>3, <1>4, <1>5, <1>6, <1>7, <1>8, <1>9, <1>10, <1>11, <1>13,
       <1>14, <1>15, <1>16 DEF Next, SessionNext, DispatchNext

\* Whatever writes "connected" owes the end, and pays with "offline".
LEMMA StepOwe == TypeOK /\ OweInv /\ [Next]_vars => OweInv'
<1> SUFFICES ASSUME TypeOK, OweInv, [Next]_vars PROVE OweInv'
  OBVIOUS
<1>1. ASSUME NEW s \in Sessions, Connect(s) PROVE OweInv'
  BY <1>1 DEF Connect, TypeOK, OweInv, Owes, GatewayState, row, reg, slots,
       socket, sweeper, executors
<1>2. ASSUME NEW s \in Sessions, Negotiate(s) PROVE OweInv'
  BY <1>2 DEF Negotiate, TypeOK, OweInv, Owes, GatewayState, row, reg, slots,
       socket, sweeper, executors
<1>3. ASSUME NEW s \in Sessions, Register(s) PROVE OweInv'
  BY <1>3, ZenonT(30) DEF Register, TypeOK, OweInv, Owes, GatewayState, Notified, row,
       slots, socket, sweeper, executors
<1>4. ASSUME NEW s \in Sessions, Welcome(s) PROVE OweInv'
  BY <1>4 DEF Welcome, TypeOK, OweInv, Owes, GatewayState, row, reg, slots,
       socket, sweeper, executors
<1>5. ASSUME NEW s \in Sessions, Mark(s) PROVE OweInv'
  BY <1>5 DEF Mark, TypeOK, OweInv, Owes, GatewayState, AfterPersist, row, reg,
       slots, socket, sweeper, executors
<1>6. ASSUME NEW s \in Sessions, Write(s) PROVE OweInv'
  BY <1>6 DEF Write, TypeOK, OweInv, Owes, GatewayState, Record, AfterPersist,
       reg, slots, socket, sweeper, executors
<1>7. ASSUME NEW s \in Sessions, Heartbeat(s) PROVE OweInv'
  BY <1>7 DEF Heartbeat, TypeOK, OweInv, Owes, GatewayState, row, reg, slots,
       socket, sweeper, executors
<1>8. ASSUME NEW s \in Sessions, TakeSupersede(s) PROVE OweInv'
  BY <1>8 DEF TakeSupersede, TypeOK, OweInv, Owes, GatewayState, row, reg,
       slots, socket, sweeper, executors
<1>9. ASSUME NEW s \in Sessions, Disconnect(s) PROVE OweInv'
  BY <1>9 DEF Disconnect, TypeOK, OweInv, Owes, GatewayState, row, reg, slots,
       socket, sweeper, executors
<1>10. ASSUME NEW s \in Sessions, Finish(s) PROVE OweInv'
  BY <1>10 DEF Finish, TypeOK, OweInv, Owes, GatewayState, row, slots, socket,
       sweeper, executors
<1>11. ASSUME SweepMark PROVE OweInv'
  BY <1>11 DEF SweepMark, TypeOK, OweInv, Owes, GatewayState, row, reg, slots,
       socket, executors
<1>12. ASSUME SweepWrite PROVE OweInv'
  BY <1>12 DEF SweepWrite, TypeOK, OweInv, Owes, GatewayState, Record, reg,
       slots, socket, loop, executors
<1>13. ASSUME DeleteMachine PROVE OweInv'
  BY <1>13 DEF DeleteMachine, TypeOK, OweInv, Owes, GatewayState, reg, slots,
       socket, loop, sweeper, executors
<1>14. ASSUME UNCHANGED <<identity, durable, pc, goal, persisted>>
    PROVE OweInv'
  BY <1>14 DEF TypeOK, OweInv, Owes, GatewayState
<1>15. ASSUME NEW s \in Sessions, GoQuiet(s) \/ SendCommand(s)
    \/ RouteResult(s) \/ NodeActs(s)
      PROVE  OweInv'
  BY <1>15, <1>14 DEF GoQuiet, SendCommand, RouteResult, NodeActs, executors,
       loop, reg, row, slots, socket, sweeper
<1>16. ASSUME NEW d \in Dispatches, Lookup(d) \/ ClaimSlot(d) \/ Enqueue(d)
    \/ TimeOut(d) \/ Release(d)
      PROVE  OweInv'
  BY <1>16, <1>14 DEF Lookup, ClaimSlot, Enqueue, TimeOut, Release, loop, reg,
       row, slots, socket, sweeper
<1>17. CASE SweepFind \/ CloseSession
  BY <1>17, <1>14 DEF SweepFind, CloseSession, executors, loop, reg, row,
       slots, socket, sweeper
<1>18. CASE UNCHANGED vars
  BY <1>18, <1>14 DEF vars, row, reg, slots, socket, loop, sweeper, executors
<1>19. QED
  BY <1>1, <1>2, <1>3, <1>4, <1>5, <1>6, <1>7, <1>8, <1>9, <1>10, <1>11, <1>12,
       <1>13, <1>15, <1>16, <1>17, <1>18 DEF Next, SessionNext, DispatchNext

\* Waiters and results stay with their own session and operation.
LEMMA StepAnswer == TypeOK /\ AnswerInv /\ [Next]_vars => AnswerInv'
<1> SUFFICES ASSUME TypeOK, AnswerInv, [Next]_vars PROVE AnswerInv'
  OBVIOUS
<1>1. ASSUME NEW s \in Sessions, RouteResult(s) PROVE AnswerInv'
  BY <1>1 DEF RouteResult, TypeOK, AnswerInv, AnsweredByTheNode, row, reg,
       loop, sweeper
<1>2. ASSUME NEW s \in Sessions, NodeActs(s) PROVE AnswerInv'
  BY <1>2 DEF NodeActs, TypeOK, AnswerInv, AnsweredByTheNode, row, reg, slots,
       loop, sweeper, executors
<1>3. ASSUME NEW d \in Dispatches, Lookup(d) PROVE AnswerInv'
  BY <1>3 DEF Lookup, TypeOK, AnswerInv, AnsweredByTheNode, row, reg, slots,
       socket, loop, sweeper
<1>4. ASSUME NEW d \in Dispatches, ClaimSlot(d) PROVE AnswerInv'
  BY <1>4 DEF ClaimSlot, TypeOK, AnswerInv, AnsweredByTheNode, row, reg,
       socket, loop, sweeper
<1>5. ASSUME NEW d \in Dispatches, Enqueue(d) PROVE AnswerInv'
  BY <1>5 DEF Enqueue, TypeOK, AnswerInv, AnsweredByTheNode, row, reg, loop,
       sweeper
<1>6. ASSUME NEW d \in Dispatches, TimeOut(d) PROVE AnswerInv'
  BY <1>6 DEF TimeOut, TypeOK, AnswerInv, AnsweredByTheNode, row, reg, slots,
       socket, loop, sweeper
<1>7. ASSUME NEW d \in Dispatches, Release(d) PROVE AnswerInv'
  BY <1>7 DEF Release, TypeOK, AnswerInv, AnsweredByTheNode, row, reg, socket,
       loop, sweeper
<1>8. ASSUME UNCHANGED <<results, ran, pending, entry, dispatchPc, outcome>>
    PROVE AnswerInv'
  BY <1>8 DEF TypeOK, AnswerInv, AnsweredByTheNode
<1>9. ASSUME NEW s \in Sessions, Connect(s) \/ Negotiate(s) \/ Register(s)
    \/ Welcome(s) \/ Mark(s) \/ Write(s) \/ Heartbeat(s) \/ GoQuiet(s)
    \/ SendCommand(s) \/ TakeSupersede(s) \/ Disconnect(s) \/ Finish(s)
      PROVE  AnswerInv'
  BY <1>9, <1>8 DEF Connect, Negotiate, Register, Welcome, Mark, Write,
       Heartbeat, GoQuiet, SendCommand, TakeSupersede, Disconnect, Finish,
       executors, loop, reg, row, slots, socket, sweeper
<1>10. CASE SweepFind \/ SweepMark \/ SweepWrite \/ DeleteMachine
    \/ CloseSession
  BY <1>10, <1>8 DEF SweepFind, SweepMark, SweepWrite, DeleteMachine,
       CloseSession, executors, loop, reg, row, slots, socket, sweeper
<1>11. CASE UNCHANGED vars
  BY <1>11, <1>8 DEF vars, row, reg, slots, socket, loop, sweeper, executors
<1>12. QED
  BY <1>1, <1>2, <1>3, <1>4, <1>5, <1>6, <1>7, <1>9, <1>10, <1>11 DEF Next,
       SessionNext, DispatchNext

\* The initial state satisfies the invariant.
LEMMA InitIInv == Init => IInv
<1> SUFFICES ASSUME Init PROVE IInv
  OBVIOUS
<1>1. TypeOK
  <2>1. inFlight \in [Sessions -> 0 .. Wrap - 1]
    BY NodeGatewayAssumption DEF Init
  <2>2. permit \in [Sessions -> BOOLEAN] /\ fresh \in [Sessions -> BOOLEAN]
    BY Zenon DEF Init
  <2>3. pending \in [Sessions -> SUBSET Dispatches]
        /\ outbound \in [Sessions -> SUBSET Dispatches]
        /\ commands \in [Sessions -> SUBSET Dispatches]
        /\ results \in [Sessions -> SUBSET Dispatches]
    BY DEF Init
  <2>4. QED
    BY <2>1, <2>2, <2>3
       DEF Init, TypeOK, GatewayState, SessionPcs, DispatchPcs, Outcomes
<1>2. Held /\ RegistryTracksSessions /\ RemovedStaysOut
  BY NodeGatewayAssumption
     DEF Init, Held, RegistryTracksSessions, RemovedStaysOut, Open
<1>3. OweInv /\ AnswerInv
  BY DEF Init, OweInv, AnswerInv, AnsweredByTheNode
<1>4. QED
  BY <1>1, <1>2, <1>3 DEF IInv

\* The invariant is inductive.
THEOREM Inductive == Spec => []IInv
<1>1. IInv /\ [Next]_vars => IInv'
  BY StepTypeOK, StepHeld, StepRegistry, StepRemoved, StepOwe, StepAnswer
     DEF IInv
<1>2. QED
  BY <1>1, InitIInv, PTL DEF Spec

\* Every variable of the gateway keeps its range; the unsigned in-flight counter
\* does so although it wraps.
THEOREM TypeCorrect == Spec => []TypeOK
BY Inductive, PTL DEF IInv

\* `Registry::insert` and `remove_if_current`: an open session that was not told
\* to end is the registered one, whatever older loops finish meanwhile.
THEOREM RegistryIsCurrent == Spec => []RegistryTracksSessions
BY Inductive, PTL DEF IInv

\* `close_session`: the tombstone of a removed machine holds against every
\* connection that passed its checks before the removal.
THEOREM RemovalIsFinal == Spec => []RemovedStaysOut
BY Inductive, PTL DEF IInv

\* `finish_session` and `persist_transition`: once all sessions have ended the
\* store does not show the node connected.
THEOREM NoGhost == Spec => []NoGhostConnected
<1>1. IInv => NoGhostConnected
  BY DEF IInv, OweInv, Owes, NoGhostConnected
<1>2. QED
  BY <1>1, Inductive, PTL

\* Routing by operation id: a dispatch answered with a result was acted on by the
\* node on the session it was sent on.
THEOREM AnswersAreOwn == Spec => []AnsweredByTheNode
BY Inductive, PTL DEF IInv, AnswerInv
=============================================================================
