---------------------------- MODULE NodeGateway ----------------------------
(***************************************************************************)
(* The controller's node gateway, for one machine (the registry is a map   *)
(* per machine and nothing in it crosses machines): the loops that serve   *)
(* the node's sessions, the registry that holds at most one of them, the   *)
(* gateway state persisted beside the node's identity, the staleness       *)
(* sweeper, the executors that dispatch commands and wait for results, and *)
(* the removal of the machine.                                             *)
(*                                                                         *)
(* Each of them is a task of its own. One action is what a task does under *)
(* one lock, or one statement: `persist_transition` compares and moves the *)
(* session's own note of what is stored and writes the row in a later      *)
(* statement, so it is a mark and a write.                                 *)
(***************************************************************************)
EXTENDS Integers, FiniteSets

CONSTANTS
    Sessions,       \* bound: connections the node ever opens
    Dispatches,     \* bound: operations dispatched to it, one command each
    MaxInFlight,    \* MAX_IN_FLIGHT_COMMANDS
    Wrap,           \* the unsigned counter's range: 2^32 in the code
    NoSession,      \* the registry holds nothing
    CanRemove       \* does an operator remove the machine

ASSUME NodeGatewayAssumption ==
    /\ NoSession \notin Sessions
    /\ MaxInFlight \in Nat \ {0} /\ Wrap \in Nat /\ Wrap > MaxInFlight
    /\ CanRemove \in BOOLEAN

VARIABLES
    \* The node's identity row and the gateway state beside it.
    identity, durable,
    \* The registry: the machine's session, and its tombstone.
    registry, removed,
    \* Per session: where its loop is, the state persist_transition is asked
    \* for, and the entry (supersede permit, persisted_state, last_seen as
    \* fresh or not, in_flight, pending, the outbound channel).
    pc, goal, permit, persisted, fresh, inFlight, pending, outbound,
    \* The socket: commands on their way to the node, results on their way back.
    commands, results,
    \* The sweeper: the session it looks at, and how far it is with it.
    sweepPc, sweepSession,
    \* Per dispatch: where its executor is, the entry it holds, how it ended.
    dispatchPc, entry, outcome,
    \* History: commands the node acted on, with the connection they came on.
    ran

row == <<identity, durable>>
reg == <<registry, removed>>
slots == <<inFlight, pending>>
socket == <<outbound, commands, results>>
loop == <<pc, goal, permit, persisted, fresh>>
sweeper == <<sweepPc, sweepSession>>
executors == <<dispatchPc, entry, outcome>>
vars == <<row, reg, slots, socket, loop, sweeper, executors, ran>>

GatewayState == {"connected", "stale", "offline"}
SessionPcs == {"idle", "hello", "insert", "welcome", "loop", "mark", "write",
               "finish", "done"}
DispatchPcs == {"idle", "claim", "send", "wait", "release", "done"}
Outcomes == {"none", "ok", "offline", "backpressure", "disconnected", "timeout"}

\* The loop runs and reads: the session is open.
Open(s) == pc[s] \in {"welcome", "loop"} \/ (pc[s] \in {"mark", "write"}
                                               /\ goal[s] = "connected")

\* A connection or a dispatch that never comes is over from the start.
Init ==
    /\ identity = "active" /\ durable = "offline"
    /\ registry = NoSession /\ removed = FALSE
    /\ pc \in [Sessions -> {"idle", "done"}]
    /\ goal = [s \in Sessions |-> "offline"]
    /\ permit = [s \in Sessions |-> FALSE]
    /\ persisted = [s \in Sessions |-> "offline"]
    /\ fresh = [s \in Sessions |-> TRUE]
    /\ inFlight = [s \in Sessions |-> 0]
    /\ pending = [s \in Sessions |-> {}]
    /\ outbound = [s \in Sessions |-> {}]
    /\ commands = [s \in Sessions |-> {}]
    /\ results = [s \in Sessions |-> {}]
    /\ sweepPc = "tick" /\ sweepSession = NoSession
    /\ dispatchPc \in [Dispatches -> {"idle", "done"}]
    /\ entry = [d \in Dispatches |-> NoSession]
    /\ outcome = [d \in Dispatches |-> "none"]
    /\ ran = {}

-----------------------------------------------------------------------------
(* A session: admission, the loop, its end. *)

\* `connect`: the upgrade is accepted for a valid session only.
Connect(s) ==
    /\ pc[s] = "idle"
    /\ identity # "deleted"
    /\ pc' = [pc EXCEPT ![s] = "hello"]
    /\ UNCHANGED <<row, reg, slots, socket, goal, permit, persisted, fresh,
                   sweeper, executors, ran>>

\* The Hello is negotiated and the session is validated once more, before it is
\* registered; a failure of either leaves any older session untouched.
Negotiate(s) ==
    /\ pc[s] = "hello"
    /\ \/ identity = "active" /\ pc' = [pc EXCEPT ![s] = "insert"]
       \/ pc' = [pc EXCEPT ![s] = "done"]
    /\ UNCHANGED <<row, reg, slots, socket, goal, permit, persisted, fresh,
                   sweeper, executors, ran>>

\* `notify_one` on the registered session, if there is one.
Notified == [p \in Sessions |-> IF p = registry THEN TRUE ELSE permit[p]]

\* Mutant: registration ignores the tombstone a removal left.
RegisterAnyway(s) ==
    /\ pc[s] = "insert"
    /\ pc' = [pc EXCEPT ![s] = "welcome"]
    /\ registry' = s
    /\ permit' = Notified
    /\ UNCHANGED <<row, removed, slots, socket, goal, persisted, fresh, sweeper,
                   executors, ran>>

\* `Registry::insert`: the tombstone and the map under their locks; the session
\* it replaces gets its supersede permit.
Register(s) ==
    /\ pc[s] = "insert"
    /\ \/ /\ removed
          /\ pc' = [pc EXCEPT ![s] = "done"]
          /\ UNCHANGED <<registry, permit>>
       \/ /\ ~removed
          /\ pc' = [pc EXCEPT ![s] = "welcome"]
          /\ registry' = s
          /\ permit' = Notified
    /\ UNCHANGED <<row, removed, slots, socket, goal, persisted, fresh, sweeper,
                   executors, ran>>

\* The Welcome is sent, or the socket is already dead.
Welcome(s) ==
    /\ pc[s] = "welcome"
    /\ \/ /\ pc' = [pc EXCEPT ![s] = "mark"]
          /\ goal' = [goal EXCEPT ![s] = "connected"]
       \/ /\ pc' = [pc EXCEPT ![s] = "finish"]
          /\ UNCHANGED goal
    /\ UNCHANGED <<row, reg, slots, socket, permit, persisted, fresh, sweeper,
                   executors, ran>>

AfterPersist(s) == IF goal[s] = "offline" THEN "done" ELSE "loop"

\* `persist_transition`, first half: nothing to do when the session believes the
\* state is stored; otherwise it believes so from here on.
Mark(s) ==
    /\ pc[s] = "mark"
    /\ IF persisted[s] = goal[s]
       THEN /\ pc' = [pc EXCEPT ![s] = AfterPersist(s)]
            /\ UNCHANGED persisted
       ELSE /\ pc' = [pc EXCEPT ![s] = "write"]
            /\ persisted' = [persisted EXCEPT ![s] = goal[s]]
    /\ UNCHANGED <<row, reg, slots, socket, goal, permit, fresh, sweeper,
                   executors, ran>>

\* `record_gateway_state`: by machine id alone; a deleted identity has no row.
Record(state) ==
    durable' = IF identity = "deleted" THEN durable ELSE state

\* `persist_transition`, second half.
Write(s) ==
    /\ pc[s] = "write"
    /\ Record(goal[s])
    /\ pc' = [pc EXCEPT ![s] = AfterPersist(s)]
    /\ UNCHANGED <<identity, reg, slots, socket, goal, permit, persisted, fresh,
                   sweeper, executors, ran>>

\* A heartbeat: the arrival is noted, and the state is connected again.
Heartbeat(s) ==
    /\ pc[s] = "loop"
    /\ fresh' = [fresh EXCEPT ![s] = TRUE]
    /\ pc' = [pc EXCEPT ![s] = "mark"]
    /\ goal' = [goal EXCEPT ![s] = "connected"]
    /\ UNCHANGED <<row, reg, slots, socket, permit, persisted, sweeper,
                   executors, ran>>

\* Two heartbeat intervals pass without one; only a registered session's matter.
GoQuiet(s) ==
    /\ registry = s /\ fresh[s]
    /\ fresh' = [fresh EXCEPT ![s] = FALSE]
    /\ UNCHANGED <<row, reg, slots, socket, pc, goal, permit, persisted, sweeper,
                   executors, ran>>

\* A dispatched command leaves for the node; on a dead socket it is lost.
SendCommand(s) ==
    /\ pc[s] = "loop"
    /\ \E d \in outbound[s] :
          /\ outbound' = [outbound EXCEPT ![s] = @ \ {d}]
          /\ \/ commands' = [commands EXCEPT ![s] = @ \cup {d}]
             \/ UNCHANGED commands
    /\ UNCHANGED <<row, reg, slots, results, loop, sweeper, executors, ran>>

\* Mutant: a result goes to whichever dispatch waits on the session.
RouteToAnyone(s) ==
    /\ pc[s] = "loop"
    /\ \E r \in results[s] : \E d \in pending[s] :
          /\ results' = [results EXCEPT ![s] = @ \ {r}]
          /\ pending' = [pending EXCEPT ![s] = @ \ {d}]
          /\ dispatchPc[d] = "wait"
          /\ dispatchPc' = [dispatchPc EXCEPT ![d] = "release"]
          /\ outcome' = [outcome EXCEPT ![d] = "ok"]
    /\ UNCHANGED <<row, reg, inFlight, outbound, commands, loop, sweeper, entry,
                   ran>>

\* A result is routed to the dispatch that waits under its operation id; without
\* a waiter it is dropped. A dispatch that timed out no longer listens.
RouteResult(s) ==
    /\ pc[s] = "loop"
    /\ \E d \in results[s] :
          /\ results' = [results EXCEPT ![s] = @ \ {d}]
          /\ pending' = [pending EXCEPT ![s] = @ \ {d}]
          /\ IF d \in pending[s] /\ dispatchPc[d] = "wait"
             THEN /\ dispatchPc' = [dispatchPc EXCEPT ![d] = "release"]
                  /\ outcome' = [outcome EXCEPT ![d] = "ok"]
             ELSE UNCHANGED <<dispatchPc, outcome>>
    /\ UNCHANGED <<row, reg, inFlight, outbound, commands, loop, sweeper, entry,
                   ran>>

\* Mutant: only a session that was replaced heeds the signal.
TakeSupersedeReplaced(s) ==
    /\ pc[s] = "loop" /\ permit[s] /\ registry # s
    /\ permit' = [permit EXCEPT ![s] = FALSE]
    /\ pc' = [pc EXCEPT ![s] = "finish"]
    /\ UNCHANGED <<row, reg, slots, socket, goal, persisted, fresh, sweeper,
                   executors, ran>>

\* The loop takes its supersede permit: it faults the node and finishes.
TakeSupersede(s) ==
    /\ pc[s] = "loop" /\ permit[s]
    /\ permit' = [permit EXCEPT ![s] = FALSE]
    /\ pc' = [pc EXCEPT ![s] = "finish"]
    /\ UNCHANGED <<row, reg, slots, socket, goal, persisted, fresh, sweeper,
                   executors, ran>>

\* The socket closes or breaks, from whichever side.
Disconnect(s) ==
    /\ pc[s] = "loop"
    /\ pc' = [pc EXCEPT ![s] = "finish"]
    /\ UNCHANGED <<row, reg, slots, socket, goal, permit, persisted, fresh,
                   sweeper, executors, ran>>

\* Mutant: the machine's entry is removed whoever is registered.
FinishWhoever(s) ==
    /\ pc[s] = "finish"
    /\ registry' = NoSession
    /\ fresh' = [fresh EXCEPT ![s] = TRUE]
    /\ goal' = [goal EXCEPT ![s] = "offline"]
    /\ pc' = [pc EXCEPT ![s] = "mark"]
    /\ UNCHANGED <<row, removed, slots, socket, permit, persisted, sweeper,
                   executors, ran>>

\* Mutant: the session ends without settling the stored state.
FinishUnsettled(s) ==
    /\ pc[s] = "finish"
    /\ registry' = IF registry = s THEN NoSession ELSE registry
    /\ pc' = [pc EXCEPT ![s] = "done"]
    /\ UNCHANGED <<row, removed, slots, socket, goal, permit, persisted, fresh,
                   sweeper, executors, ran>>

\* `finish_session`: a superseded loop must not remove its replacement.
Finish(s) ==
    /\ pc[s] = "finish"
    /\ registry' = IF registry = s THEN NoSession ELSE registry
    /\ fresh' = [fresh EXCEPT ![s] = TRUE]
    /\ goal' = [goal EXCEPT ![s] = "offline"]
    /\ pc' = [pc EXCEPT ![s] = "mark"]
    /\ UNCHANGED <<row, removed, slots, socket, permit, persisted, sweeper,
                   executors, ran>>

-----------------------------------------------------------------------------
(* The staleness sweeper. *)

\* A tick copies the registry and finds a session quiet for too long.
SweepFind ==
    /\ sweepPc = "tick" /\ registry # NoSession
    /\ ~fresh[registry]
    /\ sweepSession' = registry
    /\ sweepPc' = "mark"
    /\ UNCHANGED <<row, reg, slots, socket, loop, executors, ran>>

SweepMark ==
    /\ sweepPc = "mark"
    /\ IF persisted[sweepSession] = "stale"
       THEN sweepPc' = "tick" /\ UNCHANGED persisted
       ELSE /\ sweepPc' = "write"
            /\ persisted' = [persisted EXCEPT ![sweepSession] = "stale"]
    /\ UNCHANGED <<row, reg, slots, socket, pc, goal, permit, fresh,
                   sweepSession, executors, ran>>

SweepWrite ==
    /\ sweepPc = "write"
    /\ Record("stale")
    /\ sweepPc' = "tick"
    /\ UNCHANGED <<identity, reg, slots, socket, loop, sweepSession, executors,
                   ran>>

-----------------------------------------------------------------------------
(* Dispatching a command: `dispatch` inside the executor, then `release`. *)

\* `session_of`: the executor holds the entry it found from here on.
Lookup(d) ==
    /\ dispatchPc[d] = "idle"
    /\ entry' = [entry EXCEPT ![d] = registry]
    /\ IF registry = NoSession
       THEN /\ dispatchPc' = [dispatchPc EXCEPT ![d] = "release"]
            /\ outcome' = [outcome EXCEPT ![d] = "offline"]
       ELSE /\ dispatchPc' = [dispatchPc EXCEPT ![d] = "claim"]
            /\ UNCHANGED outcome
    /\ UNCHANGED <<row, reg, slots, socket, loop, sweeper, ran>>

\* The flow-control gate.
ClaimSlot(d) ==
    /\ dispatchPc[d] = "claim"
    /\ IF inFlight[entry[d]] < MaxInFlight
       THEN /\ inFlight' = [inFlight EXCEPT ![entry[d]] = @ + 1]
            /\ dispatchPc' = [dispatchPc EXCEPT ![d] = "send"]
            /\ UNCHANGED outcome
       ELSE /\ dispatchPc' = [dispatchPc EXCEPT ![d] = "release"]
            /\ outcome' = [outcome EXCEPT ![d] = "backpressure"]
            /\ UNCHANGED inFlight
    /\ UNCHANGED <<row, reg, pending, socket, loop, sweeper, entry, ran>>

\* Mutant: the counter is signed.
LessPlain(n) == n - 1

\* `fetch_sub` on an unsigned counter.
Less(n) == (n + Wrap - 1) % Wrap

\* The waiter is put under its operation id and the frame into the channel. The
\* channel is closed once the loop is gone; the code then removes the waiter
\* under the machine's id, which no waiter has.
Enqueue(d) ==
    /\ dispatchPc[d] = "send"
    /\ LET s == entry[d]
       IN  /\ pending' = [pending EXCEPT ![s] = @ \cup {d}]
           /\ IF pc[s] # "done"
              THEN /\ outbound' = [outbound EXCEPT ![s] = @ \cup {d}]
                   /\ dispatchPc' = [dispatchPc EXCEPT ![d] = "wait"]
                   /\ UNCHANGED <<inFlight, outcome>>
              ELSE /\ inFlight' = [inFlight EXCEPT ![s] = Less(@)]
                   /\ dispatchPc' = [dispatchPc EXCEPT ![d] = "release"]
                   /\ outcome' = [outcome EXCEPT ![d] = "disconnected"]
                   /\ UNCHANGED outbound
    /\ UNCHANGED <<row, reg, commands, results, loop, sweeper, entry, ran>>

\* Mutant: only a registered session's dispatch is timed; the end of a session is
\* left to the waiter it drops.
TimeOutRegistered(d) ==
    /\ dispatchPc[d] = "wait" /\ registry = entry[d]
    /\ dispatchPc' = [dispatchPc EXCEPT ![d] = "release"]
    /\ outcome' = [outcome EXCEPT ![d] = "timeout"]
    /\ UNCHANGED <<row, reg, slots, socket, loop, sweeper, entry, ran>>

\* The deadline passes; the executor drops the dispatch, the waiter stays.
TimeOut(d) ==
    /\ dispatchPc[d] = "wait"
    /\ dispatchPc' = [dispatchPc EXCEPT ![d] = "release"]
    /\ outcome' = [outcome EXCEPT ![d] = "timeout"]
    /\ UNCHANGED <<row, reg, slots, socket, loop, sweeper, entry, ran>>

\* `release`, after every outcome, on whatever session is registered by now.
Release(d) ==
    /\ dispatchPc[d] = "release"
    /\ dispatchPc' = [dispatchPc EXCEPT ![d] = "done"]
    /\ inFlight' = [s \in Sessions |->
                      IF s = registry THEN Less(inFlight[s]) ELSE inFlight[s]]
    /\ UNCHANGED <<row, reg, pending, socket, loop, sweeper, entry, outcome, ran>>

-----------------------------------------------------------------------------
(* The node (external), and the removal of the machine. *)

\* The node acts on a command it received on this connection.
NodeActs(s) ==
    /\ \E d \in commands[s] :
          /\ commands' = [commands EXCEPT ![s] = @ \ {d}]
          /\ results' = [results EXCEPT ![s] = @ \cup {d}]
          /\ ran' = ran \cup {<<s, d>>}
    /\ UNCHANGED <<row, reg, slots, outbound, loop, sweeper, executors>>

\* Removal of the machine: the guarded delete takes the identity along ...
DeleteMachine ==
    /\ CanRemove /\ identity # "deleted"
    /\ identity' = "deleted"
    /\ durable' = "gone"
    /\ UNCHANGED <<reg, slots, socket, loop, sweeper, executors, ran>>

\* ... and later `close_session` leaves the tombstone and signals the loop.
CloseSession ==
    /\ identity = "deleted" /\ ~removed
    /\ removed' = TRUE
    /\ permit' = Notified
    /\ UNCHANGED <<row, registry, slots, socket, pc, goal, persisted, fresh,
                   sweeper, executors, ran>>

-----------------------------------------------------------------------------

SessionNext(s) ==
    \/ Connect(s) \/ Negotiate(s) \/ Register(s) \/ Welcome(s)
    \/ Mark(s) \/ Write(s) \/ Heartbeat(s) \/ GoQuiet(s) \/ SendCommand(s)
    \/ RouteResult(s) \/ TakeSupersede(s) \/ Disconnect(s) \/ Finish(s)
    \/ NodeActs(s)

DispatchNext(d) ==
    \/ Lookup(d) \/ ClaimSlot(d) \/ Enqueue(d) \/ TimeOut(d) \/ Release(d)

Next ==
    \/ \E s \in Sessions : SessionNext(s)
    \/ \E d \in Dispatches : DispatchNext(d)
    \/ SweepFind \/ SweepMark \/ SweepWrite
    \/ DeleteMachine \/ CloseSession

Spec == Init /\ [][Next]_vars

\* tokio polls what is ready, `select!` picks among its ready arms at random (so
\* an arm that keeps being ready is taken), timers fire, a removal that deleted
\* the machine goes on to close its session.
Fairness ==
    /\ \A s \in Sessions :
          /\ WF_vars(\/ Negotiate(s) \/ Register(s) \/ Welcome(s)
                     \/ Mark(s) \/ Write(s) \/ Finish(s))
          /\ SF_vars(TakeSupersede(s))
    /\ \A d \in Dispatches :
          WF_vars(ClaimSlot(d) \/ Enqueue(d) \/ TimeOut(d) \/ Release(d))
    /\ WF_vars(CloseSession)

FairSpec == Spec /\ Fairness
=============================================================================
