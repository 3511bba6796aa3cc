-------------------------- MODULE NodeGatewayProps --------------------------
(***************************************************************************)
(* What the gateway keeps.                                                 *)
(***************************************************************************)
EXTENDS NodeGateway

\* Every variable stays in its range.
TypeOK ==
    /\ identity \in {"active", "deleted"}
    /\ durable \in GatewayState \cup {"gone"}
    /\ registry \in Sessions \cup {NoSession} /\ removed \in BOOLEAN
    /\ pc \in [Sessions -> SessionPcs]
    /\ goal \in [Sessions -> {"connected", "offline"}]
    /\ permit \in [Sessions -> BOOLEAN]
    /\ persisted \in [Sessions -> GatewayState]
    /\ fresh \in [Sessions -> BOOLEAN]
    /\ inFlight \in [Sessions -> 0 .. Wrap - 1]
    /\ pending \in [Sessions -> SUBSET Dispatches]
    /\ outbound \in [Sessions -> SUBSET Dispatches]
    /\ commands \in [Sessions -> SUBSET Dispatches]
    /\ results \in [Sessions -> SUBSET Dispatches]
    /\ sweepPc \in {"tick", "mark", "write"}
    /\ sweepSession \in Sessions \cup {NoSession}
    /\ dispatchPc \in [Dispatches -> DispatchPcs]
    /\ entry \in [Dispatches -> Sessions \cup {NoSession}]
    /\ outcome \in [Dispatches -> Outcomes]
    /\ ran \subseteq Sessions \X Dispatches

\* "A reconnecting node always wins without wedging the registry": an open
\* session that nothing told to end is the registered one, whatever older loops
\* finish in the meantime, and what is registered has not finished.
RegistryTracksSessions ==
    /\ \A s \in Sessions : Open(s) /\ ~permit[s] => registry = s
    /\ registry # NoSession => Open(registry) \/ pc[registry] = "finish"

\* A node whose sessions have all ended is not stored as connected, however the
\* ends, the starts and the sweeper's writes fell.
NoGhostConnected ==
    (\A s \in Sessions : pc[s] \in {"idle", "hello", "insert", "done"})
        => durable # "connected"

\* A removed machine's session was told to end, and no later one is registered.
RemovedStaysOut ==
    removed /\ registry # NoSession
        => permit[registry] \/ pc[registry] = "finish"

\* Results are routed by operation id: a dispatch answered with one was acted on
\* by the node, on the very session it was sent on, although others time out,
\* leave their waiters behind and are answered late.
AnsweredByTheNode ==
    \A d \in Dispatches : outcome[d] = "ok" => <<entry[d], d>> \in ran

\* A session told to end, by a takeover or a removal, ends, although the node may
\* send heartbeats for ever: in the long run none is left told and alive.
ToldToEndEnds == <>[](\A s \in Sessions : permit[s] => pc[s] = "done")

\* Every dispatch ends, whatever happens to its session, its slot or its result:
\* in the long run none is under way.
DispatchEnds ==
    <>[](\A d \in Dispatches : dispatchPc[d] \in {"idle", "done"})
=============================================================================
