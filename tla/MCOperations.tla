---------------------------- MODULE MCOperations ----------------------------
(***************************************************************************)
(* Two small worlds of the queue: "Races", in which one operation meets    *)
(* deadlines, expiring leases, panics and everyone who writes its row, and *)
(* "Host", in which two operations compete for the one permit of a host    *)
(* that drains and restarts while no time passes.                          *)
(***************************************************************************)
EXTENDS OperationsProps

VARIABLE world    \* constant: the world of this behaviour

Bounds ==
    /\ world = "Races" => state'[2] = "absent"
    /\ world = "Host" =>
         /\ now' = 0 /\ \A o \in Ops : deadlineAt'[o] = NoDeadline
         /\ ~ \E o \in Ops : ExecutorPanic(o)

MCInit == Init /\ world \in {"Races", "Host"}
MCNext == Next /\ Bounds /\ UNCHANGED world
MCSpec == MCInit /\ [][MCNext]_<<vars, world>>
=============================================================================
