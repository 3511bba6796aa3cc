--------------------------- MODULE MCActionBroker ---------------------------
(***************************************************************************)
(* Three small worlds: "Decisions", in which one request is decided while  *)
(* time passes and the broker restarts, "Quota", in which two requests     *)
(* race for one place at one moment of one boot, under the policy that     *)
(* runs requests unasked and nobody decides in person, and "Recovers", the *)
(* only one that owes progress: one request, one call at a time, and time  *)
(* enough for what a lost decision leaves to be found again.               *)
(***************************************************************************)
EXTENDS ActionBrokerProps

CONSTANTS r1, r2, c1

VARIABLE world    \* constant: the world of this behaviour

Bounds ==
    /\ world # "Quota" =>
         \A c \in Calls : call'[c].pc # "idle" => call'[c].req = r1
    /\ world = "Decisions" => now' <= 1
    /\ world = "Quota" =>
         /\ now' = 0 /\ boot' = 1
         /\ \A c \in Calls :
              call'[c].pc # "idle" => call'[c].what \in {"create", "read"}
    /\ world = "Recovers" => \A c \in Calls \ {c1} : call'[c].pc = "idle"

MCInit ==
    /\ Init /\ world \in {"Decisions", "Quota", "Recovers"}
    /\ world = "Quota" => policy = "auto"
MCNext == Next /\ Bounds /\ UNCHANGED world

Recovering(A) == world = "Recovers" /\ A /\ Bounds /\ UNCHANGED world

RecoveryFairness ==
    /\ WF_<<vars, world>>(Recovering(Tick))
    /\ WF_<<vars, world>>(Recovering(CallStep(c1)))
    /\ SF_<<vars, world>>(Recovering(Open(c1)))
    /\ SF_<<vars, world>>(Recovering(Reads(r1)))

MCSpec == MCInit /\ [][MCNext]_<<vars, world>> /\ RecoveryFairness

\* In the world that owes progress, a stranded approval recovers.
Recovery == world = "Recovers" => StrandedApprovalRecovers
=============================================================================
