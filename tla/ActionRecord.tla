---------------------------- MODULE ActionRecord ----------------------------
(***************************************************************************)
(* What a requester and an approver may rely on, whatever races: a request *)
(* is decided once, nothing is done for it before it is approved, a        *)
(* refused one is never acted on, and it runs only over the one operation  *)
(* opened for it.                                                          *)
(***************************************************************************)
CONSTANTS Requests, Deciders, NoOne

VARIABLES stage, decider, opened

vars == <<stage, decider, opened>>

Init ==
    /\ stage = [r \in Requests |-> "absent"]
    /\ decider = [r \in Requests |-> NoOne]
    /\ opened = {}

Move(r, s) == stage' = [stage EXCEPT ![r] = s]
DecidedBy(r, d) == decider' = [decider EXCEPT ![r] = d]

Ask(r) ==
    /\ stage[r] = "absent"
    /\ \/ Move(r, "waiting") /\ UNCHANGED decider
       \/ Move(r, "approved") /\ \E d \in Deciders : DecidedBy(r, d)
    /\ UNCHANGED opened

Decide(r) ==
    /\ stage[r] = "waiting"
    /\ \E s \in {"approved", "refused"}, d \in Deciders : Move(r, s) /\ DecidedBy(r, d)
    /\ UNCHANGED opened

\* A slow start may still open its operation after its request was failed.
Open(r) ==
    /\ stage[r] \in {"approved", "failed"} /\ r \notin opened
    /\ opened' = opened \cup {r}
    /\ UNCHANGED <<stage, decider>>

Run(r) ==
    /\ stage[r] = "approved" /\ r \in opened /\ Move(r, "running")
    /\ UNCHANGED <<decider, opened>>

Finish(r) ==
    /\ \/ stage[r] = "running" /\ Move(r, "done")
       \/ stage[r] \in {"approved", "running"} /\ Move(r, "failed")
    /\ UNCHANGED <<decider, opened>>

Next == \E r \in Requests : Ask(r) \/ Decide(r) \/ Open(r) \/ Run(r) \/ Finish(r)

Spec == Init /\ [][Next]_vars
=============================================================================
