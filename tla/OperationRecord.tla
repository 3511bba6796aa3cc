--------------------------- MODULE OperationRecord ---------------------------
(***************************************************************************)
(* What a caller of the operation queue may rely on, whatever races: a row *)
(* is accepted, claimed at most once, executed at most once and only after *)
(* its claim, and resolved. A cancellation request is never forgotten. The *)
(* one thing the store does not keep is that a resolved row stays so: a    *)
(* requested cancellation may bring it back to life.                       *)
(***************************************************************************)
EXTENDS Naturals

CONSTANT Ops

VARIABLES phase, claimed, runs, asked

vars == <<phase, claimed, runs, asked>>

Init ==
    /\ phase = [o \in Ops |-> "absent"]
    /\ claimed = {}
    /\ runs = [o \in Ops |-> 0]
    /\ asked = [o \in Ops |-> FALSE]

Move(o, p) == phase' = [phase EXCEPT ![o] = p]

Accept(o) ==
    /\ phase[o] = "absent" /\ Move(o, "queued")
    /\ UNCHANGED <<claimed, runs, asked>>

\* An operation claimed by id starts in the same step.
Claim(o) ==
    /\ phase[o] = "queued" /\ o \notin claimed /\ Move(o, "live")
    /\ claimed' = claimed \cup {o}
    /\ runs' \in {runs, [runs EXCEPT ![o] = 1]}
    /\ UNCHANGED asked

Run(o) ==
    /\ o \in claimed /\ runs[o] = 0
    /\ runs' = [runs EXCEPT ![o] = 1]
    /\ UNCHANGED <<phase, claimed, asked>>

Resolve(o) ==
    /\ phase[o] \in {"queued", "live"} /\ Move(o, "over")
    /\ UNCHANGED <<claimed, runs, asked>>

Ask(o) ==
    /\ phase[o] # "absent"
    /\ asked' = [asked EXCEPT ![o] = TRUE]
    /\ UNCHANGED <<phase, claimed, runs>>

Revive(o) ==
    /\ phase[o] = "over" /\ o \in claimed /\ asked[o] /\ Move(o, "live")
    /\ UNCHANGED <<claimed, runs, asked>>

Next == \E o \in Ops : Accept(o) \/ Claim(o) \/ Run(o) \/ Resolve(o) \/ Ask(o) \/ Revive(o)

Spec == Init /\ [][Next]_vars
=============================================================================
