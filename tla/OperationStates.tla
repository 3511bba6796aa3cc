------------------------- MODULE OperationStates -------------------------
(***************************************************************************)
(* The states of a durable operation and the legal moves between them:     *)
(* fleet-core's pure domain rules, which every adapter asks before it      *)
(* writes a state.                                                         *)
(***************************************************************************)

(* The enum's eight variants, by the strings storage keeps. *)
OperationState == {"pending", "running", "cancelling", "succeeded", "failed",
                   "cancelled", "timed_out", "blocked_manual_approval"}

(* The states `is_terminal` answers true for. *)
Terminal == {"succeeded", "failed", "cancelled", "timed_out",
             "blocked_manual_approval"}

(* The states of an operation some executor may be working on. *)
Live == {"running", "cancelling"}

(* The states each state may move to; a terminal state may move nowhere. *)
Successors == [s \in OperationState |->
    CASE s = "pending"    -> {"running", "cancelled", "timed_out"}
      [] s = "running"    -> {"succeeded", "failed", "cancelling", "timed_out",
                              "blocked_manual_approval"}
      [] s = "cancelling" -> {"cancelled", "succeeded", "failed",
                              "blocked_manual_approval"}
      [] OTHER            -> {}]

CanTransition(from, to) == to \in Successors[from]
=============================================================================
