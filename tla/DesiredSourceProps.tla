-------------------------- MODULE DesiredSourceProps --------------------------
(***************************************************************************)
(* What the desired source promises to its operators.                      *)
(***************************************************************************)
EXTENDS DesiredSource

FetchRows == [state : InFlight \cup {"none", "succeeded", "failed"},
              commit : Commits \cup {None}]
WorkRows == [pc : WorkPcs, op : Fetches \cup {None},
             commit : Commits \cup {None}, expected : Commits \cup {None}]

\* Every variable stays in its range, and only valid revisions are recorded.
TypeOK ==
    /\ head \in Commits /\ history \in Seq(Valid)
    /\ active \in Commits \cup {None}
    /\ auto \in BOOLEAN /\ hold \in BOOLEAN
    /\ fetch \in [Fetches -> FetchRows]
    /\ work \in WorkRows
    /\ roll \in [pc : {"idle", "hold", "switch"}, commit : Commits \cup {None}]
    /\ poller \in [pc : {"tick", "resolve"}, last : Fetches \cup {None}]
    /\ faults \in 0 .. MaxFaults
    /\ rolledBack \in BOOLEAN /\ overlapped \in BOOLEAN

AutoActivates == work.pc = "cas" /\ active' # active /\ work'.pc = "free"

\* "Never move backwards": the controller by itself replaces the revision that
\* is active at that moment, and only by a descendant that changes nothing but
\* the Registry, although it compared in several reads and rollbacks and
\* settings are not serialized with it.
AutoMovesForward ==
    [][AutoActivates =>
          auto /\ <<active, active'>> \in Descends \cap RegistryFiles]_vars

\* After a rollback the controller leaves the active revision alone until a
\* person activates one, whatever is fetched and however the controller is
\* restarted, unless a manual activation was between its switch and the
\* release of the hold while the rollback set it.
RollbackHolds == [][AutoActivates => ~rolledBack \/ overlapped]_vars

-----------------------------------------------------------------------------
(* The tokio mutex over the worktrees is first come, first served, and the *)
(* poller is not unlucky for ever: it meets a moment without a fetch when  *)
(* there are such moments again and again.                                 *)

Fairness ==
    /\ SF_vars(Poll)
    /\ WF_vars(Working) /\ \A f \in Fetches : SF_vars(FetchStart(f))

LiveSpec == Spec /\ Fairness

\* A valid head that stays is recorded in the end, over failed calls, restarts
\* and the fetches of others, unless those leave no moment between them.
PollerCatchesUp ==
    <>[][head' = head]_head /\ []<>NoneInFlight =>
        <>[](head \in Valid => Contains(history, head))
=============================================================================
