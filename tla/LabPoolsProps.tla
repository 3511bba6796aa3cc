---------------------------- MODULE LabPoolsProps ----------------------------
(***************************************************************************)
(* What a pool promises to the leases that take its members.               *)
(***************************************************************************)
EXTENDS LabPools, LabLeasesProps

\* A member that becomes available has been rolled back since its last lease
\* used it, or since it was registered: no rollback that failed, that an
\* earlier member at the VMID ran or that is still running is taken for it.
\* The start of a saga whose lease no longer awaits it is known to come after
\* the rollback (README, section 12).
ReturnedReverted ==
    [][\A v \in Vmids :
          /\ member[v].state # "available" /\ member'[v].state = "available"
          /\ member[v].lease \notin overtaken'
          => "used" \notin dirt[v]]_allVars

\* A member and its lease let go of each other together: no released lease
\* holds a member, and a ready one holds the member its record names.
HeldTogether ==
    /\ \A v \in Vmids, l \in Leases \ overtaken : member[v].lease = l =>
           lease[l].state # "released" /\ record[l].vmid = v
    /\ \A l \in pooled \ overtaken : lease[l].state = "ready" =>
           \E v \in Vmids : member[v].lease = l /\ member[v].state = "leased"
=============================================================================
