-------------------------- MODULE MCUsbReservations --------------------------
(***************************************************************************)
(* Two small worlds.  "Disturbed" has one lease, whose calls fail, whose   *)
(* guest an operator touches, who asks for hotplugs, and whose             *)
(* controller restarts.  "Handover" has a second lease that reserves the   *)
(* device after the first and keeps it, undisturbed and in one slot.       *)
(***************************************************************************)
EXTENDS UsbReservationsProps

CONSTANTS l1, l2

VARIABLE world    \* constant: the world of this behaviour

mvars == <<vars, world>>

MCLeases == {l1, l2}
MCSlots == {0, 1}

MCInit == Init /\ world \in {"Disturbed", "Handover"}

Bounds ==
    /\ world = "Disturbed" =>
         row'[l2] = row[l2] /\ lease'[l2] = lease[l2] /\ usb'[l2] = usb[l2]
    /\ world = "Handover" =>
         /\ faults' = 0 /\ asked' = asked
         /\ row'[l1].slot # 1 /\ row'[l2].slot # 1
         /\ lease'[l2] # "releasing"
         /\ \A l \in MCLeases : \A e \in usb'[l] : e.slot = 0

MCNext == Next /\ Bounds /\ UNCHANGED world

Here(action) == action /\ Bounds /\ UNCHANGED world

\* The tasks run on, and the reconciler's passes come back; nothing makes a
\* cleanup attempt start or succeed.
MCSpec ==
    /\ MCInit /\ [][MCNext]_mvars
    /\ WF_mvars(Here(\E l \in Leases : Writing(l)))
    /\ WF_mvars(Here(\E l \in Leases : Reconciling(l)))
=============================================================================
