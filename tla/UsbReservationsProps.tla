------------------------ MODULE UsbReservationsProps ------------------------
(***************************************************************************)
(* What the reservation of a device promises while three parties move it.  *)
(***************************************************************************)
EXTENDS UsbReservations

\* Every variable has its type.
TypeOK ==
    /\ lease \in [Leases -> LeaseStates]
    /\ row \in [Leases -> [st : RowStates, slot : Slots \cup {NoSlot}]]
    /\ usb \in [Leases -> SUBSET Entries]
    /\ alive \in [Leases -> BOOLEAN]
    /\ proc \in [Leases -> [Parties -> Locals]]
    /\ asked \in [Leases -> SUBSET Requests]
    /\ faults \in 0 .. MaxFaults
    /\ wrote \in [Leases -> {"nothing", "sent", "left"}]

Fleets(l) == {e \in usb[l] : e.by = "fleet"}

\* "Never release on a guess": an entry that Fleet wrote is behind a row that
\* says so, from before the write until a read of the guest shows it gone,
\* whichever of the writer, the cleanup and the reconciler moved the row last.
\* The exceptions are a writer that is about to record or to undo its write,
\* and the entries that the code gives up (hardware_attach_unrecorded).
EntryAccounted ==
    \A l \in Leases : Fleets(l) # {} =>
        \/ row[l].st \in Live \ {"held"}
        \/ Unrecorded(l)
        \/ wrote[l] = "left"

\* A row that says attached is right: the guest runs with Fleet's entry in the
\* recorded slot.  No stale move of another party puts a row back to attached,
\* and nobody deletes the entry, or destroys the guest, under an attached row.
AttachedIsThere ==
    \A l \in Leases : row[l].st = "attached" =>
        [slot |-> row[l].slot, by |-> "fleet", view |-> "applied"] \in usb[l]

\* The device changes hands only when it is off the guest it was on: while one
\* lease has it attached, another guest shows no entry but one that its writer
\* is undoing, or gave up.
OnePlace ==
    \A l, m \in Leases :
        l # m /\ row[l].st = "attached" /\ Fleets(m) # {} =>
            Unrecorded(m) \/ wrote[m] = "left"

\* "Only what Fleet may have written is ever deleted" (lab_hardware.rs:32): no
\* delete takes an entry off a guest to which Fleet never sent a write.  It
\* does not hold: release_failed moves the row of an attach that wrote nothing
\* to detaching with its slot, which the next party takes for a proof.
OnlyOwnDeleted ==
    [][\A l \in Leases : wrote[l] = "nothing" /\ alive'[l] =>
         \A e \in usb[l] :
             \E f \in usb'[l] : f.slot = e.slot /\ f.view # "leaving"]_vars

\* A reservation that outlived its lease and that reading the guest resolves:
\* nothing is there, or one entry in the recorded slot.
Unresolved(l) ==
    /\ row[l].st \in Live /\ Ended(l) /\ alive[l]
    /\ Refs(l) \subseteq {row[l].slot}
    /\ \A e \in usb[l] : e.view = "applied"

\* The reconciler releases it: no such row stays for ever, whatever a failed
\* cleanup, a failed detach, a lost answer or a restart left behind.
Resolves == []<>(\A l \in Leases : ~Unresolved(l))
=============================================================================
