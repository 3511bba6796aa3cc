--------------------------- MODULE UsbReservations ---------------------------
(***************************************************************************)
(* One physical USB device, reserved by leases one after the other and     *)
(* written into their guests.  Three parties move a lease's reservation    *)
(* row, none holding a lock the others take: the writer (the provision's   *)
(* attach, then the holder's hotplug requests, which a lock per device     *)
(* serialises), the lease's cleanup, and the reconciler's pass.  Each move *)
(* is a compare-and-set on the row's state; what they read of the guest    *)
(* and what they write to it are steps of their own.                       *)
(*                                                                         *)
(* The device, the lease and its guest are one name each, and an entry is  *)
(* what a guest's two configuration views show of this device in one slot; *)
(* a digest-conditional write is one step with the read it is conditional  *)
(* on and with its read-back.  The lease's own life is reduced to what     *)
(* these parties ask of it (LabLeases has the rest); the budget of cleanup *)
(* attempts, the reconciler's clock and the audit sink are choices.        *)
(***************************************************************************)
EXTENDS Naturals, FiniteSets

CONSTANTS Leases,     \* each with a guest, and a reservation of the device
          Slots,      \* the guests' usbN slots
          NoSlot,
          MaxAsked,   \* bound: hotplug requests that wait at once
          MaxFaults   \* bound: failed or unanswered calls, restarts, and
                      \* entries an operator writes by hand

ASSUME UsbAssumption ==
    /\ Slots # {} /\ NoSlot \notin Slots
    /\ MaxAsked \in Nat /\ MaxFaults \in Nat

VARIABLES
    lease,    \* the lease's state
    row,      \* hardware_reservations: state and recorded slot
    usb,      \* the entries of the guest that name the device
    alive,    \* the guest exists
    proc,     \* what the three parties are doing for the lease
    asked,    \* hotplug requests that found the lease ready
    faults,   \* failures so far
    wrote     \* Fleet's writes: "nothing", "sent", or an entry was "left"

vars == <<lease, row, usb, alive, proc, asked, faults, wrote>>

-----------------------------------------------------------------------------
(* States.                                                                 *)

LeaseStates == {"provisioning", "ready", "failed", "releasing", "released",
                "cleanup_failed"}

\* The legal moves of a reservation.
Successors ==
    [ none |-> {"held"}, held |-> {"attaching", "released"},
      attaching |-> {"attached", "held", "detaching", "attach_unknown"},
      attached |-> {"detaching"}, detach_failed |-> {"detaching"},
      detaching |-> {"held", "released", "detach_failed"},
      attach_unknown |-> {"attached", "detaching"}, released |-> {} ]
RowStates == DOMAIN Successors
Live == RowStates \ {"none", "released"}

\* An entry is applied, waits for the guest's restart, or waits to be removed
\* by it.
Entries == [slot : Slots, by : {"fleet", "operator"},
            view : {"applied", "adding", "leaving"}]

Parties == {"writer", "cleaner", "pass"}
Pcs == {"idle", "read", "unproven", "clear", "move", "put", "confirm", "finish",
        "fail", "look", "claim", "count", "write", "record", "recount", "undo",
        "unwritten", "unsure", "back", "unknown", "giveup", "free", "reread",
        "resync", "destroy", "delete", "settle", "bare", "letgo", "failed",
        "view"}
Kinds == {"provision", "resumed", "hotplug", "first", "again", "pass"}
Idle == [pc |-> "idle", st |-> "none", slot |-> NoSlot, own |-> FALSE,
         keep |-> FALSE, kind |-> "pass"]
Locals == [pc : Pcs, st : RowStates, slot : Slots \cup {NoSlot},
           own : BOOLEAN, keep : BOOLEAN, kind : Kinds]
Requests == {"attach", "detach", "give"}

Init ==
    /\ lease = [l \in Leases |-> "provisioning"]
    /\ row = [l \in Leases |-> [st |-> "none", slot |-> NoSlot]]
    /\ usb = [l \in Leases |-> {}]
    /\ alive = [l \in Leases |-> TRUE]
    /\ proc = [l \in Leases |-> [p \in Parties |-> Idle]]
    /\ asked = [l \in Leases |-> {}]
    /\ faults = 0
    /\ wrote = [l \in Leases |-> "nothing"]

-----------------------------------------------------------------------------
(* The store, the guest, and the program counters.                         *)

Refs(l) == {e.slot : e \in usb[l]}
Cas(l, from, to) == row[l].st = from /\ to \in Successors[from]

\* transition_reservation: a return to held clears the slot.
Moved(l, to, slot) ==
    [row EXCEPT ![l] = [st |-> to,
                        slot |-> IF to = "held" THEN NoSlot ELSE slot]]

HoldsNothing(l) == row[l].st = "held" /\ row[l].slot = NoSlot
Releasable(l) == HoldsNothing(l) \/ row[l].st = "detaching"
Released(l) == row[l].st = "released"

\* The lease counts for an attach; the reconciler takes over when it ended.
Counts(l) == lease[l] \in {"provisioning", "ready"}
Ended(l) == lease[l] \in {"released", "cleanup_failed"}

Fault == faults < MaxFaults /\ faults' = faults + 1
NoFault == UNCHANGED faults

Become(l, p, r) == proc' = [proc EXCEPT ![l][p] = r]
Go(l, p, pc) == Become(l, p, [proc[l][p] EXCEPT !.pc = pc])

\* A party is done, well or badly.
After(l, p, ok) ==
    [Idle EXCEPT !.pc =
        IF p = "cleaner" THEN IF ok THEN "destroy" ELSE "failed"
        ELSE IF proc[l][p].kind \in {"provision", "resumed"}
        THEN "giveup" ELSE "idle"]
Done(l, p, ok) == Become(l, p, After(l, p, ok))

\* Another writer moved the row: cleanup looks once more, the others stop.
Lost(l, p) ==
    IF p = "cleaner" /\ proc[l][p].kind = "first" THEN Go(l, p, "resync")
    ELSE Done(l, p, FALSE)

\* The writer wrote an entry, or may have, and did not record it yet.
Unrecorded(l) ==
    LET r == proc[l]["writer"] IN
    \/ r.pc \in {"record", "undo", "unknown"}
    \/ r.st = "attaching" /\ r.pc \in {"read", "move", "fail"}

LeavesIf(l, gone) ==
    wrote' = IF gone THEN [wrote EXCEPT ![l] = "left"] ELSE wrote

\* A writer that loses the row before its attach was recorded leaves what it
\* wrote.
LeftBy(l, p, to) ==
    LeavesIf(l, /\ p = "writer" /\ proc[l][p].st = "attaching" /\ Refs(l) # {}
                /\ ~Cas(l, "attaching", to))

\* A failure of the guest, or of the call to it.
Unreadable(l) == \/ ~alive[l] /\ NoFault
                 \/ alive[l] /\ Fault
Readable(l) == alive[l] /\ NoFault

-----------------------------------------------------------------------------
(* detach_reservation: from a row as it was read, to released or held.     *)

\* An attached row is trusted for its slot; any other is looked up.
Detach(st, slot, proven, keep, kind) ==
    [ pc |-> IF st # "attached" THEN "read"
             ELSE IF slot = NoSlot THEN "fail" ELSE "move",
      st |-> st, slot |-> slot, own |-> proven /\ slot # NoSlot,
      keep |-> keep, kind |-> kind ]

ReadBeforeDetach(l, p) ==
    LET r == proc[l][p] IN
    /\ r.pc = "read"
    /\ \/ /\ Readable(l)
          /\ \/ Refs(l) = {} /\ Go(l, p, IF r.st = "held" THEN "finish"
                                         ELSE "clear")
             \/ Refs(l) # {} /\ r.st = "held" /\ Done(l, p, FALSE)
             \/ Refs(l) # {} /\ r.st # "held" /\ ~r.own
                /\ Go(l, p, "unproven")
             \/ r.own /\ \E s \in Slots : Refs(l) = {s}
                    /\ Become(l, p, [r EXCEPT !.pc = "move", !.slot = s])
             \/ r.own /\ Cardinality(Refs(l)) > 1 /\ Go(l, p, "fail")
       \/ Unreadable(l)
          /\ IF r.st = "held" THEN Done(l, p, FALSE) ELSE Go(l, p, "fail")
    /\ UNCHANGED <<lease, row, usb, alive, asked, wrote>>

\* Nothing proves the entry Fleet's: unknown without a slot, never deleted.
Unproven(l, p) ==
    LET r == proc[l][p] IN
    /\ r.pc = "unproven"
    /\ \/ /\ r.st = "attaching" /\ Cas(l, "attaching", "attach_unknown")
          /\ row' = Moved(l, "attach_unknown", NoSlot) /\ Done(l, p, FALSE)
       \/ /\ r.st = "attaching" /\ ~Cas(l, "attaching", "attach_unknown")
          /\ Lost(l, p) /\ UNCHANGED row
       \/ r.st # "attaching" /\ Done(l, p, FALSE) /\ UNCHANGED row
    /\ UNCHANGED <<lease, usb, alive, asked, faults, wrote>>

\* What the row records once the guest was seen without the device: the saga
\* keeps the slot, the reconciler clears it.
ClearedSlot(l, p) == IF p = "pass" THEN NoSlot ELSE row[l].slot

\* The row says that it is being detached, before the write or the release.
StartDetach(l, p) ==
    LET r == proc[l][p]
        slot == IF r.pc = "clear" THEN ClearedSlot(l, p) ELSE r.slot
        next == IF r.pc = "clear" THEN "finish" ELSE "put"
    IN
    /\ r.pc \in {"clear", "move"}
    /\ \/ r.st = "detaching" /\ Go(l, p, next) /\ UNCHANGED row
       \/ /\ r.st # "detaching" /\ Cas(l, r.st, "detaching")
          /\ row' = Moved(l, "detaching", slot)
          /\ Become(l, p, [r EXCEPT !.pc = next, !.st = "detaching"])
       \/ /\ r.st # "detaching" /\ ~Cas(l, r.st, "detaching")
          /\ Lost(l, p) /\ UNCHANGED row
    /\ LeftBy(l, p, "detaching") /\ UNCHANGED <<lease, usb, alive, asked, faults>>

\* qemu_usb_detach of a slot that holds the exact value: gone at once, or with
\* the guest's restart.
Deleted(l, s) ==
    LET there == {e \in usb[l] : e.slot = s}
    IN  {usb[l] \ there}
        \cup {(usb[l] \ there) \cup {[e EXCEPT !.view = "leaving"]} :
                e \in {e \in there : e.view = "applied"}}

Pending(l, s) == \E e \in usb[l] : e.slot = s /\ e.view = "leaving"

PutDelete(l, p) ==
    LET r == proc[l][p] IN
    /\ r.pc = "put"
    /\ \/ /\ Readable(l) /\ ~Pending(l, r.slot)
          /\ \E gone \in Deleted(l, r.slot) :
               /\ usb' = [usb EXCEPT ![l] = gone]
               /\ IF r.slot \in {e.slot : e \in gone} THEN Done(l, p, FALSE)
                  ELSE Go(l, p, "confirm")
       \/ /\ Readable(l) /\ Pending(l, r.slot)
          /\ Done(l, p, FALSE) /\ UNCHANGED usb
       \/ \* refused, or the answer is lost
          /\ Unreadable(l) /\ Go(l, p, "fail")
          /\ \E gone \in Deleted(l, r.slot) \cup {usb[l]} :
               usb' = [usb EXCEPT ![l] = gone]
    /\ UNCHANGED <<lease, row, alive, asked, wrote>>

\* Every slot is read once more.
Confirm(l, p) ==
    /\ proc[l][p].pc = "confirm"
    /\ \/ Readable(l) /\ Refs(l) = {} /\ Go(l, p, "finish")
       \/ Readable(l) /\ Refs(l) # {} /\ Go(l, p, "fail")
       \/ Unreadable(l) /\ Go(l, p, "fail")
    /\ UNCHANGED <<lease, row, usb, alive, asked, wrote>>

\* finish_detached.  A release takes any row that holds nothing or is being
\* detached; a row somebody else released is fine.
Finish(l, p) ==
    LET keep == proc[l][p].keep IN
    /\ proc[l][p].pc = "finish"
    /\ \/ /\ IF keep THEN Cas(l, "detaching", "held") ELSE Releasable(l)
          /\ row' = Moved(l, IF keep THEN "held" ELSE "released", row[l].slot)
          /\ Done(l, p, TRUE)
       \/ Released(l) /\ Done(l, p, TRUE) /\ UNCHANGED row
       \/ /\ ~Released(l)
          /\ ~(IF keep THEN Cas(l, "detaching", "held") ELSE Releasable(l))
          /\ Lost(l, p) /\ UNCHANGED row
    /\ UNCHANGED <<lease, usb, alive, asked, faults, wrote>>

\* detach_failed: what the row becomes, from the state it was last seen in.
Failing == [ detaching |-> "detach_failed", attaching |-> "attach_unknown",
             attached |-> "detaching", attach_unknown |-> "detaching" ]

FailDetach(l, p) ==
    LET r == proc[l][p]
        to == Failing[r.st]
    IN
    /\ r.pc = "fail"
    /\ \/ r.st = "detach_failed" /\ Done(l, p, FALSE) /\ UNCHANGED row
       \/ /\ r.st # "detach_failed" /\ Cas(l, r.st, to)
          /\ row' = Moved(l, to, IF to = "attach_unknown" THEN NoSlot
                                 ELSE row[l].slot)
          /\ IF to = "detaching" THEN Become(l, p, [r EXCEPT !.st = to])
             ELSE Done(l, p, FALSE)
       \/ r.st # "detach_failed" /\ ~Cas(l, r.st, to) /\ Lost(l, p)
          /\ UNCHANGED row
    /\ LeftBy(l, p, "attach_unknown")
    /\ UNCHANGED <<lease, usb, alive, asked, faults>>

-----------------------------------------------------------------------------
(* The writer: attach_held, and the requests that reach it.                *)

\* attach_for_lease, also of an attach that a restart interrupted.
StartProvision(l) ==
    /\ lease[l] = "provisioning" /\ proc[l]["writer"] = Idle
    /\ row[l].st \in {"held", "attaching"}
    /\ Become(l, "writer",
              [Idle EXCEPT !.pc = "look", !.st = row[l].st, !.slot = row[l].slot,
               !.kind = IF row[l].st = "held" THEN "provision" ELSE "resumed"])
    /\ UNCHANGED <<lease, row, usb, alive, asked, faults, wrote>>

\* A row that went further is for the cleanup: the provision fails.
RefuseProvision(l) ==
    /\ lease[l] = "provisioning" /\ proc[l]["writer"] = Idle
    /\ row[l].st \in Live \ {"held", "attaching", "attached"}
    /\ Become(l, "writer", [Idle EXCEPT !.pc = "giveup"])
    /\ UNCHANGED <<lease, row, usb, alive, asked, faults, wrote>>

\* A hotplug request waits for the device's lock once the lease was ready.
Ask(l, what) ==
    /\ lease[l] = "ready" /\ what \notin asked[l]
    /\ Cardinality(asked[l]) < MaxAsked
    /\ asked' = [asked EXCEPT ![l] = @ \cup {what}]
    /\ UNCHANGED <<lease, row, usb, alive, proc, faults, wrote>>

Serve(l, what) ==
    LET st == row[l].st IN
    /\ what \in asked[l] /\ proc[l]["writer"] = Idle
    /\ asked' = [asked EXCEPT ![l] = @ \ {what}]
    /\ \/ /\ what = "attach" /\ st = "held"
          /\ Become(l, "writer", [Idle EXCEPT !.pc = "look", !.st = st,
                                  !.keep = TRUE, !.kind = "hotplug"])
       \/ /\ what # "attach" /\ st \in {"attached", "detaching", "detach_failed"}
          /\ Become(l, "writer", Detach(st, row[l].slot, TRUE,
                                        what = "detach", "hotplug"))
       \/ /\ what = "give" /\ st = "held"
          /\ Become(l, "writer", Detach(st, NoSlot, FALSE, FALSE, "hotplug"))
       \/ /\ ~(what = "attach" /\ st = "held") /\ ~(what = "give" /\ st = "held")
          /\ ~(what # "attach" /\ st \in {"attached", "detaching",
                                          "detach_failed"})
          /\ UNCHANGED proc
    /\ UNCHANGED <<lease, row, usb, alive, faults, wrote>>

\* Verify: nobody else's guest and not this one references the device.  An
\* interrupted attach meets its own, or an operator's, entry instead.
Look(l) ==
    LET r == proc[l]["writer"] IN
    /\ r.pc = "look"
    /\ \/ /\ Readable(l) /\ \A m \in Leases : Refs(m) = {}
          /\ Go(l, "writer", IF r.kind = "resumed" THEN "count" ELSE "claim")
       \/ /\ Readable(l) /\ Refs(l) # {} /\ r.kind = "resumed"
          /\ \A m \in Leases \ {l} : Refs(m) = {}
          /\ Become(l, "writer", [r EXCEPT !.pc = "unknown", !.slot = NoSlot])
       \/ /\ Readable(l) /\ Refs(l) # {} /\ r.kind # "resumed"
          /\ Done(l, "writer", FALSE)
       \/ /\ Readable(l) /\ \E m \in Leases \ {l} : Refs(m) # {}
          /\ Done(l, "writer", FALSE)
       \/ Unreadable(l) /\ Done(l, "writer", FALSE)
    /\ UNCHANGED <<lease, row, usb, alive, asked, wrote>>

\* The row records the slot it is about to use.
ClaimAttach(l) ==
    /\ proc[l]["writer"].pc = "claim"
    /\ \/ /\ Cas(l, "held", "attaching")
          /\ \E s \in Slots :
               /\ row' = Moved(l, "attaching", s)
               /\ Become(l, "writer", [proc[l]["writer"] EXCEPT !.pc = "count",
                                       !.st = "attaching", !.slot = s])
       \/ /\ ~Cas(l, "held", "attaching")
          /\ Done(l, "writer", FALSE) /\ UNCHANGED row
    /\ UNCHANGED <<lease, usb, alive, asked, faults, wrote>>

\* After a fresh attach an entry is somebody else's, after a resumed one it
\* may be either's.
Unwritten(l) ==
    IF proc[l]["writer"].kind = "resumed" THEN "unsure" ELSE "unwritten"

CountBeforeWrite(l) ==
    /\ proc[l]["writer"].pc = "count"
    /\ \/ Counts(l) /\ Go(l, "writer", "write")
       \/ /\ ~Counts(l)
          /\ Become(l, "writer", [proc[l]["writer"] EXCEPT !.keep = FALSE,
                                  !.pc = Unwritten(l)])
    /\ UNCHANGED <<lease, row, usb, alive, asked, faults, wrote>>

Added(l, s, view) ==
    [usb EXCEPT ![l] = @ \cup {[slot |-> s, by |-> "fleet", view |-> view]}]

\* Mutant: an entry that only waits is recorded as attached.
PendingCounts(l) ==
    /\ Refs(l) = {} /\ alive[l] /\ NoFault
    /\ wrote' = [wrote EXCEPT ![l] = IF @ = "left" THEN @ ELSE "sent"]
    /\ \E s \in Slots, view \in {"applied", "adding"} :
         /\ usb' = Added(l, s, view)
         /\ Become(l, "writer", [proc[l]["writer"] EXCEPT !.pc = "record",
                                                         !.slot = s])

Sends(l) ==
    LET r == proc[l]["writer"]
        At(pc, s) == Become(l, "writer", [r EXCEPT !.pc = pc, !.slot = s])
    IN
    /\ Refs(l) = {} /\ alive[l]
    /\ wrote' = [wrote EXCEPT ![l] = IF @ = "left" THEN @ ELSE "sent"]
    /\ \/ \* written and read back: an entry that only waits is removed
          /\ NoFault
          /\ \E s \in Slots :
               \/ usb' = Added(l, s, "applied") /\ At("record", s)
               \/ /\ usb' = Added(l, s, "adding")
                  /\ Become(l, "writer", Detach("attaching", r.slot, TRUE,
                                                r.keep, r.kind))
       \/ \* the guest refused the device and the entry was taken back
          Fault /\ Go(l, "writer", "unsure") /\ UNCHANGED usb
       \/ \* no answer, or the entry stayed
          /\ Fault
          /\ \E s \in Slots :
               /\ usb' \in {usb, Added(l, s, "applied"), Added(l, s, "adding")}
               /\ At("unknown", s)

\* Unchanged, because an entry is there already, or a refusal.
SendsNothing(l) ==
    /\ (Readable(l) /\ Refs(l) # {}) \/ Unreadable(l)
    /\ Go(l, "writer", Unwritten(l))
    /\ UNCHANGED <<usb, wrote>>

\* qemu_usb_attach, its answer and what attach_held makes of it.
Write(l) ==
    LET r == proc[l]["writer"] IN
    /\ r.pc = "write"
    /\ Sends(l) \/ SendsNothing(l)
    /\ UNCHANGED <<lease, row, alive, asked>>

\* Mutant: a write that could not be recorded is only reported.
ReportUnrecorded(l) ==
    LET r == proc[l]["writer"] IN
    /\ r.pc = "record"
    /\ \/ /\ Cas(l, "attaching", "attached")
          /\ row' = Moved(l, "attached", r.slot)
          /\ Become(l, "writer", [r EXCEPT !.pc = "recount", !.st = "attached"])
       \/ /\ ~Cas(l, "attaching", "attached")
          /\ Done(l, "writer", FALSE) /\ UNCHANGED row
    /\ UNCHANGED <<lease, usb, alive, asked, faults, wrote>>

RecordAttached(l) ==
    LET r == proc[l]["writer"] IN
    /\ r.pc = "record"
    /\ \/ /\ Cas(l, "attaching", "attached")
          /\ row' = Moved(l, "attached", r.slot)
          /\ Become(l, "writer", [r EXCEPT !.pc = "recount", !.st = "attached"])
       \/ /\ ~Cas(l, "attaching", "attached")
          /\ Go(l, "writer", "undo") /\ UNCHANGED row
    /\ UNCHANGED <<lease, usb, alive, asked, faults, wrote>>

\* The lease may have ended during the write.
CountAfterWrite(l) ==
    LET r == proc[l]["writer"] IN
    /\ r.pc = "recount"
    /\ Become(l, "writer", IF Counts(l) THEN Idle
                           ELSE Detach("attached", r.slot, TRUE, FALSE, r.kind))
    /\ UNCHANGED <<lease, row, usb, alive, asked, faults, wrote>>

\* Mutant: the undo deletes at the slot that the row recorded.
UndoRecordedSlot(l) ==
    /\ proc[l]["writer"].pc = "undo" /\ Done(l, "writer", FALSE)
    /\ \E gone \in Deleted(l, row[l].slot) :
         usb' = [usb EXCEPT ![l] = IF alive[l] THEN gone ELSE @]
    /\ UNCHANGED <<lease, row, alive, asked, faults, wrote>>

\* undo_unrecorded_write.
Undo(l) ==
    LET s == proc[l]["writer"].slot IN
    /\ proc[l]["writer"].pc = "undo"
    /\ \/ /\ Readable(l) /\ \E gone \in Deleted(l, s) :
               /\ usb' = [usb EXCEPT ![l] = gone]
               /\ LeavesIf(l, s \in {e.slot : e \in gone})
       \/ Unreadable(l) /\ LeavesIf(l, TRUE) /\ UNCHANGED usb
    /\ Done(l, "writer", FALSE)
    /\ UNCHANGED <<lease, row, alive, asked>>

\* fail_unwritten.
FailUnwritten(l) ==
    LET pc == proc[l]["writer"].pc
        Unknown == Become(l, "writer", [proc[l]["writer"] EXCEPT !.pc = "unknown",
                                        !.slot = NoSlot])
    IN
    /\ pc \in {"unwritten", "unsure"}
    /\ \/ /\ Readable(l) /\ (Refs(l) = {} \/ pc = "unwritten")
          /\ Go(l, "writer", "back")
       \/ Readable(l) /\ Refs(l) # {} /\ pc = "unsure" /\ Unknown
       \/ Unreadable(l) /\ Unknown
    /\ UNCHANGED <<lease, row, usb, alive, asked, wrote>>

\* release_failed, up to finish_detached.
Back(l) ==
    /\ proc[l]["writer"].pc = "back"
    /\ \/ /\ Cas(l, "attaching", "detaching")
          /\ row' = Moved(l, "detaching", row[l].slot)
          /\ Become(l, "writer", [proc[l]["writer"] EXCEPT !.pc = "finish",
                                  !.st = "detaching"])
       \/ /\ ~Cas(l, "attaching", "detaching")
          /\ Done(l, "writer", FALSE) /\ UNCHANGED row
    /\ UNCHANGED <<lease, usb, alive, asked, faults, wrote>>

\* leave_unknown; an entry whose row is gone is given up here.
LeaveUnknown(l, p) ==
    LET r == proc[l][p] IN
    /\ r.pc = "unknown" /\ Done(l, p, FALSE)
    /\ \/ /\ Cas(l, "attaching", "attach_unknown")
          /\ row' = Moved(l, "attach_unknown", r.slot) /\ UNCHANGED wrote
       \/ /\ ~Cas(l, "attaching", "attach_unknown") /\ UNCHANGED row
          /\ LeavesIf(l, r.slot # NoSlot)
    /\ UNCHANGED <<lease, usb, alive, asked, faults>>

GiveUp(l) ==
    /\ proc[l]["writer"].pc = "giveup"
    /\ lease' = [lease EXCEPT ![l] = IF @ = "provisioning" THEN "failed" ELSE @]
    /\ Become(l, "writer", Idle)
    /\ UNCHANGED <<row, usb, alive, asked, faults, wrote>>

-----------------------------------------------------------------------------
(* The lease's cleanup: detach_for_lease, then the guest's fate.           *)

\* Cleanup goes on from the row as it reads it now.
DetachRow(l, kind) ==
    Become(l, "cleaner",
           Detach(row[l].st, row[l].slot, row[l].st # "attaching", FALSE, kind))

CleanStart(l) ==
    /\ lease[l] = "releasing" /\ proc[l]["cleaner"] = Idle
    /\ \/ row[l].st \in {"none", "released"} /\ Go(l, "cleaner", "destroy")
       \/ HoldsNothing(l) /\ Go(l, "cleaner", "free")
       \/ row[l].st \in Live /\ ~HoldsNothing(l) /\ DetachRow(l, "first")
    /\ UNCHANGED <<lease, row, usb, alive, asked, faults, wrote>>

\* claim_unattached: who moves the row first wins.
Free(l) ==
    /\ proc[l]["cleaner"].pc = "free"
    /\ \/ /\ Releasable(l) /\ Go(l, "cleaner", "destroy")
          /\ row' = Moved(l, "released", row[l].slot)
       \/ Released(l) /\ Go(l, "cleaner", "destroy") /\ UNCHANGED row
       \/ /\ ~Releasable(l) /\ ~Released(l)
          /\ Go(l, "cleaner", "reread") /\ UNCHANGED row
    /\ UNCHANGED <<lease, usb, alive, asked, faults, wrote>>

Reread(l) ==
    /\ proc[l]["cleaner"].pc = "reread"
    /\ \/ Released(l) /\ Go(l, "cleaner", "destroy")
       \/ HoldsNothing(l) /\ Go(l, "cleaner", "free")
       \/ ~Released(l) /\ ~HoldsNothing(l) /\ DetachRow(l, "first")
    /\ UNCHANGED <<lease, row, usb, alive, asked, faults, wrote>>

\* resync_detach: a row that is held again counts as detached.
Resync(l) ==
    /\ proc[l]["cleaner"].pc = "resync"
    /\ Released(l) \/ HoldsNothing(l)
    /\ Go(l, "cleaner", "destroy")
    /\ UNCHANGED <<lease, row, usb, alive, asked, faults, wrote>>

ResyncDetach(l) ==
    /\ proc[l]["cleaner"].pc = "resync" /\ ~Released(l) /\ ~HoldsNothing(l)
    /\ DetachRow(l, "again")
    /\ UNCHANGED <<lease, row, usb, alive, asked, faults, wrote>>

\* refuse_held_hardware looks a last time; or the lease's guest is kept.
Decide(l) ==
    /\ proc[l]["cleaner"].pc = "destroy"
    /\ \/ /\ alive[l] /\ row[l].st \in Live \ {"held"}
          /\ Go(l, "cleaner", "failed")
       \/ /\ row[l].st \notin Live \ {"held"} /\ Go(l, "cleaner", "delete")
       \/ Go(l, "cleaner", "settle")
    /\ UNCHANGED <<lease, row, usb, alive, asked, faults, wrote>>

Delete(l) ==
    /\ proc[l]["cleaner"].pc = "delete" /\ Go(l, "cleaner", "settle")
    /\ alive' = [alive EXCEPT ![l] = FALSE]
    /\ usb' = [usb EXCEPT ![l] = {}]
    /\ UNCHANGED <<lease, row, asked, faults, wrote>>

Settle(l) ==
    /\ proc[l]["cleaner"].pc = "settle" /\ Go(l, "cleaner", "bare")
    /\ lease' = [lease EXCEPT ![l] = "released"]
    /\ UNCHANGED <<row, usb, alive, asked, faults, wrote>>

\* release_unattached: the released lease's bare holds are released with it.
BareHolds(l) ==
    /\ proc[l]["cleaner"].pc = "bare"
    /\ IF HoldsNothing(l) THEN Go(l, "cleaner", "letgo")
       ELSE Become(l, "cleaner", Idle)
    /\ UNCHANGED <<lease, row, usb, alive, asked, faults, wrote>>

ReleaseUnattached(l) ==
    /\ proc[l]["cleaner"].pc = "letgo" /\ Become(l, "cleaner", Idle)
    /\ row' = IF Releasable(l) THEN Moved(l, "released", row[l].slot) ELSE row
    /\ UNCHANGED <<lease, usb, alive, asked, faults, wrote>>

\* The attempt failed: cleanup is tried again, or this was the last one.
AttemptFails(l) ==
    /\ proc[l]["cleaner"].pc = "failed" /\ Become(l, "cleaner", Idle)
    /\ \E to \in {"releasing", "cleanup_failed"} :
         lease' = [lease EXCEPT ![l] = to]
    /\ UNCHANGED <<row, usb, alive, asked, faults, wrote>>

-----------------------------------------------------------------------------
(* The reconciler: one pass at a time, rows of owners that ended.          *)

\* Mutant: a quarantined row is left to an operator.
PassSkipsQuarantined(l) ==
    /\ \A m \in Leases : proc[m]["pass"] = Idle
    /\ Ended(l) /\ row[l].st \in Live \ {"detach_failed"}
    /\ Become(l, "pass", [Idle EXCEPT !.st = row[l].st, !.slot = row[l].slot,
                          !.pc = IF row[l].st = "held" THEN "finish"
                                 ELSE "view"])
    /\ UNCHANGED <<lease, row, usb, alive, asked, faults, wrote>>

PassStart(l) ==
    /\ \A m \in Leases : proc[m]["pass"] = Idle
    /\ Ended(l) /\ row[l].st \in Live
    /\ Become(l, "pass", [Idle EXCEPT !.st = row[l].st, !.slot = row[l].slot,
                          !.pc = IF row[l].st = "held" THEN "finish"
                                 ELSE "view"])
    /\ UNCHANGED <<lease, row, usb, alive, asked, faults, wrote>>

PassView(l) ==
    LET r == proc[l]["pass"] IN
    /\ r.pc = "view"
    /\ \/ Readable(l) /\ Refs(l) = {} /\ Go(l, "pass", "clear")
       \/ /\ Readable(l) /\ Refs(l) # {} /\ r.st = "attaching"
          /\ Become(l, "pass", [r EXCEPT !.pc = "unknown", !.slot = NoSlot])
       \/ /\ Readable(l) /\ Refs(l) = {r.slot} /\ r.st # "attaching"
          /\ Go(l, "pass", "move")
       \/ /\ Readable(l) /\ Refs(l) \notin {{}, {r.slot}} /\ r.st # "attaching"
          /\ Done(l, "pass", FALSE)
       \/ Unreadable(l) /\ Done(l, "pass", FALSE)
    /\ UNCHANGED <<lease, row, usb, alive, asked, wrote>>

-----------------------------------------------------------------------------
(* The leases, the guests and the operator; a restart of the controller.   *)

\* reserve: one live row for the device; a finished owner's bare hold yields.
Reserve(l) ==
    /\ lease[l] = "provisioning" /\ row[l].st = "none"
    /\ LET others == {m \in Leases : row[m].st \in Live}
           stale == {m \in others : HoldsNothing(m) /\ lease[m] = "released"}
       IN /\ others = stale
          /\ row' = [m \in Leases |->
                       IF m = l THEN [st |-> "held", slot |-> NoSlot]
                       ELSE IF m \in stale THEN [row[m] EXCEPT !.st = "released"]
                       ELSE row[m]]
    /\ UNCHANGED <<lease, usb, alive, proc, asked, faults, wrote>>

\* The attach step is done, the lease goes on to ready; it is released or
\* expires; a failed provision is compensated; cleanup is re-armed.
LeaseMoves(l) ==
    /\ \E to \in LeaseStates :
         /\ \/ /\ to = "ready" /\ lease[l] = "provisioning"
               /\ row[l].st = "attached" /\ proc[l]["writer"] = Idle
            \/ to = "releasing"
               /\ lease[l] \in {"provisioning", "ready", "failed",
                                "cleanup_failed"}
         /\ lease' = [lease EXCEPT ![l] = to]
    /\ UNCHANGED <<row, usb, alive, proc, asked, faults, wrote>>

\* An operator writes the same entry by hand.
OperatorAttach(l) ==
    /\ alive[l] /\ Fault
    /\ \E s \in Slots \ Refs(l) :
         usb' = [usb EXCEPT ![l] = @ \cup {[slot |-> s, by |-> "operator",
                                            view |-> "applied"]}]
    /\ UNCHANGED <<lease, row, alive, proc, asked, wrote>>

GuestRestart(l) ==
    /\ \E e \in usb[l] : e.view # "applied"
    /\ usb' = [usb EXCEPT ![l] = {[e EXCEPT !.view = "applied"] :
                                    e \in {e \in @ : e.view # "leaving"}}]
    /\ UNCHANGED <<lease, row, alive, proc, asked, faults, wrote>>

Restart ==
    /\ Fault
    /\ proc' = [l \in Leases |-> [p \in Parties |-> Idle]]
    /\ asked' = [l \in Leases |-> {}]
    /\ wrote' = [l \in Leases |->
                   IF Unrecorded(l) /\ row[l].st \in {"released", "held"}
                   THEN "left" ELSE wrote[l]]
    /\ UNCHANGED <<lease, row, usb, alive>>

-----------------------------------------------------------------------------
Detaching(l, p) ==
    \/ ReadBeforeDetach(l, p) \/ Unproven(l, p) \/ StartDetach(l, p)
    \/ PutDelete(l, p) \/ Confirm(l, p) \/ Finish(l, p) \/ FailDetach(l, p)

Writing(l) ==
    \/ StartProvision(l) \/ RefuseProvision(l) \/ Look(l) \/ ClaimAttach(l)
    \/ CountBeforeWrite(l) \/ Write(l) \/ RecordAttached(l)
    \/ CountAfterWrite(l) \/ Undo(l) \/ FailUnwritten(l) \/ Back(l)
    \/ LeaveUnknown(l, "writer") \/ GiveUp(l) \/ Detaching(l, "writer")
    \/ \E what \in Requests : Serve(l, what)

Cleaning(l) ==
    \/ CleanStart(l) \/ Free(l) \/ Reread(l) \/ Resync(l) \/ ResyncDetach(l)
    \/ Decide(l) \/ Delete(l) \/ Settle(l) \/ BareHolds(l)
    \/ ReleaseUnattached(l) \/ AttemptFails(l) \/ Detaching(l, "cleaner")

Reconciling(l) ==
    \/ PassStart(l) \/ PassView(l) \/ LeaveUnknown(l, "pass")
    \/ Detaching(l, "pass")

World(l) ==
    \/ Reserve(l) \/ LeaseMoves(l) \/ OperatorAttach(l) \/ GuestRestart(l)
    \/ \E what \in Requests : Ask(l, what)

Next ==
    \/ \E l \in Leases : Writing(l) \/ Cleaning(l) \/ Reconciling(l) \/ World(l)
    \/ Restart

Spec == Init /\ [][Next]_vars
=============================================================================
