------------------------ MODULE UsbReservationsProofs ------------------------
(***************************************************************************)
(* For any leases, slots, bounds and operators: the variables keep their   *)
(* types, every entry of Fleet's has a row behind it, an attached row has  *)
(* its entry, and the device is in one place.                              *)
(*                                                                         *)
(* The invariant is stated per lease, as a predicate on what is known of   *)
(* that lease alone: its row r, its guest's entries u, what was written o, *)
(* its writer w and another party q.                                       *)
(***************************************************************************)
EXTENDS UsbReservationsProps, TLAPS

\* Fleet's entry, as it stands once it was written.
Applied(s) == [slot |-> s, by |-> "fleet", view |-> "applied"]

\* No entry of Fleet's, but for what was given up.
Clean(u, o) == o = "left" \/ \A e \in u : e.by # "fleet"

\* The writer wrote an entry and still answers for it.
Answers(w) ==
    \/ w.pc \in {"record", "undo"}
    \/ w.pc = "unknown" /\ w.slot # NoSlot
    \/ w.pc \in {"read", "move", "fail"} /\ w.st = "attaching"

Covered(u, o, w) == Clean(u, o) \/ Answers(w)

\* The writer may yet turn an attaching row into one that has its entry.
Straddles(r, w) ==
    /\ r.st = "attaching" /\ w.st = "attaching"
    /\ w.pc = "write" \/ (Answers(w) /\ w.pc # "undo")

\* Where a row that is being detached stands.
Taken == {"attaching", "attached", "detaching", "attach_unknown",
          "detach_failed"}

\* What a party that detaches knows of the row it read, or moved.
DetachInv(x) ==
    /\ x.pc \in {"unproven", "clear", "move", "fail"} => x.st \in Taken
    /\ x.pc = "read" => x.st \in (Taken \ {"attached"}) \cup {"held"}
    /\ x.pc = "read" /\ x.own => x.st # "held"
    /\ x.pc = "unproven" => x.st # "attached"
    /\ x.pc \in {"put", "confirm"} => x.st = "detaching"

\* What the writer's place says of the row and of the guest.
WriterInv(r, u, o, w) ==
    /\ DetachInv(w)
    /\ w.pc \in {"idle", "giveup"} => w.st = "none"
    /\ r.st = "none" => w.pc = "idle" /\ \A e \in u : e.by # "fleet"
    /\ r.st = "held" =>
         /\ r.slot = NoSlot
         /\ w.pc \in {"idle", "look", "claim", "giveup", "read", "finish"}
         /\ w.st \in {"none", "held"}
    /\ r.st = "attaching" => r.slot # NoSlot
    /\ w.pc = "look" => IF w.kind = "resumed" THEN w.st = "attaching"
                                             ELSE w.st = "held"
    /\ w.pc \in {"count", "write", "record", "undo", "unwritten", "unsure",
                 "back", "unknown"} => w.st = "attaching"
    /\ w.pc \in {"look", "count", "write", "record"} /\ w.st = "attaching"
         => w.slot # NoSlot
    /\ w.pc = "read" /\ w.st = "attaching" => w.own
    /\ w.pc = "unproven" => w.st # "attaching"
    /\ w.pc \in {"claim", "count", "write", "unwritten", "unsure", "back",
                 "clear", "finish"} => Clean(u, o)
    /\ w.pc \in {"record", "undo"} =>
         o = "left" \/ \A e \in u : e.by = "fleet" => e.slot = w.slot
    /\ w.pc \notin {"idle", "giveup"} /\ w.st # "attached" => r.st # "attached"
    /\ w.pc = "record" /\ r.st = "attaching" => Applied(w.slot) \in u
    /\ r.st = "attached" => Applied(r.slot) \in u
    /\ Covered(u, o, w) \/ r.st \in Live \ {"held"}

\* The state that a party read may still be the row's, which straddles a write
\* of the writer's only if it was read for the first time.
Early(q) ==
    /\ q.pc \in {"read", "unproven", "clear", "move", "fail", "view", "unknown"}
    /\ q.st = "attaching" /\ q.kind # "again"
Trusting(q) == q.pc \in {"clear", "move", "fail", "view"} /\ q.st = "attached"

\* The cleanup and the reconciler act once the lease does not count any more:
\* no write starts then, and none straddles a row they have read or moved.
PartyInv(s, r, u, o, w, q) ==
    /\ DetachInv(q)
    /\ q.pc = "view" => q.st \in Taken
    /\ ~q.keep /\ q.kind \in {"pass", "first", "again"}
    /\ q.pc # "idle" => s \notin {"provisioning", "ready"}
    /\ q.pc \in {"read", "unproven", "clear", "move", "put", "confirm", "finish",
                 "fail", "free", "reread", "resync", "view"} => r.st # "none"
    /\ q.pc # "idle" /\ ~Early(q) => ~Straddles(r, w)
    /\ q.pc \notin {"idle", "resync"} /\ ~Early(q) /\ ~Trusting(q)
         => r.st # "attached"
    /\ q.pc \in {"finish", "free", "letgo"} => Covered(u, o, w)
    /\ q.pc = "clear" =>
         Covered(u, o, w) \/ (q.st = "attaching" /\ r.st # "attaching")

DetachPcs == {"read", "unproven", "clear", "move", "put", "confirm", "finish",
              "fail"}

LeaseInv(s, r, u, o, p) ==
    /\ WriterInv(r, u, o, p["writer"])
    /\ p["cleaner"].pc \in DetachPcs => p["cleaner"].kind # "pass"
    /\ \A k \in {"cleaner", "pass"} : PartyInv(s, r, u, o, p["writer"], p[k])

\* One live row for the device, whatever lease it is of.
OneRow ==
    \A l, m \in Leases : l # m => row[l].st \notin Live \/ row[m].st \notin Live

IInv == /\ TypeOK /\ OneRow
        /\ \A l \in Leases : LeaseInv(lease[l], row[l], usb[l], wrote[l], proc[l])

-----------------------------------------------------------------------------
(* Types.                                                                  *)

\* The row states by name.
LEMMA RowStatesAre ==
    RowStates = {"none", "held", "attaching", "attached", "detaching",
                 "detach_failed", "attach_unknown", "released"}
BY DEF RowStates, Successors

\* The places and the kinds that the steps below name are places and kinds.
LEMMA IdleType == Idle \in Locals
BY RowStatesAre DEF Idle, Locals, Kinds, Pcs

\* What a party becomes is a row of its own; the other rows stay.
LEMMA BecomeIs ==
    ASSUME TypeOK, NEW l \in Leases, NEW p \in Parties, NEW r, Become(l, p, r)
    PROVE  /\ proc'[l][p] = r
           /\ \A k \in Parties \ {p} : proc'[l][k] = proc[l][k]
           /\ \A m \in Leases \ {l} : proc'[m] = proc[m]
           /\ r \in Locals => proc' \in [Leases -> [Parties -> Locals]]
BY DEF TypeOK, Become

\* A place, a state, a slot and a flag of a party can be replaced.
LEMMA LocalsAre ==
    ASSUME NEW r \in Locals
    PROVE  /\ r.pc \in Pcs /\ r.st \in RowStates /\ r.slot \in Slots \cup {NoSlot}
           /\ r.own \in BOOLEAN /\ r.keep \in BOOLEAN /\ r.kind \in Kinds
           /\ \A pc \in Pcs : [r EXCEPT !.pc = pc] \in Locals
           /\ \A st \in RowStates : [r EXCEPT !.st = st] \in Locals
           /\ \A pc \in Pcs, st \in RowStates :
                [r EXCEPT !.pc = pc, !.st = st] \in Locals
           /\ \A pc \in Pcs, slot \in Slots \cup {NoSlot} :
                [r EXCEPT !.pc = pc, !.slot = slot] \in Locals
           /\ \A pc \in Pcs, st \in RowStates, slot \in Slots \cup {NoSlot} :
                [r EXCEPT !.pc = pc, !.st = st, !.slot = slot] \in Locals
           /\ \A pc \in Pcs : [r EXCEPT !.keep = FALSE, !.pc = pc] \in Locals
BY DEF Locals

LEMMA GoType ==
    ASSUME TypeOK, NEW l \in Leases, NEW p \in Parties, NEW pc \in Pcs,
           Go(l, p, pc)
    PROVE  proc' \in [Leases -> [Parties -> Locals]]
<1>1. proc[l][p] \in Locals
  BY DEF TypeOK
<1>2. QED
  BY <1>1, LocalsAre, BecomeIs, Zenon DEF Go

LEMMA AfterType ==
    ASSUME NEW l, NEW p, NEW ok PROVE After(l, p, ok) \in Locals
BY IdleType, LocalsAre, Zenon DEF After, Pcs

LEMMA DoneType ==
    ASSUME TypeOK, NEW l \in Leases, NEW p \in Parties, NEW ok, Done(l, p, ok)
    PROVE  proc' \in [Leases -> [Parties -> Locals]]
BY AfterType, BecomeIs DEF Done

LEMMA LostType ==
    ASSUME TypeOK, NEW l \in Leases, NEW p \in Parties, Lost(l, p)
    PROVE  proc' \in [Leases -> [Parties -> Locals]]
BY DoneType, GoType DEF Lost, Pcs

LEMMA DetachType ==
    ASSUME NEW st \in RowStates, NEW slot \in Slots \cup {NoSlot},
           NEW proven \in BOOLEAN, NEW keep \in BOOLEAN, NEW kind \in Kinds
    PROVE  Detach(st, slot, proven, keep, kind) \in Locals
BY DEF Detach, Locals, Pcs

LEMMA RowType ==
    ASSUME TypeOK, NEW l \in Leases
    PROVE  row[l] \in [st : RowStates, slot : Slots \cup {NoSlot}]
BY DEF TypeOK

LEMMA MovedIs ==
    ASSUME TypeOK, NEW l \in Leases, NEW to, NEW slot
    PROVE  /\ Moved(l, to, slot)[l].st = to
           /\ Moved(l, to, slot)[l].slot = IF to = "held" THEN NoSlot ELSE slot
           /\ \A m \in Leases \ {l} : Moved(l, to, slot)[m] = row[m]
BY DEF TypeOK, Moved

LEMMA MovedType ==
    ASSUME TypeOK, NEW l \in Leases
    PROVE  \A to \in RowStates, slot \in Slots \cup {NoSlot} :
             Moved(l, to, slot)
               \in [Leases -> [st : RowStates, slot : Slots \cup {NoSlot}]]
BY DEF TypeOK, Moved

LEMMA FaultType ==
    ASSUME TypeOK, Fault \/ NoFault
    PROVE  faults' \in 0 .. MaxFaults
BY UsbAssumption DEF TypeOK, Fault, NoFault

\* Deletes and additions leave entries.
LEMMA DeletedType ==
    ASSUME TypeOK, NEW l \in Leases, NEW s
    PROVE  Deleted(l, s) \subseteq SUBSET Entries
<1>1. usb[l] \in SUBSET Entries
  BY DEF TypeOK
<1>2. \A e \in Entries : [e EXCEPT !.view = "leaving"] \in Entries
  BY DEF Entries
<1>3. QED
  BY <1>1, <1>2 DEF Deleted

LEMMA AddedType ==
    ASSUME TypeOK, NEW l \in Leases, NEW s \in Slots,
           NEW v \in {"applied", "adding"}
    PROVE  Added(l, s, v) \in [Leases -> SUBSET Entries]
<1>1. usb[l] \cup {[slot |-> s, by |-> "fleet", view |-> v]} \in SUBSET Entries
  BY DEF TypeOK, Entries
<1>2. QED
  BY <1>1 DEF Added, TypeOK

\* What a put leaves of the guest's entries: a delete, or nothing done.
LEMMA PutDeletes ==
    ASSUME TypeOK, NEW l \in Leases, NEW p \in Parties, PutDelete(l, p)
    PROVE  \E gone \in Deleted(l, proc[l][p].slot) \cup {usb[l]} :
             usb' = [usb EXCEPT ![l] = gone]
<1> DEFINE D == Deleted(l, proc[l][p].slot)
<1>1. \/ UNCHANGED usb
      \/ \E gone \in D : usb' = [usb EXCEPT ![l] = gone]
      \/ \E gone \in D \cup {usb[l]} : usb' = [usb EXCEPT ![l] = gone]
  BY DEF PutDelete
<1> HIDE DEF D
<1>2. usb = [usb EXCEPT ![l] = usb[l]]
  BY DEF TypeOK
<1>3. CASE UNCHANGED usb
  BY <1>2, <1>3 DEF D
<1>4. CASE \E gone \in D : usb' = [usb EXCEPT ![l] = gone]
  BY <1>4 DEF D
<1>5. CASE \E gone \in D \cup {usb[l]} : usb' = [usb EXCEPT ![l] = gone]
  BY <1>5 DEF D
<1>6. QED
  BY <1>1, <1>3, <1>4, <1>5

\* The steps of a detach keep the types, whoever takes them.
LEMMA DetachingTypes ==
    ASSUME TypeOK, NEW l \in Leases, NEW p \in Parties, Detaching(l, p)
    PROVE  TypeOK'
<1> DEFINE r == proc[l][p]
<1> r \in Locals
  BY DEF TypeOK
<1>0. r.st \in RowStates /\ r.slot \in Slots \cup {NoSlot}
  BY DEF Locals
<1> HIDE DEF r
<1>1. CASE ReadBeforeDetach(l, p)
  <2>1. faults' \in 0 .. MaxFaults
    BY <1>1, FaultType DEF ReadBeforeDetach, Readable, Unreadable
  <2>2. ASSUME NEW s \in Slots, Become(l, p, [r EXCEPT !.pc = "move", !.slot = s])
        PROVE  proc' \in [Leases -> [Parties -> Locals]]
    <3>1. [r EXCEPT !.pc = "move", !.slot = s] \in Locals
      BY DEF Locals, Pcs
    <3>2. QED
      BY <2>2, <3>1, BecomeIs
  <2>3. proc' \in [Leases -> [Parties -> Locals]]
    BY <1>1, <2>2, GoType, DoneType DEF ReadBeforeDetach, Pcs, r
  <2>4. QED
    BY <1>1, <2>1, <2>3 DEF ReadBeforeDetach, TypeOK
<1>2. CASE Unproven(l, p)
  <2>1. row' \in [Leases -> [st : RowStates, slot : Slots \cup {NoSlot}]]
    <3>1. Moved(l, "attach_unknown", NoSlot)
            \in [Leases -> [st : RowStates, slot : Slots \cup {NoSlot}]]
      BY MovedType, RowStatesAre
    <3>2. QED
      BY <1>2, <3>1 DEF Unproven, TypeOK
  <2>2. proc' \in [Leases -> [Parties -> Locals]]
    BY <1>2, DoneType, LostType DEF Unproven
  <2>3. QED
    BY <1>2, <2>1, <2>2 DEF Unproven, TypeOK
<1>3. CASE StartDetach(l, p)
  <2>1. ClearedSlot(l, p) \in Slots \cup {NoSlot}
    BY RowType DEF ClearedSlot
  <2>2. row' \in [Leases -> [st : RowStates, slot : Slots \cup {NoSlot}]]
    BY <1>0, <1>3, <2>1, MovedType, RowStatesAre, SMTT(20) DEF StartDetach, TypeOK, r
  <2>3. ASSUME NEW pc \in {"finish", "put"}
        PROVE  [r EXCEPT !.pc = pc, !.st = "detaching"] \in Locals
    BY RowStatesAre DEF Locals, Pcs
  <2>4. proc' \in [Leases -> [Parties -> Locals]]
    <3> DEFINE next == IF r.pc = "clear" THEN "finish" ELSE "put"
    <3>1. next \in {"finish", "put"} /\ next \in Pcs
      BY DEF Pcs
    <3>2. \/ Go(l, p, next)
          \/ Become(l, p, [r EXCEPT !.pc = next, !.st = "detaching"])
          \/ Lost(l, p)
      BY <1>3 DEF StartDetach, r
    <3> HIDE DEF next
    <3>3. QED
      BY <2>3, <3>1, <3>2, GoType, LostType, BecomeIs
  <2>5. wrote' \in [Leases -> {"nothing", "sent", "left"}]
    BY <1>3 DEF StartDetach, LeftBy, LeavesIf, TypeOK
  <2>6. QED
    BY <1>3, <2>2, <2>4, <2>5 DEF StartDetach, TypeOK
<1>4. CASE PutDelete(l, p)
  <2>1. faults' \in 0 .. MaxFaults
    BY <1>4, FaultType DEF PutDelete, Readable, Unreadable
  <2>2. Deleted(l, r.slot) \subseteq SUBSET Entries
    BY DeletedType
  <2>3. usb' \in [Leases -> SUBSET Entries]
    <3>1. PICK gone \in Deleted(l, r.slot) \cup {usb[l]} :
            usb' = [usb EXCEPT ![l] = gone]
      BY <1>4, PutDeletes DEF r
    <3>2. QED
      BY <2>2, <3>1 DEF TypeOK
  <2>4. proc' \in [Leases -> [Parties -> Locals]]
    BY <1>4, GoType, DoneType DEF PutDelete, Pcs
  <2>5. QED
    BY <1>4, <2>1, <2>3, <2>4 DEF PutDelete, TypeOK
<1>5. CASE Confirm(l, p)
  <2>1. faults' \in 0 .. MaxFaults
    BY <1>5, FaultType DEF Confirm, Readable, Unreadable
  <2>2. proc' \in [Leases -> [Parties -> Locals]]
    BY <1>5, GoType DEF Confirm, Pcs
  <2>3. QED
    BY <1>5, <2>1, <2>2 DEF Confirm, TypeOK
<1>6. CASE Finish(l, p)
  <2>1. row' \in [Leases -> [st : RowStates, slot : Slots \cup {NoSlot}]]
    <3> DEFINE to == IF proc[l][p].keep THEN "held" ELSE "released"
    <3>1. to \in RowStates /\ row[l].slot \in Slots \cup {NoSlot}
      BY RowType, RowStatesAre
    <3>2. row' = Moved(l, to, row[l].slot) \/ UNCHANGED row
      BY <1>6 DEF Finish
    <3> HIDE DEF to
    <3>3. QED
      BY <3>1, <3>2, MovedType DEF TypeOK
  <2>2. proc' \in [Leases -> [Parties -> Locals]]
    BY <1>6, DoneType, LostType DEF Finish
  <2>3. QED
    BY <1>6, <2>1, <2>2 DEF Finish, TypeOK
<1>7. CASE FailDetach(l, p)
  <2> DEFINE to == Failing[r.st]
  <2>1. Cas(l, r.st, to) => to \in RowStates
    BY <1>0, RowStatesAre DEF Cas, Successors
  <2>2. ASSUME to \in RowStates PROVE [r EXCEPT !.st = to] \in Locals
    BY <2>2 DEF Locals
  <2>3. row' \in [Leases -> [st : RowStates, slot : Slots \cup {NoSlot}]]
    <3> DEFINE slot == IF to = "attach_unknown" THEN NoSlot ELSE row[l].slot
    <3>1. slot \in Slots \cup {NoSlot}
      BY RowType
    <3>2. (to \in RowStates /\ row' = Moved(l, to, slot)) \/ UNCHANGED row
      BY <1>7, <2>1 DEF FailDetach, r
    <3> HIDE DEF to, slot
    <3>3. QED
      BY <3>1, <3>2, MovedType DEF TypeOK
  <2>4. proc' \in [Leases -> [Parties -> Locals]]
    <3>1. \/ to \in RowStates /\ Become(l, p, [r EXCEPT !.st = to])
          \/ Done(l, p, FALSE) \/ Lost(l, p)
      BY <1>7, <2>1 DEF FailDetach, r
    <3> HIDE DEF to
    <3>2. QED
      BY <2>2, <3>1, BecomeIs, DoneType, LostType
  <2>5. wrote' \in [Leases -> {"nothing", "sent", "left"}]
    BY <1>7 DEF FailDetach, LeftBy, LeavesIf, TypeOK
  <2>6. QED
    BY <1>7, <2>3, <2>4, <2>5 DEF FailDetach, TypeOK
<1>8. QED
  BY <1>1, <1>2, <1>3, <1>4, <1>5, <1>6, <1>7 DEF Detaching

\* What the writer becomes has its type.
LEMMA WriterRows ==
    ASSUME NEW r \in Locals
    PROVE  /\ \A pc \in Pcs, slot \in Slots \cup {NoSlot} :
                [r EXCEPT !.pc = pc, !.slot = slot] \in Locals
           /\ \A s \in Slots :
                [r EXCEPT !.pc = "count", !.st = "attaching", !.slot = s] \in Locals
           /\ \A pc \in Pcs : [r EXCEPT !.keep = FALSE, !.pc = pc] \in Locals
           /\ [r EXCEPT !.pc = "recount", !.st = "attached"] \in Locals
           /\ [r EXCEPT !.pc = "finish", !.st = "detaching"] \in Locals
<1>1. \A pc \in Pcs, slot \in Slots \cup {NoSlot} :
         [r EXCEPT !.pc = pc, !.slot = slot] \in Locals
  BY DEF Locals
<1>2. ASSUME NEW s \in Slots
      PROVE  [r EXCEPT !.pc = "count", !.st = "attaching", !.slot = s] \in Locals
  BY RowStatesAre DEF Locals, Pcs
<1>3. \A pc \in Pcs : [r EXCEPT !.keep = FALSE, !.pc = pc] \in Locals
  BY DEF Locals
<1>4. [r EXCEPT !.pc = "recount", !.st = "attached"] \in Locals
  BY RowStatesAre DEF Locals, Pcs
<1>5. [r EXCEPT !.pc = "finish", !.st = "detaching"] \in Locals
  BY RowStatesAre DEF Locals, Pcs
<1>6. QED
  BY <1>1, <1>2, <1>3, <1>4, <1>5

LEMMA IdleRows ==
    ASSUME NEW st \in RowStates, NEW slot \in Slots \cup {NoSlot}
    PROVE  /\ \A kind \in Kinds :
                [Idle EXCEPT !.pc = "look", !.st = st, !.slot = slot, !.kind = kind]
                  \in Locals
           /\ [Idle EXCEPT !.pc = "look", !.st = st, !.keep = TRUE,
                           !.kind = "hotplug"] \in Locals
           /\ [Idle EXCEPT !.pc = "giveup"] \in Locals
           /\ \A pc \in {"finish", "view"} :
                [Idle EXCEPT !.st = st, !.slot = slot, !.pc = pc] \in Locals
<1>1. ASSUME NEW kind \in Kinds
      PROVE  [Idle EXCEPT !.pc = "look", !.st = st, !.slot = slot, !.kind = kind]
               \in Locals
  BY IdleType DEF Locals, Pcs
<1>2. [Idle EXCEPT !.pc = "look", !.st = st, !.keep = TRUE, !.kind = "hotplug"]
        \in Locals
  BY IdleType DEF Locals, Pcs, Kinds
<1>3. [Idle EXCEPT !.pc = "giveup"] \in Locals
  BY IdleType DEF Locals, Pcs
<1>4. ASSUME NEW pc \in {"finish", "view"}
      PROVE  [Idle EXCEPT !.st = st, !.slot = slot, !.pc = pc] \in Locals
  BY IdleType DEF Locals, Pcs
<1>5. QED
  BY <1>1, <1>2, <1>3, <1>4

LEMMA UnknownTypes ==
    ASSUME TypeOK, NEW l \in Leases, NEW p \in Parties, LeaveUnknown(l, p)
    PROVE  TypeOK'
<1> DEFINE slot == proc[l][p].slot
<1>1. slot \in Slots \cup {NoSlot} /\ "attach_unknown" \in RowStates
  BY RowStatesAre DEF TypeOK, Locals
<1>2. row' = Moved(l, "attach_unknown", slot) \/ UNCHANGED row
  BY DEF LeaveUnknown
<1> HIDE DEF slot
<1>3. row' \in [Leases -> [st : RowStates, slot : Slots \cup {NoSlot}]]
  BY <1>1, <1>2, MovedType DEF TypeOK
<1>4. proc' \in [Leases -> [Parties -> Locals]]
  BY DoneType DEF LeaveUnknown
<1>5. wrote' \in [Leases -> {"nothing", "sent", "left"}]
  BY DEF LeaveUnknown, LeavesIf, TypeOK
<1>6. QED
  BY <1>3, <1>4, <1>5 DEF LeaveUnknown, TypeOK

\* The writer's steps keep the types.
LEMMA WritingTypes ==
    ASSUME TypeOK, NEW l \in Leases, Writing(l)
    PROVE  TypeOK'
<1> DEFINE r == proc[l]["writer"]
           Procs == [Leases -> [Parties -> Locals]]
           Rows == [Leases -> [st : RowStates, slot : Slots \cup {NoSlot}]]
<1> "writer" \in Parties /\ r \in Locals
  BY DEF TypeOK, Parties
<1>0. /\ r.st \in RowStates /\ r.slot \in Slots \cup {NoSlot} /\ r.kind \in Kinds
      /\ r.keep \in BOOLEAN
      /\ row[l].st \in RowStates /\ row[l].slot \in Slots \cup {NoSlot}
      /\ Idle \in Locals
  BY RowType, IdleType DEF Locals
<1> HIDE DEF r
<1>1. ASSUME StartProvision(l) PROVE TypeOK'
  <2> DEFINE kind == IF row[l].st = "held" THEN "provision" ELSE "resumed"
  <2>1. kind \in Kinds
    BY DEF Kinds
  <2>2. Become(l, "writer", [Idle EXCEPT !.pc = "look", !.st = row[l].st,
                                         !.slot = row[l].slot, !.kind = kind])
    BY <1>1 DEF StartProvision
  <2> HIDE DEF kind
  <2>3. [Idle EXCEPT !.pc = "look", !.st = row[l].st, !.slot = row[l].slot,
                     !.kind = kind] \in Locals
    BY <1>0, <2>1, IdleRows
  <2>4. proc' \in Procs
    BY <2>2, <2>3, BecomeIs
  <2>5. QED
    BY <1>1, <2>4 DEF StartProvision, TypeOK
<1>2. ASSUME RefuseProvision(l) PROVE TypeOK'
  <2>1. proc' \in Procs
    BY <1>0, <1>2, IdleRows, BecomeIs DEF RefuseProvision
  <2>2. QED
    BY <1>2, <2>1 DEF RefuseProvision, TypeOK
<1>3. ASSUME Look(l) PROVE TypeOK'
  <2> DEFINE next == IF r.kind = "resumed" THEN "count" ELSE "claim"
  <2>1. \/ Go(l, "writer", next)
        \/ Become(l, "writer", [r EXCEPT !.pc = "unknown", !.slot = NoSlot])
        \/ Done(l, "writer", FALSE)
    BY <1>3 DEF Look, r
  <2>2. next \in Pcs /\ "unknown" \in Pcs
    BY DEF Pcs
  <2> HIDE DEF next
  <2>3. proc' \in Procs
    BY <2>1, <2>2, WriterRows, BecomeIs, GoType, DoneType, Zenon
  <2>4. faults' \in 0 .. MaxFaults
    BY <1>3, FaultType DEF Look, Readable, Unreadable
  <2>5. QED
    BY <1>3, <2>3, <2>4 DEF Look, TypeOK
<1>4. ASSUME ClaimAttach(l) PROVE TypeOK'
  <2>1. \/ /\ Done(l, "writer", FALSE) /\ UNCHANGED row
        \/ \E s \in Slots :
             /\ row' = Moved(l, "attaching", s)
             /\ Become(l, "writer", [r EXCEPT !.pc = "count", !.st = "attaching",
                                              !.slot = s])
    BY <1>4 DEF ClaimAttach, r
  <2>2. CASE Done(l, "writer", FALSE) /\ UNCHANGED row
    BY <1>4, <2>2, DoneType DEF ClaimAttach, TypeOK
  <2>3. ASSUME NEW s \in Slots, row' = Moved(l, "attaching", s),
               Become(l, "writer", [r EXCEPT !.pc = "count", !.st = "attaching",
                                             !.slot = s])
        PROVE  TypeOK'
    <3>0. [r EXCEPT !.pc = "count", !.st = "attaching", !.slot = s] \in Locals
      BY WriterRows, Zenon
    <3>1. proc' \in Procs
      BY <2>3, <3>0, BecomeIs
    <3>2. row' \in Rows
      BY <2>3, MovedType, RowStatesAre, SMTT(30) DEF TypeOK
    <3>3. QED
      BY <1>4, <3>1, <3>2, Zenon DEF ClaimAttach, TypeOK
  <2>4. QED
    BY <2>1, <2>2, <2>3
<1>5. ASSUME CountBeforeWrite(l) PROVE TypeOK'
  <2>1. Unwritten(l) \in Pcs /\ "write" \in Pcs
    BY DEF Unwritten, Pcs
  <2>2. proc' \in Procs
    BY <1>5, <2>1, WriterRows, BecomeIs, GoType, Zenon DEF CountBeforeWrite, r
  <2>3. QED
    BY <1>5, <2>2 DEF CountBeforeWrite, TypeOK
<1>6. ASSUME Write(l), Sends(l) PROVE TypeOK'
  <2>1. Detach("attaching", r.slot, TRUE, r.keep, r.kind) \in Locals
    BY <1>0, DetachType, RowStatesAre
  <2>2. proc' \in Procs
    <3>1. {"record", "unsure", "unknown"} \subseteq Pcs
      BY Zenon DEF Pcs
    <3>2. \/ \E s \in Slots, pc \in {"record", "unknown"} :
               Become(l, "writer", [r EXCEPT !.pc = pc, !.slot = s])
          \/ Go(l, "writer", "unsure")
          \/ Become(l, "writer", Detach("attaching", r.slot, TRUE, r.keep, r.kind))
      BY <1>6 DEF Sends, r
    <3>3. ASSUME NEW s \in Slots, NEW pc \in {"record", "unknown"},
                 Become(l, "writer", [r EXCEPT !.pc = pc, !.slot = s])
          PROVE  proc' \in Procs
      <4>1. [r EXCEPT !.pc = pc, !.slot = s] \in Locals
        BY <3>1, WriterRows, Zenon
      <4>2. QED
        BY <3>3, <4>1, BecomeIs, SMTT(30)
    <3>4. QED
      BY <2>1, <3>1, <3>2, <3>3, BecomeIs, GoType, Zenon
  <2>3. usb' \in [Leases -> SUBSET Entries]
    <3>1. \/ UNCHANGED usb
          \/ \E s \in Slots, v \in {"applied", "adding"} : usb' = Added(l, s, v)
      BY <1>6 DEF Sends
    <3>2. QED
      BY <3>1, AddedType DEF TypeOK
  <2>4. faults' \in 0 .. MaxFaults
    BY <1>6, FaultType DEF Sends
  <2>5. wrote' \in [Leases -> {"nothing", "sent", "left"}]
    BY <1>6 DEF Sends, TypeOK
  <2>6. QED
    BY <1>6, <2>2, <2>3, <2>4, <2>5 DEF Write, TypeOK
<1>7. ASSUME Write(l), SendsNothing(l) PROVE TypeOK'
  <2>1. Unwritten(l) \in Pcs
    BY DEF Unwritten, Pcs
  <2>2. proc' \in Procs
    BY <1>7, <2>1, GoType DEF SendsNothing
  <2>3. faults' \in 0 .. MaxFaults
    BY <1>7, FaultType DEF SendsNothing, Readable, Unreadable
  <2>4. QED
    BY <1>7, <2>2, <2>3 DEF Write, SendsNothing, TypeOK
<1>8. ASSUME RecordAttached(l) PROVE TypeOK'
  <2>1. \/ /\ row' = Moved(l, "attached", r.slot)
           /\ Become(l, "writer", [r EXCEPT !.pc = "recount", !.st = "attached"])
        \/ Go(l, "writer", "undo") /\ UNCHANGED row
    BY <1>8 DEF RecordAttached, r
  <2>2. "attached" \in RowStates /\ "undo" \in Pcs
    BY RowStatesAre, Zenon DEF Pcs
  <2>3. proc' \in Procs
    BY <2>1, <2>2, WriterRows, BecomeIs, GoType, Zenon
  <2>4. row' \in Rows
    BY <1>0, <2>1, <2>2, MovedType DEF TypeOK
  <2>5. QED
    BY <1>8, <2>3, <2>4 DEF RecordAttached, TypeOK
<1>9. ASSUME CountAfterWrite(l) PROVE TypeOK'
  <2>1. Detach("attached", r.slot, TRUE, FALSE, r.kind) \in Locals
    BY <1>0, DetachType, RowStatesAre
  <2>2. \/ Become(l, "writer", Idle)
        \/ Become(l, "writer", Detach("attached", r.slot, TRUE, FALSE, r.kind))
    BY <1>9 DEF CountAfterWrite, r
  <2>3. proc' \in Procs
    BY <1>0, <2>1, <2>2, BecomeIs
  <2>4. QED
    BY <1>9, <2>3 DEF CountAfterWrite, TypeOK
<1>10. ASSUME Undo(l) PROVE TypeOK'
  <2>1. usb' \in [Leases -> SUBSET Entries]
    <3>1. \/ UNCHANGED usb
          \/ \E gone \in Deleted(l, r.slot) : usb' = [usb EXCEPT ![l] = gone]
      BY <1>10 DEF Undo, r
    <3>2. QED
      BY <3>1, DeletedType DEF TypeOK
  <2>2. faults' \in 0 .. MaxFaults
    BY <1>10, FaultType DEF Undo, Readable, Unreadable
  <2>3. wrote' \in [Leases -> {"nothing", "sent", "left"}]
    BY <1>10 DEF Undo, LeavesIf, TypeOK
  <2>4. proc' \in Procs
    BY <1>10, DoneType, Zenon DEF Undo
  <2>5. QED
    BY <1>10, <2>1, <2>2, <2>3, <2>4 DEF Undo, TypeOK
<1>11. ASSUME FailUnwritten(l) PROVE TypeOK'
  <2>1. \/ Go(l, "writer", "back")
        \/ Become(l, "writer", [r EXCEPT !.pc = "unknown", !.slot = NoSlot])
    BY <1>11 DEF FailUnwritten, r
  <2>2. "back" \in Pcs /\ "unknown" \in Pcs
    BY DEF Pcs
  <2>3. proc' \in Procs
    BY <2>1, <2>2, WriterRows, BecomeIs, GoType, Zenon
  <2>4. faults' \in 0 .. MaxFaults
    BY <1>11, FaultType DEF FailUnwritten, Readable, Unreadable
  <2>5. QED
    BY <1>11, <2>3, <2>4 DEF FailUnwritten, TypeOK
<1>12. ASSUME Back(l) PROVE TypeOK'
  <2>1. \/ /\ row' = Moved(l, "detaching", row[l].slot)
           /\ Become(l, "writer", [r EXCEPT !.pc = "finish", !.st = "detaching"])
        \/ Done(l, "writer", FALSE) /\ UNCHANGED row
    BY <1>12, Zenon DEF Back, r
  <2>2. "detaching" \in RowStates
    BY RowStatesAre
  <2>3. proc' \in Procs
    BY <2>1, WriterRows, BecomeIs, DoneType, Zenon
  <2>4. Moved(l, "detaching", row[l].slot) \in Rows
    BY <1>0, <2>2, MovedType
  <2>5. row' \in Rows
    BY <2>1, <2>4 DEF TypeOK
  <2>6. QED
    BY <1>12, <2>3, <2>5 DEF Back, TypeOK
<1>13. ASSUME NEW p \in Parties, LeaveUnknown(l, p) PROVE TypeOK'
  BY <1>13, UnknownTypes
<1>14. ASSUME GiveUp(l) PROVE TypeOK'
  <2>1. proc' \in Procs
    BY <1>0, <1>14, BecomeIs DEF GiveUp
  <2>2. lease' \in [Leases -> LeaseStates]
    BY <1>14 DEF GiveUp, TypeOK, LeaseStates
  <2>3. QED
    BY <1>14, <2>1, <2>2 DEF GiveUp, TypeOK
<1>15. ASSUME NEW what \in Requests, Serve(l, what) PROVE TypeOK'
  <2>1. /\ Detach(row[l].st, row[l].slot, TRUE, what = "detach", "hotplug") \in Locals
        /\ Detach(row[l].st, NoSlot, FALSE, FALSE, "hotplug") \in Locals
    BY <1>0, DetachType DEF Kinds
  <2>2. \/ UNCHANGED proc
        \/ Become(l, "writer", [Idle EXCEPT !.pc = "look", !.st = row[l].st,
                                            !.keep = TRUE, !.kind = "hotplug"])
        \/ Become(l, "writer", Detach(row[l].st, row[l].slot, TRUE,
                                      what = "detach", "hotplug"))
        \/ Become(l, "writer", Detach(row[l].st, NoSlot, FALSE, FALSE, "hotplug"))
    BY <1>15 DEF Serve
  <2> DEFINE look == [Idle EXCEPT !.pc = "look", !.st = row[l].st, !.keep = TRUE,
                                 !.kind = "hotplug"]
  <2>0. look \in Locals
    BY <1>0, IdleRows
  <2> HIDE DEF look
  <2>3. proc' \in Procs
    BY <2>0, <2>1, <2>2, BecomeIs DEF TypeOK, look
  <2>4. asked' \in [Leases -> SUBSET Requests]
    BY <1>15 DEF Serve, TypeOK
  <2>5. QED
    BY <1>15, <2>3, <2>4 DEF Serve, TypeOK
<1>16. QED
  BY <1>1, <1>2, <1>3, <1>4, <1>5, <1>6, <1>7, <1>8, <1>9, <1>10, <1>11, <1>12,
     <1>13, <1>14, <1>15, DetachingTypes DEF Writing, Write

\* The cleanup's steps keep the types.
LEMMA CleaningTypes ==
    ASSUME TypeOK, NEW l \in Leases, Cleaning(l)
    PROVE  TypeOK'
<1> DEFINE Procs == [Leases -> [Parties -> Locals]]
           Rows == [Leases -> [st : RowStates, slot : Slots \cup {NoSlot}]]
<1> "cleaner" \in Parties
  BY DEF Parties
<1>0. /\ row[l].st \in RowStates /\ row[l].slot \in Slots \cup {NoSlot}
      /\ Idle \in Locals
      /\ {"destroy", "free", "reread", "failed", "delete", "settle", "bare",
          "letgo"} \subseteq Pcs
  BY RowType, IdleType DEF Pcs
<1>1. ASSUME NEW kind \in {"first", "again"}, DetachRow(l, kind)
      PROVE  proc' \in Procs
  <2>1. Detach(row[l].st, row[l].slot, row[l].st # "attaching", FALSE, kind) \in Locals
    BY <1>0, DetachType DEF Kinds
  <2>2. QED
    BY <1>1, <2>1, BecomeIs DEF DetachRow
<1>2. row' = Moved(l, "released", row[l].slot) \/ UNCHANGED row => row' \in Rows
  <2>1. Moved(l, "released", row[l].slot) \in Rows
    BY <1>0, RowStatesAre, MovedType
  <2>2. QED
    BY <2>1 DEF TypeOK
<1>3. ASSUME CleanStart(l) \/ Reread(l) \/ ResyncDetach(l) PROVE TypeOK'
  <2>1. proc' \in Procs
    BY <1>0, <1>1, <1>3, GoType DEF CleanStart, Reread, ResyncDetach
  <2>2. QED
    BY <1>3, <2>1 DEF CleanStart, Reread, ResyncDetach, TypeOK
<1>4. ASSUME Free(l) PROVE TypeOK'
  <2>1. proc' \in Procs
    BY <1>0, <1>4, GoType DEF Free
  <2>2. row' \in Rows
    BY <1>2, <1>4 DEF Free
  <2>3. QED
    BY <1>4, <2>1, <2>2 DEF Free, TypeOK
<1>5. ASSUME Resync(l) \/ Decide(l) PROVE TypeOK'
  <2>1. proc' \in Procs
    BY <1>0, <1>5, GoType DEF Resync, Decide
  <2>2. QED
    BY <1>5, <2>1 DEF Resync, Decide, TypeOK
<1>6. ASSUME Delete(l) PROVE TypeOK'
  <2>1. proc' \in Procs
    BY <1>0, <1>6, GoType DEF Delete
  <2>2. usb' \in [Leases -> SUBSET Entries] /\ alive' \in [Leases -> BOOLEAN]
    BY <1>6 DEF Delete, TypeOK
  <2>3. QED
    BY <1>6, <2>1, <2>2 DEF Delete, TypeOK
<1>7. ASSUME Settle(l) \/ AttemptFails(l) PROVE TypeOK'
  <2>1. proc' \in Procs
    BY <1>0, <1>7, GoType, BecomeIs DEF Settle, AttemptFails
  <2>2. lease' \in [Leases -> LeaseStates]
    BY <1>7 DEF Settle, AttemptFails, TypeOK, LeaseStates
  <2>3. QED
    BY <1>7, <2>1, <2>2 DEF Settle, AttemptFails, TypeOK
<1>8. ASSUME BareHolds(l) PROVE TypeOK'
  <2>1. proc' \in Procs
    BY <1>0, <1>8, GoType, BecomeIs DEF BareHolds
  <2>2. QED
    BY <1>8, <2>1 DEF BareHolds, TypeOK
<1>9. ASSUME ReleaseUnattached(l) PROVE TypeOK'
  <2>1. proc' \in Procs
    BY <1>0, <1>9, BecomeIs DEF ReleaseUnattached
  <2>2. row' \in Rows
    BY <1>2, <1>9 DEF ReleaseUnattached
  <2>3. QED
    BY <1>9, <2>1, <2>2 DEF ReleaseUnattached, TypeOK
<1>10. QED
  BY <1>3, <1>4, <1>5, <1>6, <1>7, <1>8, <1>9, DetachingTypes DEF Cleaning

\* The reconciler's steps keep the types.
LEMMA ReconcilingTypes ==
    ASSUME TypeOK, NEW l \in Leases, Reconciling(l)
    PROVE  TypeOK'
<1> DEFINE Procs == [Leases -> [Parties -> Locals]]
<1> "pass" \in Parties
  BY DEF Parties
<1>1. ASSUME PassStart(l) PROVE TypeOK'
  <2> DEFINE pc == IF row[l].st = "held" THEN "finish" ELSE "view"
  <2>1. pc \in {"finish", "view"}
    OBVIOUS
  <2>2. Become(l, "pass", [Idle EXCEPT !.st = row[l].st, !.slot = row[l].slot,
                                       !.pc = pc])
    BY <1>1 DEF PassStart
  <2> HIDE DEF pc
  <2>3. [Idle EXCEPT !.st = row[l].st, !.slot = row[l].slot, !.pc = pc] \in Locals
    BY <2>1, RowType, IdleRows
  <2>4. proc' \in Procs
    BY <2>2, <2>3, BecomeIs
  <2>5. QED
    BY <1>1, <2>4 DEF PassStart, TypeOK
<1>2. ASSUME PassView(l) PROVE TypeOK'
  <2> DEFINE r == proc[l]["pass"]
  <2>1. r \in Locals /\ {"clear", "move", "unknown"} \subseteq Pcs
    BY DEF TypeOK, Pcs
  <2> HIDE DEF r
  <2>2. \/ Go(l, "pass", "clear") \/ Go(l, "pass", "move") \/ Done(l, "pass", FALSE)
        \/ Become(l, "pass", [r EXCEPT !.pc = "unknown", !.slot = NoSlot])
    BY <1>2, Zenon DEF PassView, r
  <2>3. [r EXCEPT !.pc = "unknown", !.slot = NoSlot] \in Locals
    BY <2>1, WriterRows, Zenon
  <2>4. proc' \in Procs
    BY <2>1, <2>2, <2>3, GoType, DoneType, BecomeIs
  <2>5. faults' \in 0 .. MaxFaults
    BY <1>2, FaultType DEF PassView, Readable, Unreadable
  <2>6. QED
    BY <1>2, <2>4, <2>5 DEF PassView, TypeOK
<1>3. QED
  BY <1>1, <1>2, DetachingTypes, UnknownTypes DEF Reconciling

\* The world's steps keep the types.
LEMMA WorldTypes ==
    ASSUME TypeOK, NEW l \in Leases, World(l)
    PROVE  TypeOK'
<1>1. ASSUME Reserve(l) PROVE TypeOK'
  <2>1. PICK stale \in SUBSET Leases :
          row' = [m \in Leases |->
                    IF m = l THEN [st |-> "held", slot |-> NoSlot]
                    ELSE IF m \in stale THEN [row[m] EXCEPT !.st = "released"]
                    ELSE row[m]]
    BY <1>1 DEF Reserve
  <2>2. \A m \in Leases :
          /\ row[m] \in [st : RowStates, slot : Slots \cup {NoSlot}]
          /\ [row[m] EXCEPT !.st = "released"]
               \in [st : RowStates, slot : Slots \cup {NoSlot}]
    BY RowType, RowStatesAre
  <2>3. [st |-> "held", slot |-> NoSlot] \in [st : RowStates, slot : Slots \cup {NoSlot}]
    BY RowStatesAre
  <2>4. row' \in [Leases -> [st : RowStates, slot : Slots \cup {NoSlot}]]
    BY <2>1, <2>2, <2>3
  <2>5. QED
    BY <1>1, <2>4 DEF Reserve, TypeOK
<1>2. ASSUME LeaseMoves(l) PROVE TypeOK'
  BY <1>2 DEF LeaseMoves, TypeOK
<1>3. ASSUME OperatorAttach(l) PROVE TypeOK'
  <2>1. faults' \in 0 .. MaxFaults
    BY <1>3, FaultType DEF OperatorAttach
  <2>2. \A s \in Slots : usb[l] \cup {[slot |-> s, by |-> "operator",
                                       view |-> "applied"]} \in SUBSET Entries
    BY DEF TypeOK, Entries
  <2>3. usb' \in [Leases -> SUBSET Entries]
    BY <1>3, <2>2 DEF OperatorAttach, TypeOK
  <2>4. QED
    BY <1>3, <2>1, <2>3 DEF OperatorAttach, TypeOK
<1>4. ASSUME GuestRestart(l) PROVE TypeOK'
  <2>0. usb[l] \subseteq Entries
    BY DEF TypeOK
  <2>1. \A e \in usb[l] : [e EXCEPT !.view = "applied"] \in Entries
    BY <2>0 DEF Entries
  <2>2. usb' \in [Leases -> SUBSET Entries]
    BY <1>4, <2>1 DEF GuestRestart, TypeOK
  <2>3. QED
    BY <1>4, <2>2 DEF GuestRestart, TypeOK
<1>5. ASSUME NEW what \in Requests, Ask(l, what) PROVE TypeOK'
  BY <1>5 DEF Ask, TypeOK
<1>6. QED
  BY <1>1, <1>2, <1>3, <1>4, <1>5 DEF World

\* Every step keeps the types.
LEMMA StepTypeOK == TypeOK /\ [Next]_vars => TypeOK'
<1> SUFFICES ASSUME TypeOK, [Next]_vars PROVE TypeOK'
  OBVIOUS
<1>1. ASSUME Restart PROVE TypeOK'
  <2>1. proc' \in [Leases -> [Parties -> Locals]]
    BY <1>1, IdleType DEF Restart
  <2>2. faults' \in 0 .. MaxFaults
    BY <1>1, FaultType DEF Restart
  <2>3. wrote' \in [Leases -> {"nothing", "sent", "left"}]
    BY <1>1 DEF Restart, TypeOK
  <2>4. QED
    BY <1>1, <2>1, <2>2, <2>3 DEF Restart, TypeOK
<1>2. CASE UNCHANGED vars
  BY <1>2 DEF vars, TypeOK
<1>3. QED
  BY <1>1, <1>2, WritingTypes, CleaningTypes, ReconcilingTypes, WorldTypes DEF Next

-----------------------------------------------------------------------------
(* What the steps of one party leave to the others.                        *)

\* A step of the cleanup, the reconciler, the guest or an operator takes the row
\* towards its release, and leaves no new entry of Fleet's; it takes an applied
\* one only if no writer is about to record it and no row says it is attached.
Moves(r, u, o, w, r2, u2, o2) ==
    /\ \/ r2 = r
       \/ /\ r2.st \in {"attach_unknown", "detaching", "detach_failed", "released"}
          /\ r.st # "none"
          /\ r2.st = "released" => Covered(u, o, w)
    /\ \A e \in u2 : e.by = "fleet" => \E f \in u : f.by = "fleet" /\ f.slot = e.slot
    /\ \A x : Applied(x) \in u =>
         Applied(x) \in u2 \/ (~Straddles(r, w) /\ r.st # "attached")
    /\ o2 = o \/ o2 = "left"

LEMMA MovesKeepWriter ==
    ASSUME NEW r, NEW u, NEW o, NEW w, NEW r2, NEW u2, NEW o2,
           WriterInv(r, u, o, w), Moves(r, u, o, w, r2, u2, o2)
    PROVE  WriterInv(r2, u2, o2, w)
<1>1. Clean(u, o) => Clean(u2, o2)
  BY DEF Moves, Clean
<1>2. Covered(u, o, w) => Covered(u2, o2, w)
  BY <1>1 DEF Covered
<1>3. \/ r2 = r
      \/ r2.st \in {"attach_unknown", "detaching", "detach_failed", "released"}
  BY DEF Moves
<1>4. Covered(u2, o2, w) \/ r2.st \in Live \ {"held"}
  BY <1>2, RowStatesAre DEF Moves, WriterInv, Live
<1>5. w.pc \in {"record", "undo"} =>
         o2 = "left" \/ \A e \in u2 : e.by = "fleet" => e.slot = w.slot
  BY DEF Moves, WriterInv
<1>6. w.pc = "record" /\ r2.st = "attaching" => Applied(w.slot) \in u2
  BY <1>3 DEF Moves, WriterInv, Straddles, Answers
<1>7. r2.st = "attached" => Applied(r2.slot) \in u2
  BY <1>3 DEF Moves, WriterInv
<1>8. r2.st = "none" => w.pc = "idle" /\ \A e \in u2 : e.by # "fleet"
  BY <1>3 DEF Moves, WriterInv
<1>9. QED
  BY <1>1, <1>3, <1>4, <1>5, <1>6, <1>7, <1>8 DEF WriterInv

Counting == {"provisioning", "ready"}

LEMMA MovesKeepParty ==
    ASSUME NEW s, NEW r, NEW u, NEW o, NEW w, NEW q, NEW s2, NEW r2, NEW u2, NEW o2,
           PartyInv(s, r, u, o, w, q), Moves(r, u, o, w, r2, u2, o2),
           s2 \in Counting => s \in Counting
    PROVE  PartyInv(s2, r2, u2, o2, w, q)
<1>1. Covered(u, o, w) => Covered(u2, o2, w)
  BY DEF Moves, Covered, Clean
<1>2. \/ r2 = r
      \/ r2.st \in {"attach_unknown", "detaching", "detach_failed", "released"}
  BY DEF Moves
<1>3. Straddles(r2, w) => Straddles(r, w)
  BY <1>2 DEF Straddles
<1>4. QED
  BY <1>1, <1>2, <1>3 DEF PartyInv, Counting

\* A step of the writer lets no write straddle the row unless the lease counts,
\* and ends to answer for an entry only by a move of the row from attaching.
WriterMoves(s, r, u, o, w, r2, u2, o2, w2) ==
    /\ Straddles(r2, w2) => Straddles(r, w) \/ s \in Counting
    /\ r2.st = "attached" => r.st = "attached" \/ Straddles(r, w)
    /\ Covered(u, o, w) =>
         Covered(u2, o2, w2) \/ (Straddles(r, w) /\ r2.st # "attaching")
    /\ r2.st = "attaching" => r.st = "attaching" \/ Covered(u2, o2, w2)
    /\ r2.st = "none" => r.st = "none"

LEMMA WriterMovesKeepParty ==
    ASSUME NEW s, NEW r, NEW u, NEW o, NEW w, NEW q, NEW s2, NEW r2, NEW u2, NEW o2,
           NEW w2, PartyInv(s, r, u, o, w, q),
           WriterMoves(s, r, u, o, w, r2, u2, o2, w2),
           s2 \in Counting => s \in Counting
    PROVE  PartyInv(s2, r2, u2, o2, w2, q)
<1>1. q.pc # "idle" /\ ~Early(q) => ~Straddles(r, w) /\ ~Straddles(r2, w2)
  BY DEF PartyInv, WriterMoves, Counting
<1>2. q.pc \in {"finish", "free", "letgo"} => Covered(u2, o2, w2)
  BY <1>1 DEF PartyInv, WriterMoves, Early
<1>3. q.pc = "clear" =>
        Covered(u2, o2, w2) \/ (q.st = "attaching" /\ r2.st # "attaching")
  BY <1>1 DEF PartyInv, WriterMoves, Early
<1>4. q.pc \notin {"idle", "resync"} /\ ~Early(q) /\ ~Trusting(q)
         => r2.st # "attached"
  BY <1>1 DEF PartyInv, WriterMoves
<1>5. QED
  BY <1>1, <1>2, <1>3, <1>4 DEF PartyInv, WriterMoves, Counting

-----------------------------------------------------------------------------
(* The steps of the cleanup and of the reconciler.                         *)

\* What a party becomes when it only goes on.
LEMMA GoIs ==
    ASSUME TypeOK, NEW l \in Leases, NEW p \in Parties, NEW pc, Go(l, p, pc)
    PROVE  LET q == proc[l][p]
               q2 == proc'[l][p]
           IN  /\ q2.pc = pc /\ q2.st = q.st /\ q2.slot = q.slot
               /\ q2.own = q.own /\ q2.keep = q.keep /\ q2.kind = q.kind
               /\ \A k \in Parties \ {p} : proc'[l][k] = proc[l][k]
               /\ \A m \in Leases \ {l} : proc'[m] = proc[m]
BY BecomeIs DEF Go, TypeOK, Locals

\* A party that is done rests, or goes on to the guest's fate.
LEMMA DoneParty ==
    ASSUME TypeOK, NEW l \in Leases, NEW k \in {"cleaner", "pass"}, NEW ok,
           Done(l, k, ok), proc[l][k].kind \in {"pass", "first", "again"},
           NEW s, NEW r, NEW u, NEW o, NEW w,
           k = "cleaner" =>
             s \notin Counting /\ ~Straddles(r, w) /\ r.st # "attached"
    PROVE  /\ PartyInv(s, r, u, o, w, proc'[l][k])
           /\ proc'[l][k].pc \notin DetachPcs
<1>1. k \in Parties
  BY DEF Parties
<1>2. proc'[l][k] = After(l, k, ok)
  BY <1>1, BecomeIs DEF Done
<1>3. /\ After(l, k, ok).pc \in IF k = "cleaner" THEN {"destroy", "failed"} ELSE {"idle"}
      /\ After(l, k, ok).st = "none" /\ ~After(l, k, ok).keep
      /\ After(l, k, ok).kind = "pass"
  BY DEF After, Idle
<1>4. QED
  BY <1>2, <1>3 DEF PartyInv, DetachInv, DetachPcs, Early, Trusting, Counting

\* A party that lost its row looks again, or is done.
LEMMA LostParty ==
    ASSUME TypeOK, NEW l \in Leases, NEW k \in {"cleaner", "pass"}, Lost(l, k),
           proc[l][k].kind \in {"pass", "first", "again"}, ~proc[l][k].keep,
           NEW s, NEW r, NEW u, NEW o, NEW w,
           k = "cleaner" =>
             /\ s \notin Counting /\ ~Straddles(r, w) /\ r.st # "none"
             /\ proc[l][k].kind # "pass"
             /\ proc[l][k].kind = "again" => r.st # "attached"
    PROVE  /\ PartyInv(s, r, u, o, w, proc'[l][k])
           /\ proc'[l][k].pc \notin DetachPcs
<1>1. k \in Parties
  BY DEF Parties
<1>2. CASE k = "cleaner" /\ proc[l][k].kind = "first"
  <2>1. Go(l, k, "resync")
    BY <1>2 DEF Lost
  <2>2. QED
    BY <1>1, <1>2, <2>1, GoIs
    DEF PartyInv, DetachInv, DetachPcs, Early, Trusting, Counting
<1>3. CASE ~(k = "cleaner" /\ proc[l][k].kind = "first")
  <2>1. Done(l, k, FALSE)
    BY <1>3 DEF Lost
  <2>2. QED
    BY <1>3, <2>1, DoneParty
<1>4. QED
  BY <1>2, <1>3

\* A delete leaves entries that were there, in their slots, and none of the
\* slot but one that waits to be removed.
LEMMA DeletedIs ==
    ASSUME TypeOK, NEW l \in Leases, NEW s, NEW gone \in Deleted(l, s) \cup {usb[l]}
    PROVE  \A e \in gone : \E f \in usb[l] : f.by = e.by /\ f.slot = e.slot
<1>1. usb[l] \subseteq Entries
  BY DEF TypeOK
<1>2. \A e \in usb[l] : LET f == [e EXCEPT !.view = "leaving"]
                       IN  f.by = e.by /\ f.slot = e.slot
  BY <1>1 DEF Entries
<1> DEFINE there == {e \in usb[l] : e.slot = s}
<1>3. CASE gone = usb[l] \/ gone = usb[l] \ there
  BY <1>3
<1>4. ASSUME NEW e \in usb[l], 
             gone = (usb[l] \ there) \cup {[e EXCEPT !.view = "leaving"]}
      PROVE  \A d \in gone : \E f \in usb[l] : f.by = d.by /\ f.slot = d.slot
  BY <1>2, <1>4
<1>5. QED
  BY <1>3, <1>4 DEF Deleted

\* A detach that the cleanup or the reconciler takes a step of.
LEMMA PartyDetaches ==
    ASSUME TypeOK, NEW l \in Leases, NEW k \in {"cleaner", "pass"},
           LeaseInv(lease[l], row[l], usb[l], wrote[l], proc[l]), Detaching(l, k)
    PROVE  /\ Moves(row[l], usb[l], wrote[l], proc[l]["writer"],
                    row'[l], usb'[l], wrote'[l])
           /\ PartyInv(lease'[l], row'[l], usb'[l], wrote'[l], proc[l]["writer"],
                       proc'[l][k])
           /\ k = "cleaner" /\ proc'[l][k].pc \in DetachPcs
              => proc'[l][k].kind # "pass"
<1> DEFINE s == lease[l]
           r == row[l]
           u == usb[l]
           o == wrote[l]
           w == proc[l]["writer"]
           q == proc[l][k]
           q2 == proc'[l][k]
           Goal == /\ Moves(r, u, o, w, r', u', o')
                   /\ PartyInv(s', r', u', o', w, q2)
                   /\ k = "cleaner" /\ q2.pc \in DetachPcs => q2.kind # "pass"
<1>0. /\ k \in Parties /\ q \in Locals
      /\ WriterInv(r, u, o, w) /\ PartyInv(s, r, u, o, w, q)
      /\ k = "cleaner" /\ q.pc \in DetachPcs => q.kind # "pass"
      /\ q.kind \in {"pass", "first", "again"} /\ ~q.keep
  BY DEF Parties, LeaseInv, TypeOK, PartyInv
<1>a. ASSUME q.pc \in DetachPcs
      PROVE  /\ s \notin Counting /\ r.st # "none"
             /\ ~Early(q) => ~Straddles(r, w)
             /\ ~Early(q) /\ ~Trusting(q) => r.st # "attached"
  BY <1>0, <1>a DEF PartyInv, DetachPcs, Counting
<1>1. ASSUME UNCHANGED <<row, usb, wrote>> PROVE Moves(r, u, o, w, r', u', o')
  BY <1>1 DEF Moves
<1>2. ASSUME ReadBeforeDetach(l, k) PROVE Goal
  <2>1. UNCHANGED <<lease, row, usb, wrote>> /\ q.pc = "read"
    BY <1>2 DEF ReadBeforeDetach
  <2>2. CASE Refs(l) = {} /\ Go(l, k, IF q.st = "held" THEN "finish" ELSE "clear")
    <3>1. Clean(u, o)
      BY <2>2 DEF Refs, Clean
    <3>2. PartyInv(s, r, u, o, w, q2)
      BY <1>0, <2>1, <2>2, <3>1, GoIs
      DEF PartyInv, DetachInv, Early, Trusting, Covered
    <3>3. QED
      BY <1>0, <1>1, <2>1, <2>2, <3>2, GoIs DEF DetachPcs
  <2>3. CASE Done(l, k, FALSE) /\ q.st = "held"
    <3>1. s \notin Counting /\ ~Straddles(r, w) /\ r.st # "attached"
      BY <1>a, <2>1, <2>3 DEF Early, Trusting, DetachPcs
    <3>2. PartyInv(s, r, u, o, w, q2) /\ q2.pc \notin DetachPcs
      BY <1>0, <2>3, <3>1, DoneParty
    <3>3. QED
      BY <1>1, <2>1, <3>2
  <2>4. CASE (Go(l, k, "unproven") \/ Go(l, k, "fail")) /\ (q.st # "held" \/ q.own)
    <3>1. PartyInv(s, r, u, o, w, q2)
      BY <1>0, <2>1, <2>4, GoIs DEF PartyInv, DetachInv, Early, Trusting
    <3>2. QED
      BY <1>0, <1>1, <2>1, <2>4, <3>1, GoIs DEF DetachPcs
  <2>5. CASE q.own /\ \E t \in Slots : Become(l, k, [q EXCEPT !.pc = "move", !.slot = t])
    <3>a. PICK t \in Slots : Become(l, k, [q EXCEPT !.pc = "move", !.slot = t])
      BY <2>5
    <3>0. q2 = [q EXCEPT !.pc = "move", !.slot = t]
      BY <1>0, <3>a, BecomeIs
    <3>1. /\ q2.pc = "move" /\ q2.st = q.st /\ q2.kind = q.kind /\ q2.keep = q.keep
      BY <1>0, <3>0 DEF Locals
    <3>2. PartyInv(s, r, u, o, w, q2)
      BY <1>0, <2>1, <2>5, <3>1 DEF PartyInv, DetachInv, Early, Trusting
    <3>3. QED
      BY <1>0, <1>1, <2>1, <3>1, <3>2 DEF DetachPcs
  <2>6. QED
    BY <1>2, <2>2, <2>3, <2>4, <2>5 DEF ReadBeforeDetach
<1>3. ASSUME Unproven(l, k) PROVE Goal
  <2>1. UNCHANGED <<lease, usb, wrote>> /\ q.pc = "unproven"
    BY <1>3 DEF Unproven
  <2>2. CASE /\ Cas(l, "attaching", "attach_unknown")
             /\ row' = Moved(l, "attach_unknown", NoSlot) /\ Done(l, k, FALSE)
    <3>1. r'.st = "attach_unknown" /\ r.st = "attaching"
      BY <2>2, MovedIs DEF Cas
    <3>2. Moves(r, u, o, w, r', u', o')
      BY <2>1, <3>1 DEF Moves, Straddles
    <3>3. s' \notin Counting /\ ~Straddles(r', w) /\ r'.st # "attached"
      BY <1>a, <2>1, <3>1 DEF Straddles, DetachPcs
    <3>4. PartyInv(s', r', u', o', w, q2) /\ q2.pc \notin DetachPcs
      BY <1>0, <2>2, <3>3, DoneParty
    <3>5. QED
      BY <3>2, <3>4
  <2>3. CASE q.st = "attaching" /\ ~Cas(l, "attaching", "attach_unknown")
             /\ Lost(l, k) /\ UNCHANGED row
    <3>1. r.st # "attaching"
      BY <2>3 DEF Cas, Successors
    <3>2. /\ s \notin Counting /\ ~Straddles(r, w) /\ r.st # "none"
          /\ q.kind = "again" => r.st # "attached"
      BY <1>a, <2>1, <2>3, <3>1 DEF Straddles, Early, Trusting, DetachPcs
    <3>3. PartyInv(s, r, u, o, w, q2) /\ q2.pc \notin DetachPcs
      BY <1>0, <2>1, <2>3, <3>2, LostParty DEF DetachPcs
    <3>4. QED
      BY <1>1, <2>1, <2>3, <3>3
  <2>4. CASE q.st # "attaching" /\ Done(l, k, FALSE) /\ UNCHANGED row
    <3>1. s \notin Counting /\ ~Straddles(r, w) /\ r.st # "attached"
      BY <1>a, <2>1, <2>4 DEF Early, Trusting, DetachPcs
    <3>2. PartyInv(s, r, u, o, w, q2) /\ q2.pc \notin DetachPcs
      BY <1>0, <2>4, <3>1, DoneParty
    <3>3. QED
      BY <1>1, <2>1, <2>4, <3>2
  <2>5. QED
    BY <1>3, <2>2, <2>3, <2>4 DEF Unproven
<1>4. ASSUME StartDetach(l, k) PROVE Goal
  <2>1. UNCHANGED <<lease, usb, wrote>> /\ q.pc \in {"clear", "move"}
    BY <1>4 DEF StartDetach, LeftBy, LeavesIf
  <2> DEFINE next == IF q.pc = "clear" THEN "finish" ELSE "put"
             slot == IF q.pc = "clear" THEN ClearedSlot(l, k) ELSE q.slot
  <2>2. CASE q.st = "detaching" /\ Go(l, k, next) /\ UNCHANGED row
    <3>1. PartyInv(s, r, u, o, w, q2)
      BY <1>0, <2>1, <2>2, GoIs DEF PartyInv, DetachInv, Early, Trusting
    <3>2. QED
      BY <1>0, <1>1, <2>1, <2>2, <3>1, GoIs DEF DetachPcs
  <2>3. CASE /\ q.st # "detaching" /\ Cas(l, q.st, "detaching")
             /\ row' = Moved(l, "detaching", slot)
             /\ Become(l, k, [q EXCEPT !.pc = next, !.st = "detaching"])
    <3>1. r'.st = "detaching" /\ r.st = q.st
      BY <2>3, MovedIs DEF Cas
    <3>2. /\ q2.pc = next /\ q2.st = "detaching" /\ q2.kind = q.kind
          /\ q2.keep = q.keep
      <4>1. q2 = [q EXCEPT !.pc = next, !.st = "detaching"]
        BY <1>0, <2>3, BecomeIs
      <4>2. QED
        BY <1>0, <4>1 DEF Locals
    <3>3. r.st # "none"
      BY <1>a, <2>1 DEF DetachPcs
    <3>4. Moves(r, u, o, w, r', u', o')
      BY <2>1, <3>1, <3>3 DEF Moves
    <3>5. PartyInv(s', r', u', o', w, q2)
      BY <1>0, <2>1, <3>1, <3>2
      DEF PartyInv, DetachInv, Straddles, Early, Trusting
    <3>6. QED
      BY <1>0, <2>1, <3>2, <3>4, <3>5 DEF DetachPcs
  <2>4. CASE q.st # "detaching" /\ ~Cas(l, q.st, "detaching") /\ Lost(l, k)
             /\ UNCHANGED row
    <3>0. q.st \in Taken
      BY <1>0, <2>1 DEF PartyInv, DetachInv
    <3>1. r.st # q.st
      BY <2>4, <3>0 DEF Cas, Successors, Taken
    <3>2. /\ s \notin Counting /\ ~Straddles(r, w) /\ r.st # "none"
          /\ q.kind = "again" => r.st # "attached"
      BY <1>a, <2>1, <3>1 DEF Straddles, Early, Trusting, DetachPcs
    <3>3. PartyInv(s, r, u, o, w, q2) /\ q2.pc \notin DetachPcs
      BY <1>0, <2>1, <2>4, <3>2, LostParty DEF DetachPcs
    <3>4. QED
      BY <1>1, <2>1, <2>4, <3>3
  <2>5. QED
    BY <1>4, <2>2, <2>3, <2>4 DEF StartDetach
<1>5. ASSUME PutDelete(l, k) PROVE Goal
  <2>1. UNCHANGED <<lease, row, wrote>> /\ q.pc = "put"
    BY <1>5 DEF PutDelete
  <2>2. q.st = "detaching"
    BY <1>0, <2>1 DEF PartyInv, DetachInv
  <2>3. s \notin Counting /\ ~Straddles(r, w) /\ r.st # "attached" /\ r.st # "none"
    BY <1>a, <2>1, <2>2 DEF Early, Trusting, DetachPcs
  <2>4. Moves(r, u, o, w, r', u', o')
    <3>1. PICK gone \in Deleted(l, q.slot) \cup {u} :
            usb' = [usb EXCEPT ![l] = gone]
      BY <1>0, <1>5, PutDeletes
    <3>2. \A e \in gone : e.by = "fleet" =>
             \E f \in u : f.by = "fleet" /\ f.slot = e.slot
      BY DeletedIs
    <3>3. u' = gone
      BY <3>1 DEF TypeOK
    <3>4. QED
      BY <2>1, <2>3, <3>2, <3>3 DEF Moves
  <2>5. Done(l, k, FALSE) \/ Go(l, k, "confirm") \/ Go(l, k, "fail")
    BY <1>5 DEF PutDelete
  <2>6. CASE Done(l, k, FALSE)
    <3>1. PartyInv(s', r', u', o', w, q2) /\ q2.pc \notin DetachPcs
      BY <1>0, <2>1, <2>3, <2>6, DoneParty
    <3>2. QED
      BY <2>4, <3>1
  <2>7. CASE Go(l, k, "confirm") \/ Go(l, k, "fail")
    <3>1. PartyInv(s', r', u', o', w, q2)
      BY <1>0, <2>1, <2>2, <2>3, <2>7, GoIs
      DEF PartyInv, DetachInv, Counting, Taken
    <3>2. QED
      BY <1>0, <2>1, <2>4, <2>7, <3>1, GoIs DEF DetachPcs
  <2>8. QED
    BY <2>5, <2>6, <2>7
<1>6. ASSUME Confirm(l, k) PROVE Goal
  <2>1. UNCHANGED <<lease, row, usb, wrote>> /\ q.pc = "confirm"
    BY <1>6 DEF Confirm
  <2>2. (Go(l, k, "finish") /\ Clean(u, o)) \/ Go(l, k, "fail")
    BY <1>6 DEF Confirm, Refs, Clean
  <2>3. PartyInv(s, r, u, o, w, q2)
    BY <1>0, <2>1, <2>2, GoIs
    DEF PartyInv, DetachInv, Early, Trusting, Covered, Taken
  <2>4. QED
    BY <1>0, <1>1, <2>1, <2>2, <2>3, GoIs DEF DetachPcs
<1>7. ASSUME Finish(l, k) PROVE Goal
  <2>1. UNCHANGED <<lease, usb, wrote>> /\ q.pc = "finish" /\ ~q.keep
    BY <1>0, <1>7 DEF Finish
  <2>2. /\ s \notin Counting /\ ~Straddles(r, w) /\ r.st # "attached" /\ r.st # "none"
        /\ Covered(u, o, w)
    BY <1>0, <1>a, <2>1 DEF Early, Trusting, DetachPcs, PartyInv
  <2>3. CASE row' = Moved(l, "released", row[l].slot) /\ Done(l, k, TRUE)
    <3>1. r'.st = "released"
      BY <2>3, MovedIs
    <3>2. Moves(r, u, o, w, r', u', o')
      BY <2>1, <2>2, <3>1 DEF Moves
    <3>3. PartyInv(s', r', u', o', w, q2) /\ q2.pc \notin DetachPcs
      BY <1>0, <2>1, <2>2, <2>3, <3>1, DoneParty DEF Straddles
    <3>4. QED
      BY <3>2, <3>3
  <2>4. CASE (Done(l, k, TRUE) \/ Lost(l, k)) /\ UNCHANGED row
    <3>1. PartyInv(s, r, u, o, w, q2) /\ q2.pc \notin DetachPcs
      BY <1>0, <2>1, <2>2, <2>4, DoneParty, LostParty, ZenonT(40) DEF DetachPcs
    <3>2. QED
      BY <1>1, <2>1, <2>4, <3>1
  <2>5. QED
    BY <1>7, <2>1, <2>3, <2>4 DEF Finish
<1>8. ASSUME FailDetach(l, k) PROVE Goal
  <2> DEFINE to == Failing[q.st]
  <2>1. UNCHANGED <<lease, usb, wrote>> /\ q.pc = "fail"
    BY <1>8 DEF FailDetach, LeftBy, LeavesIf
  <2>2. q.st \in Taken /\ s \notin Counting /\ r.st # "none"
    BY <1>0, <1>a, <2>1 DEF PartyInv, DetachInv, DetachPcs
  <2>3. CASE q.st = "detach_failed" /\ Done(l, k, FALSE) /\ UNCHANGED row
    <3>1. ~Straddles(r, w) /\ r.st # "attached"
      BY <1>a, <2>1, <2>3 DEF Early, Trusting, DetachPcs
    <3>2. PartyInv(s, r, u, o, w, q2) /\ q2.pc \notin DetachPcs
      BY <1>0, <2>2, <2>3, <3>1, DoneParty
    <3>3. QED
      BY <1>1, <2>1, <2>3, <3>2
  <2>4. CASE /\ q.st # "detach_failed" /\ Cas(l, q.st, to)
             /\ row' = Moved(l, to, IF to = "attach_unknown" THEN NoSlot
                                    ELSE row[l].slot)
             /\ IF to = "detaching" THEN Become(l, k, [q EXCEPT !.st = to])
                ELSE Done(l, k, FALSE)
    <3>1. to \in {"detach_failed", "attach_unknown", "detaching"}
      BY <2>2, <2>4 DEF Failing, Taken
    <3>2. r'.st = to
      <4> HIDE DEF to
      <4>1. QED
        BY <2>4, MovedIs
    <3>3. Moves(r, u, o, w, r', u', o')
      BY <2>1, <2>2, <3>1, <3>2 DEF Moves
    <3>4. CASE to = "detaching"
      <4>1. q2 = [q EXCEPT !.st = "detaching"]
        BY <1>0, <2>4, <3>4, BecomeIs
      <4>2. /\ q2.pc = "fail" /\ q2.st = "detaching" /\ q2.kind = q.kind
            /\ q2.keep = q.keep
        BY <1>0, <2>1, <4>1 DEF Locals
      <4>3. PartyInv(s', r', u', o', w, q2)
        BY <1>0, <2>1, <2>2, <3>2, <3>4, <4>2
        DEF PartyInv, DetachInv, Straddles, Counting, Taken
      <4>4. QED
        BY <1>0, <2>1, <3>3, <4>2, <4>3 DEF DetachPcs
    <3>5. CASE to # "detaching"
      <4>1. Done(l, k, FALSE)
        BY <2>4, <3>5
      <4>2. ~Straddles(r', w) /\ r'.st # "attached"
        BY <3>1, <3>2 DEF Straddles
      <4>3. PartyInv(s', r', u', o', w, q2) /\ q2.pc \notin DetachPcs
        BY <1>0, <2>1, <2>2, <4>1, <4>2, DoneParty
      <4>4. QED
        BY <3>3, <4>3
    <3>6. QED
      BY <3>4, <3>5
  <2>5. CASE q.st # "detach_failed" /\ ~Cas(l, q.st, to) /\ Lost(l, k)
             /\ UNCHANGED row
    <3>1. r.st # q.st
      BY <2>2, <2>5 DEF Cas, Successors, Taken, Failing
    <3>2. /\ s \notin Counting /\ ~Straddles(r, w) /\ r.st # "none"
          /\ q.kind = "again" => r.st # "attached"
      BY <1>a, <2>1, <3>1 DEF Straddles, Early, Trusting, DetachPcs
    <3>3. PartyInv(s, r, u, o, w, q2) /\ q2.pc \notin DetachPcs
      BY <1>0, <2>1, <2>5, <3>2, LostParty DEF DetachPcs
    <3>4. QED
      BY <1>1, <2>1, <2>5, <3>3
  <2>6. QED
    BY <1>8, <2>3, <2>4, <2>5 DEF FailDetach
<1>9. QED
  BY <1>2, <1>3, <1>4, <1>5, <1>6, <1>7, <1>8 DEF Detaching

\* A party at rest.
LEMMA IdleParty ==
    ASSUME NEW s, NEW r, NEW u, NEW o, NEW w
    PROVE  PartyInv(s, r, u, o, w, Idle) /\ Idle.pc \notin DetachPcs
BY DEF PartyInv, DetachInv, DetachPcs, Idle

\* Cleanup that goes on from the row as it is.
LEMMA DetachRowParty ==
    ASSUME TypeOK, NEW l \in Leases, NEW kind \in {"first", "again"},
           DetachRow(l, kind), NEW s, NEW u, NEW o, NEW w,
           WriterInv(row[l], u, o, w), s \notin Counting,
           row[l].st \notin {"none", "released"}, ~HoldsNothing(l),
           kind = "again" => ~Straddles(row[l], w)
    PROVE  /\ PartyInv(s, row[l], u, o, w, proc'[l]["cleaner"])
           /\ proc'[l]["cleaner"].kind # "pass"
<1> DEFINE r == row[l]
           q2 == proc'[l]["cleaner"]
<1>0. "cleaner" \in Parties
  BY DEF Parties
<1>1. q2 = Detach(r.st, r.slot, r.st # "attaching", FALSE, kind)
  <2> DEFINE d == Detach(r.st, r.slot, r.st # "attaching", FALSE, kind)
  <2>1. Become(l, "cleaner", d)
    BY DEF DetachRow
  <2> HIDE DEF d
  <2>2. q2 = d
    BY <1>0, <2>1, BecomeIs
  <2>3. QED
    BY <2>2 DEF d
<1>2. /\ q2.pc = IF r.st # "attached" THEN "read"
                 ELSE IF r.slot = NoSlot THEN "fail" ELSE "move"
      /\ q2.st = r.st /\ ~q2.keep /\ q2.kind = kind
  BY <1>1 DEF Detach
<1>3. r.st \in Taken
  BY RowType, RowStatesAre DEF WriterInv, HoldsNothing, Taken
<1>4. DetachInv(q2)
  BY <1>2, <1>3 DEF DetachInv, Taken
<1>5. q2.pc # "idle" /\ ~Early(q2) => ~Straddles(r, w)
  BY <1>2 DEF Early, Straddles
<1>6. ~Trusting(q2) => r.st # "attached"
  BY <1>2 DEF Trusting
<1>7. QED
  BY <1>2, <1>3, <1>4, <1>5, <1>6 DEF PartyInv, Counting

\* The cleanup's own steps.
LEMMA CleanerActs ==
    ASSUME TypeOK, NEW l \in Leases,
           LeaseInv(lease[l], row[l], usb[l], wrote[l], proc[l]),
           Cleaning(l), ~Detaching(l, "cleaner")
    PROVE  /\ Moves(row[l], usb[l], wrote[l], proc[l]["writer"],
                    row'[l], usb'[l], wrote'[l])
           /\ PartyInv(lease'[l], row'[l], usb'[l], wrote'[l], proc[l]["writer"],
                       proc'[l]["cleaner"])
           /\ proc'[l]["cleaner"].pc \in DetachPcs
              => proc'[l]["cleaner"].kind # "pass"
           /\ lease'[l] \in Counting => lease[l] \in Counting
<1> DEFINE s == lease[l]
           r == row[l]
           u == usb[l]
           o == wrote[l]
           w == proc[l]["writer"]
           q == proc[l]["cleaner"]
           q2 == proc'[l]["cleaner"]
           Goal == /\ Moves(r, u, o, w, r', u', o')
                   /\ PartyInv(s', r', u', o', w, q2)
                   /\ q2.pc \in DetachPcs => q2.kind # "pass"
                   /\ s' \in Counting => s \in Counting
<1>0. /\ "cleaner" \in Parties
      /\ WriterInv(r, u, o, w) /\ PartyInv(s, r, u, o, w, q)
  BY DEF Parties, LeaseInv
<1>1. ASSUME UNCHANGED <<row, usb, wrote>> PROVE Moves(r, u, o, w, r', u', o')
  BY <1>1 DEF Moves
<1>2. ASSUME UNCHANGED <<lease, row, usb, wrote>>, PartyInv(s, r, u, o, w, q2),
             q2.pc \in DetachPcs => q2.kind # "pass"
      PROVE  Goal
  BY <1>1, <1>2
<1>3. ASSUME q.pc # "idle" PROVE s \notin Counting
  BY <1>0, <1>3 DEF PartyInv, Counting
<1>4. r.st = "held" => Covered(u, o, w)
  BY <1>0 DEF WriterInv, Live
<1>5. ASSUME CleanStart(l) PROVE Goal
  <2>1. UNCHANGED <<lease, row, usb, wrote>> /\ s \notin Counting /\ q = Idle
    BY <1>5 DEF CleanStart, Counting
  <2>2. CASE r.st \in {"none", "released"} /\ Go(l, "cleaner", "destroy")
    <3>1. PartyInv(s, r, u, o, w, q2)
      BY <1>0, <2>1, <2>2, GoIs
      DEF PartyInv, DetachInv, Straddles, Counting, Idle
    <3>2. QED
      BY <1>0, <1>2, <2>1, <2>2, <3>1, GoIs DEF DetachPcs
  <2>3. CASE HoldsNothing(l) /\ Go(l, "cleaner", "free")
    <3>1. PartyInv(s, r, u, o, w, q2)
      BY <1>0, <1>4, <2>1, <2>3, GoIs
      DEF PartyInv, DetachInv, Straddles, Counting, Idle, HoldsNothing
    <3>2. QED
      BY <1>0, <1>2, <2>1, <2>3, <3>1, GoIs DEF DetachPcs
  <2>4. CASE r.st \in Live /\ ~HoldsNothing(l) /\ DetachRow(l, "first")
    <3>1. PartyInv(s, r, u, o, w, q2) /\ q2.kind # "pass"
      BY <1>0, <2>1, <2>4, DetachRowParty DEF Live
    <3>2. QED
      BY <1>2, <2>1, <3>1
  <2>5. QED
    BY <1>5, <2>2, <2>3, <2>4 DEF CleanStart
<1>6. ASSUME Free(l) PROVE Goal
  <2>1. /\ UNCHANGED <<lease, usb, wrote>> /\ q.pc = "free" /\ s \notin Counting
    BY <1>3, <1>6 DEF Free
  <2>2. Covered(u, o, w) /\ ~Straddles(r, w) /\ r.st \notin {"none", "attached"}
    BY <1>0, <2>1 DEF PartyInv, Early, Trusting
  <2>3. CASE Go(l, "cleaner", "destroy") /\ row' = Moved(l, "released", row[l].slot)
    <3>1. r'.st = "released"
      BY <2>3, MovedIs
    <3>2. Moves(r, u, o, w, r', u', o')
      BY <2>1, <2>2, <3>1 DEF Moves
    <3>3. PartyInv(s', r', u', o', w, q2)
      BY <1>0, <2>1, <2>3, <3>1, GoIs DEF PartyInv, DetachInv, Straddles, Counting
    <3>4. QED
      BY <1>0, <2>1, <2>3, <3>2, <3>3, GoIs DEF DetachPcs
  <2>4. CASE (Go(l, "cleaner", "destroy") \/ Go(l, "cleaner", "reread"))
             /\ UNCHANGED row
    <3>1. PartyInv(s, r, u, o, w, q2)
      BY <1>0, <2>1, <2>2, <2>4, GoIs DEF PartyInv, DetachInv, Counting
    <3>2. QED
      BY <1>0, <1>2, <2>1, <2>4, <3>1, GoIs DEF DetachPcs
  <2>5. QED
    BY <1>6, <2>3, <2>4 DEF Free
<1>7. ASSUME Reread(l) PROVE Goal
  <2>1. UNCHANGED <<lease, row, usb, wrote>> /\ q.pc = "reread" /\ s \notin Counting
    BY <1>3, <1>7 DEF Reread
  <2>2. ~Straddles(r, w) /\ r.st \notin {"none", "attached"}
    BY <1>0, <2>1 DEF PartyInv, Early, Trusting
  <2>3. CASE \/ Go(l, "cleaner", "destroy")
             \/ HoldsNothing(l) /\ Go(l, "cleaner", "free")
    <3>1. PartyInv(s, r, u, o, w, q2)
      BY <1>0, <1>4, <2>1, <2>2, <2>3, GoIs
      DEF PartyInv, DetachInv, Counting, HoldsNothing
    <3>2. QED
      BY <1>0, <1>2, <2>1, <2>3, <3>1, GoIs DEF DetachPcs
  <2>4. CASE ~Released(l) /\ ~HoldsNothing(l) /\ DetachRow(l, "first")
    <3>1. PartyInv(s, r, u, o, w, q2) /\ q2.kind # "pass"
      BY <1>0, <2>1, <2>2, <2>4, DetachRowParty DEF Released
    <3>2. QED
      BY <1>2, <2>1, <3>1
  <2>5. QED
    BY <1>7, <2>3, <2>4 DEF Reread
<1>8. ASSUME Resync(l) PROVE Goal
  <2>1. UNCHANGED <<lease, row, usb, wrote>> /\ q.pc = "resync" /\ s \notin Counting
    BY <1>3, <1>8 DEF Resync
  <2>2. PartyInv(s, r, u, o, w, q2)
    BY <1>0, <1>8, <2>1, GoIs
    DEF Resync, Released, HoldsNothing, PartyInv, DetachInv, Straddles, Counting
  <2>3. QED
    BY <1>0, <1>2, <1>8, <2>1, <2>2, GoIs DEF Resync, DetachPcs
<1>9. ASSUME ResyncDetach(l) PROVE Goal
  <2>1. UNCHANGED <<lease, row, usb, wrote>> /\ q.pc = "resync" /\ s \notin Counting
    BY <1>3, <1>9 DEF ResyncDetach
  <2>2. ~Straddles(r, w) /\ r.st # "none"
    BY <1>0, <2>1 DEF PartyInv, Early
  <2>3. PartyInv(s, r, u, o, w, q2) /\ q2.kind # "pass"
    BY <1>0, <1>9, <2>1, <2>2, DetachRowParty DEF ResyncDetach, Released
  <2>4. QED
    BY <1>2, <2>1, <2>3
<1>10. ASSUME Decide(l) PROVE Goal
  <2>1. /\ UNCHANGED <<lease, row, usb, wrote>> /\ q.pc = "destroy"
        /\ \E pc \in {"failed", "delete", "settle"} : Go(l, "cleaner", pc)
    BY <1>10 DEF Decide
  <2>2. PICK pc \in {"failed", "delete", "settle"} : Go(l, "cleaner", pc)
    BY <2>1
  <2>3. PartyInv(s, r, u, o, w, q2)
    BY <1>0, <2>1, <2>2, GoIs DEF PartyInv, DetachInv, Early, Trusting
  <2>4. QED
    BY <1>0, <1>2, <2>1, <2>2, <2>3, GoIs DEF DetachPcs
<1>11. ASSUME Delete(l) PROVE Goal
  <2>1. /\ UNCHANGED <<lease, row, wrote>> /\ q.pc = "delete"
        /\ Go(l, "cleaner", "settle") /\ u' = {}
    BY <1>11 DEF Delete, TypeOK
  <2>2. ~Straddles(r, w) /\ r.st # "attached" /\ s \notin Counting
    BY <1>0, <1>3, <2>1 DEF PartyInv, Early, Trusting
  <2>3. Moves(r, u, o, w, r', u', o')
    BY <2>1, <2>2 DEF Moves
  <2>4. PartyInv(s', r', u', o', w, q2)
    BY <1>0, <2>1, <2>2, GoIs DEF PartyInv, DetachInv, Counting
  <2>5. QED
    BY <1>0, <2>1, <2>3, <2>4, GoIs DEF DetachPcs
<1>12. ASSUME Settle(l) PROVE Goal
  <2>1. /\ UNCHANGED <<row, usb, wrote>> /\ q.pc = "settle"
        /\ Go(l, "cleaner", "bare") /\ s' = "released"
    BY <1>12 DEF Settle, TypeOK
  <2>2. PartyInv(s', r', u', o', w, q2)
    BY <1>0, <2>1, GoIs DEF PartyInv, DetachInv, Early, Trusting
  <2>3. QED
    BY <1>0, <1>1, <2>1, <2>2, GoIs DEF DetachPcs, Counting
<1>13. ASSUME BareHolds(l) PROVE Goal
  <2>1. UNCHANGED <<lease, row, usb, wrote>> /\ q.pc = "bare"
    BY <1>13 DEF BareHolds
  <2>2. CASE HoldsNothing(l) /\ Go(l, "cleaner", "letgo")
    <3>1. PartyInv(s, r, u, o, w, q2)
      BY <1>0, <1>4, <2>1, <2>2, GoIs
      DEF PartyInv, DetachInv, Early, Trusting, HoldsNothing
    <3>2. QED
      BY <1>0, <1>2, <2>1, <2>2, <3>1, GoIs DEF DetachPcs
  <2>3. CASE Become(l, "cleaner", Idle)
    BY <1>0, <1>2, <2>1, <2>3, BecomeIs, IdleParty
  <2>4. QED
    BY <1>13, <2>2, <2>3 DEF BareHolds
<1>14. ASSUME ReleaseUnattached(l) PROVE Goal
  <2>1. /\ UNCHANGED <<lease, usb, wrote>> /\ q.pc = "letgo"
        /\ Become(l, "cleaner", Idle)
        /\ row' = IF Releasable(l) THEN Moved(l, "released", row[l].slot) ELSE row
    BY <1>14 DEF ReleaseUnattached
  <2>2. r' = r \/ (r'.st = "released" /\ r.st # "none")
    BY <2>1, MovedIs DEF Releasable, HoldsNothing
  <2>3. Moves(r, u, o, w, r', u', o')
    BY <1>0, <2>1, <2>2 DEF Moves, PartyInv
  <2>4. QED
    BY <1>0, <2>1, <2>3, BecomeIs, IdleParty
<1>15. ASSUME AttemptFails(l) PROVE Goal
  <2>1. /\ UNCHANGED <<row, usb, wrote>> /\ Become(l, "cleaner", Idle)
        /\ s' \in {"releasing", "cleanup_failed"}
    BY <1>15 DEF AttemptFails, TypeOK
  <2>2. QED
    BY <1>0, <1>1, <2>1, BecomeIs, IdleParty DEF Counting
<1>16. QED
  BY <1>5, <1>6, <1>7, <1>8, <1>9, <1>10, <1>11, <1>12, <1>13, <1>14, <1>15
  DEF Cleaning

\* The reconciler's own steps.
LEMMA PassActs ==
    ASSUME TypeOK, NEW l \in Leases,
           LeaseInv(lease[l], row[l], usb[l], wrote[l], proc[l]),
           Reconciling(l), ~Detaching(l, "pass")
    PROVE  /\ Moves(row[l], usb[l], wrote[l], proc[l]["writer"],
                    row'[l], usb'[l], wrote'[l])
           /\ PartyInv(lease'[l], row'[l], usb'[l], wrote'[l], proc[l]["writer"],
                       proc'[l]["pass"])
           /\ lease'[l] \in Counting => lease[l] \in Counting
<1> DEFINE s == lease[l]
           r == row[l]
           u == usb[l]
           o == wrote[l]
           w == proc[l]["writer"]
           q == proc[l]["pass"]
           q2 == proc'[l]["pass"]
           Goal == /\ Moves(r, u, o, w, r', u', o')
                   /\ PartyInv(s', r', u', o', w, q2)
                   /\ s' \in Counting => s \in Counting
<1>0. /\ "pass" \in Parties /\ q \in Locals
      /\ WriterInv(r, u, o, w) /\ PartyInv(s, r, u, o, w, q)
  BY DEF Parties, LeaseInv, TypeOK
<1>1. ASSUME UNCHANGED <<lease, row, usb, wrote>>, PartyInv(s, r, u, o, w, q2)
      PROVE  Goal
  BY <1>1 DEF Moves
<1>2. ASSUME PassStart(l) PROVE Goal
  <2>1. /\ UNCHANGED <<lease, row, usb, wrote>> /\ s \notin Counting
        /\ r.st \in Live /\ q = Idle
    BY <1>2 DEF PassStart, Ended, Counting
  <2>2. /\ q2.pc = IF r.st = "held" THEN "finish" ELSE "view"
        /\ q2.st = r.st /\ ~q2.keep /\ q2.kind = "pass"
    <3> DEFINE pc == IF r.st = "held" THEN "finish" ELSE "view"
    <3>1. Become(l, "pass", [Idle EXCEPT !.st = r.st, !.slot = r.slot, !.pc = pc])
      BY <1>2 DEF PassStart
    <3> HIDE DEF pc
    <3>2. q2 = [Idle EXCEPT !.st = r.st, !.slot = r.slot, !.pc = pc]
      BY <1>0, <3>1, BecomeIs
    <3>3. QED
      BY <3>2 DEF Idle, pc
  <2>3. r.st \in Taken \cup {"held"}
    BY <2>1, RowType, RowStatesAre DEF Live, Taken
  <2>4. r.st = "held" => Covered(u, o, w)
    BY <1>0 DEF WriterInv, Live
  <2>5. PartyInv(s, r, u, o, w, q2)
    BY <2>1, <2>2, <2>3, <2>4
    DEF PartyInv, DetachInv, Straddles, Early, Trusting, Counting, Taken
  <2>6. QED
    BY <1>1, <2>1, <2>5
<1>3. ASSUME PassView(l) PROVE Goal
  <2>1. UNCHANGED <<lease, row, usb, wrote>> /\ q.pc = "view"
    BY <1>3 DEF PassView
  <2>2. CASE Refs(l) = {} /\ Go(l, "pass", "clear")
    <3>1. Clean(u, o)
      BY <2>2 DEF Refs, Clean
    <3>2. PartyInv(s, r, u, o, w, q2)
      BY <1>0, <2>1, <2>2, <3>1, GoIs
      DEF PartyInv, DetachInv, Early, Trusting, Covered
    <3>3. QED
      BY <1>1, <2>1, <3>2
  <2>3. CASE /\ q.st = "attaching"
             /\ Become(l, "pass", [q EXCEPT !.pc = "unknown", !.slot = NoSlot])
    <3>1. q2 = [q EXCEPT !.pc = "unknown", !.slot = NoSlot]
      BY <1>0, <2>3, BecomeIs
    <3>2. q2.pc = "unknown" /\ q2.st = q.st /\ q2.keep = q.keep /\ q2.kind = q.kind
      BY <1>0, <3>1 DEF Locals
    <3>3. PartyInv(s, r, u, o, w, q2)
      BY <1>0, <2>1, <2>3, <3>2 DEF PartyInv, DetachInv, Early, Trusting
    <3>4. QED
      BY <1>1, <2>1, <3>3
  <2>4. CASE Go(l, "pass", "move")
    <3>1. PartyInv(s, r, u, o, w, q2)
      BY <1>0, <2>1, <2>4, GoIs DEF PartyInv, DetachInv, Early, Trusting
    <3>2. QED
      BY <1>1, <2>1, <3>1
  <2>5. CASE Done(l, "pass", FALSE)
    <3>1. PartyInv(s, r, u, o, w, q2)
      BY <1>0, <2>5, DoneParty DEF PartyInv
    <3>2. QED
      BY <1>1, <2>1, <3>1
  <2>6. QED
    BY <1>3, <2>2, <2>3, <2>4, <2>5 DEF PassView
<1>4. ASSUME LeaveUnknown(l, "pass") PROVE Goal
  <2>1. UNCHANGED <<lease, usb>> /\ Done(l, "pass", FALSE)
    BY <1>4 DEF LeaveUnknown
  <2>2. o' = o \/ o' = "left"
    BY <1>4 DEF LeaveUnknown, LeavesIf, TypeOK
  <2>3. r' = r \/ (r'.st = "attach_unknown" /\ r.st = "attaching")
    BY <1>4, MovedIs DEF LeaveUnknown, Cas
  <2>4. Moves(r, u, o, w, r', u', o')
    BY <2>1, <2>2, <2>3 DEF Moves
  <2>5. PartyInv(s', r', u', o', w, q2)
    BY <1>0, <2>1, DoneParty DEF PartyInv
  <2>6. QED
    BY <2>1, <2>4, <2>5
<1>5. QED
  BY <1>2, <1>3, <1>4 DEF Reconciling

\* The guest, an operator and the lease's holder, and what a new reservation
\* does to the bare hold it takes over.
LEMMA WorldMoves ==
    ASSUME TypeOK, NEW l \in Leases,
           LeaseMoves(l) \/ OperatorAttach(l) \/ GuestRestart(l)
             \/ \E what \in Requests : Ask(l, what)
    PROVE  /\ Moves(row[l], usb[l], wrote[l], proc[l]["writer"],
                    row'[l], usb'[l], wrote'[l])
           /\ lease'[l] \in Counting => lease[l] \in Counting
           /\ \A m \in Leases \ {l} : lease'[m] = lease[m] /\ usb'[m] = usb[m]
           /\ UNCHANGED <<row, proc, wrote>>
<1>1. ASSUME LeaseMoves(l)
      PROVE  /\ UNCHANGED <<row, usb, proc, wrote>>
             /\ lease'[l] \in Counting => lease[l] \in Counting
             /\ \A m \in Leases \ {l} : lease'[m] = lease[m]
  BY <1>1 DEF LeaseMoves, TypeOK, Counting
<1>2. ASSUME OperatorAttach(l)
      PROVE  /\ UNCHANGED <<lease, row, proc, wrote>>
             /\ \E s \in Slots :
                  usb'[l] = usb[l] \cup {[slot |-> s, by |-> "operator",
                                          view |-> "applied"]}
             /\ \A m \in Leases \ {l} : usb'[m] = usb[m]
  BY <1>2 DEF OperatorAttach, TypeOK
<1>3. ASSUME GuestRestart(l)
      PROVE  /\ UNCHANGED <<lease, row, proc, wrote>>
             /\ usb'[l] = {[e EXCEPT !.view = "applied"] :
                             e \in {e \in usb[l] : e.view # "leaving"}}
             /\ \A m \in Leases \ {l} : usb'[m] = usb[m]
  BY <1>3 DEF GuestRestart, TypeOK
<1>4. CASE LeaseMoves(l)
  BY <1>1, <1>4 DEF Moves
<1>5. CASE OperatorAttach(l)
  <2>1. PICK s \in Slots :
          usb'[l] = usb[l] \cup {[slot |-> s, by |-> "operator", view |-> "applied"]}
    BY <1>2, <1>5
  <2>2. Moves(row[l], usb[l], wrote[l], proc[l]["writer"], row'[l], usb'[l], wrote'[l])
    BY <1>2, <1>5, <2>1 DEF Moves
  <2>3. QED
    BY <1>2, <1>5, <2>2
<1>6. CASE GuestRestart(l)
  <2>1. \A e \in usb[l] : LET f == [e EXCEPT !.view = "applied"]
                          IN  f.by = e.by /\ f.slot = e.slot
    BY DEF TypeOK, Entries
  <2>2. \A x : Applied(x) \in usb[l] => Applied(x) \in usb'[l]
    <3>1. \A x : /\ Applied(x).view # "leaving"
                 /\ [Applied(x) EXCEPT !.view = "applied"] = Applied(x)
      BY DEF Applied
    <3>2. QED
      BY <1>3, <1>6, <3>1
  <2>3. \A e \in usb'[l] : \E f \in usb[l] : f.by = e.by /\ f.slot = e.slot
    <3>1. ASSUME NEW e \in usb'[l]
          PROVE  \E f \in usb[l] : f.by = e.by /\ f.slot = e.slot
      <4>1. PICK f \in usb[l] : e = [f EXCEPT !.view = "applied"]
        BY <1>3, <1>6, <3>1
      <4>2. f.by = e.by /\ f.slot = e.slot
        BY <2>1, <4>1
      <4>3. QED
        BY <4>2
    <3>2. QED
      BY <3>1
  <2>4. Moves(row[l], usb[l], wrote[l], proc[l]["writer"], row'[l], usb'[l], wrote'[l])
    BY <1>3, <1>6, <2>2, <2>3 DEF Moves
  <2>5. QED
    BY <1>3, <1>6, <2>4
<1>7. CASE \E what \in Requests : Ask(l, what)
  BY <1>7 DEF Ask, Moves
<1>8. QED
  BY <1>4, <1>5, <1>6, <1>7

\* A reservation starts without an entry of Fleet's and without a party; the
\* bare hold that yields to it has none either.
LEMMA ReserveKeeps ==
    ASSUME IInv, NEW l \in Leases, Reserve(l)
    PROVE  IInv'
<1>1. PICK stale \in SUBSET Leases :
        /\ \A m \in stale : HoldsNothing(m)
        /\ \A m \in Leases : row[m].st \in Live => m \in stale
        /\ row' = [m \in Leases |->
                     IF m = l THEN [st |-> "held", slot |-> NoSlot]
                     ELSE IF m \in stale THEN [row[m] EXCEPT !.st = "released"]
                     ELSE row[m]]
  BY DEF Reserve
<1>2. /\ UNCHANGED <<lease, usb, alive, proc, asked, faults, wrote>>
      /\ lease[l] = "provisioning" /\ row[l].st = "none"
  BY DEF Reserve
<1>3. TypeOK /\ OneRow
      /\ \A m \in Leases : LeaseInv(lease[m], row[m], usb[m], wrote[m], proc[m])
  BY DEF IInv
<1>4. row'[l].st = "held" /\ row'[l].slot = NoSlot
  BY <1>1
<1>5. ASSUME NEW m \in Leases, m # l
      PROVE  /\ row'[m].st \notin Live
             /\ row'[m] = row[m] \/ (row'[m].st = "released" /\ row[m].st = "held")
  <2>1. row[m] \in [st : RowStates, slot : Slots \cup {NoSlot}]
    BY <1>3, RowType
  <2>2. CASE m \in stale
    <3>1. row'[m] = [row[m] EXCEPT !.st = "released"]
      BY <1>1, <1>5, <2>2
    <3>2. row'[m].st = "released"
      BY <2>1, <3>1
    <3>3. QED
      BY <1>1, <2>2, <3>2 DEF Live, HoldsNothing
  <2>3. CASE m \notin stale
    BY <1>1, <1>5, <2>3
  <2>4. QED
    BY <2>2, <2>3
<1>6. OneRow'
  BY <1>5 DEF OneRow
<1>7. TypeOK'
  BY <1>3, WorldTypes DEF World
<1>8. LeaseInv(lease[l], row'[l], usb[l], wrote[l], proc[l])
  <2>1. WriterInv(row'[l], usb[l], wrote[l], proc[l]["writer"])
    BY <1>2, <1>3, <1>4 DEF LeaseInv, WriterInv, DetachInv, Covered, Clean
  <2>2. ASSUME NEW k \in {"cleaner", "pass"} PROVE proc[l][k].pc = "idle"
    BY <1>2, <1>3 DEF LeaseInv, PartyInv
  <2>3. ASSUME NEW k \in {"cleaner", "pass"}
        PROVE  PartyInv(lease[l], row'[l], usb[l], wrote[l], proc[l]["writer"],
                        proc[l][k])
    <3>1. ~proc[l][k].keep /\ proc[l][k].kind \in {"pass", "first", "again"}
      BY <1>3 DEF LeaseInv, PartyInv
    <3>2. QED
      BY <2>2, <3>1 DEF PartyInv, DetachInv
  <2>4. QED
    BY <2>1, <2>2, <2>3 DEF LeaseInv, DetachPcs
<1>9. ASSUME NEW m \in Leases, m # l
      PROVE  LeaseInv(lease[m], row'[m], usb[m], wrote[m], proc[m])
  <2> DEFINE w == proc[m]["writer"]
  <2>1. LeaseInv(lease[m], row[m], usb[m], wrote[m], proc[m])
    BY <1>3
  <2>2. Covered(usb[m], wrote[m], w) \/ row[m].st # "held"
    BY <2>1 DEF LeaseInv, WriterInv, Live
  <2>3. Moves(row[m], usb[m], wrote[m], w, row'[m], usb[m], wrote[m])
    BY <1>5, <1>9, <2>2 DEF Moves
  <2>4. WriterInv(row'[m], usb[m], wrote[m], w)
    BY <2>1, <2>3, MovesKeepWriter DEF LeaseInv
  <2>5. \A k \in {"cleaner", "pass"} :
           PartyInv(lease[m], row'[m], usb[m], wrote[m], w, proc[m][k])
    BY <2>1, <2>3, MovesKeepParty DEF LeaseInv
  <2>6. QED
    BY <2>1, <2>4, <2>5 DEF LeaseInv
<1>10. QED
  BY <1>2, <1>6, <1>7, <1>8, <1>9 DEF IInv

\* A restart drops every party; what a writer answered for is given up unless
\* a row that says so is left.
LEMMA RestartKeeps ==
    ASSUME IInv, Restart
    PROVE  IInv'
<1>1. /\ TypeOK /\ OneRow
      /\ \A m \in Leases : LeaseInv(lease[m], row[m], usb[m], wrote[m], proc[m])
  BY DEF IInv
<1>2. UNCHANGED <<lease, row, usb, alive>>
  BY DEF Restart
<1>3. TypeOK'
  BY <1>1, StepTypeOK DEF Next
<1>4. ASSUME NEW m \in Leases
      PROVE  LeaseInv(lease[m], row[m], usb[m], wrote'[m], proc'[m])
  <2> DEFINE w == proc[m]["writer"]
             r == row[m]
             u == usb[m]
             o2 == wrote'[m]
  <2>1. \A k \in Parties : proc'[m][k] = Idle
    BY DEF Restart
  <2>2. o2 = IF Unrecorded(m) /\ r.st \in {"released", "held"} THEN "left"
             ELSE wrote[m]
    BY DEF Restart
  <2>3. WriterInv(r, u, wrote[m], w)
    BY <1>1 DEF LeaseInv
  <2>4. Answers(w) => Unrecorded(m)
    BY DEF Answers, Unrecorded
  <2>5. r.st \in RowStates
    BY <1>1, RowType
  <2>6. Clean(u, o2) \/ r.st \in Live \ {"held"}
    BY <2>2, <2>3, <2>4, <2>5 DEF WriterInv, Covered, Clean, Live
  <2>7. WriterInv(r, u, o2, Idle)
    BY <2>3, <2>6 DEF WriterInv, DetachInv, Covered, Idle
  <2>8. QED
    BY <2>1, <2>7, IdleParty DEF LeaseInv, Parties
<1>5. QED
  BY <1>1, <1>2, <1>3, <1>4 DEF IInv, OneRow

-----------------------------------------------------------------------------
(* The steps of the writer.                                                *)

\* The writer's rows by name.
LEMMA WriterIs ==
    ASSUME TypeOK, NEW l \in Leases, NEW r, Become(l, "writer", r)
    PROVE  proc'[l]["writer"] = r
BY BecomeIs DEF Parties

LEMMA WriterGoes ==
    ASSUME TypeOK, NEW l \in Leases, NEW pc, Go(l, "writer", pc)
    PROVE  LET w == proc[l]["writer"]
               w2 == proc'[l]["writer"]
           IN  /\ w2.pc = pc /\ w2.st = w.st /\ w2.slot = w.slot
               /\ w2.own = w.own /\ w2.keep = w.keep /\ w2.kind = w.kind
<1>1. "writer" \in Parties
  BY DEF Parties
<1>2. QED
  BY <1>1, GoIs

LEMMA WriterDone ==
    ASSUME TypeOK, NEW l \in Leases, NEW ok, Done(l, "writer", ok)
    PROVE  /\ proc'[l]["writer"].pc \in {"idle", "giveup"}
           /\ proc'[l]["writer"].st = "none"
<1>1. proc'[l]["writer"] = After(l, "writer", ok)
  BY WriterIs DEF Done
<1>2. QED
  BY <1>1 DEF After, Idle

\* A writer that rests, or will give up, answers for nothing.
LEMMA WriterRests ==
    ASSUME NEW r, NEW u, NEW o, NEW w, w.pc \in {"idle", "giveup"},
           w.st = "none", r.st # "none",
           r.st = "held" => r.slot = NoSlot,
           r.st = "attaching" => r.slot # NoSlot,
           r.st = "attached" => Applied(r.slot) \in u,
           Clean(u, o) \/ r.st \in Live \ {"held"}
    PROVE  WriterInv(r, u, o, w)
BY DEF WriterInv, DetachInv, Covered

\* Where it may do so, whatever it did to the row in this step.
LEMMA WriterStops ==
    ASSUME NEW s, NEW r, NEW u, NEW o, NEW w, NEW r2, NEW u2, NEW o2, NEW w2,
           WriterInv(r, u, o, w), w.pc # "idle",
           w2.pc \in {"idle", "giveup"}, w2.st = "none",
           r2 = r \/ r2.st \notin {"none", "attaching", "attached"},
           r2.st = "held" => r2.slot = NoSlot,
           r.st = "attached" => Applied(r.slot) \in u2,
           Clean(u, o) => Clean(u2, o2),
           \/ Clean(u2, o2)
           \/ ~Answers(w) /\ r2.st \in Live \ {"held"}
           \/ Straddles(r, w) /\ r2.st \in Live \ {"held", "attaching"}
    PROVE  /\ WriterInv(r2, u2, o2, w2)
           /\ WriterMoves(s, r, u, o, w, r2, u2, o2, w2)
<1>1. r.st # "none" /\ (r.st = "attaching" => r.slot # NoSlot)
  BY DEF WriterInv
<1>2. WriterInv(r2, u2, o2, w2)
  BY <1>1, WriterRests
<1>3. ~Straddles(r2, w2) /\ ~Answers(w2)
  BY DEF Straddles, Answers
<1>4. Covered(u, o, w) =>
         Covered(u2, o2, w2) \/ (Straddles(r, w) /\ r2.st # "attaching")
  BY DEF Covered
<1>5. QED
  BY <1>1, <1>2, <1>3, <1>4 DEF WriterMoves

\* It may, when it answers for nothing and left the row and the guest alone.
LEMMA WriterGivesUp ==
    ASSUME NEW s, NEW r, NEW u, NEW o, NEW w, NEW w2,
           WriterInv(r, u, o, w), w.pc # "idle", ~Answers(w),
           w2.pc \in {"idle", "giveup"}, w2.st = "none"
    PROVE  WriterInv(r, u, o, w2) /\ WriterMoves(s, r, u, o, w, r, u, o, w2)
<1>1. /\ r.st = "held" => r.slot = NoSlot
      /\ r.st = "attached" => Applied(r.slot) \in u
      /\ Clean(u, o) \/ r.st \in Live \ {"held"}
  BY DEF WriterInv, Covered
<1>2. QED
  BY <1>1, WriterStops

\* A step of the writer that leaves the row and the guest, and that answers for
\* what it answered for.
LEMMA WriterWaits ==
    ASSUME NEW s, NEW r, NEW u, NEW o, NEW w, NEW w2,
           WriterInv(r, u, o, w2), Answers(w) => Answers(w2),
           Straddles(r, w2) => Straddles(r, w) \/ s \in Counting
    PROVE  WriterMoves(s, r, u, o, w, r, u, o, w2)
BY DEF WriterMoves, Covered

\* What a step of the writer has to show.
WriterKeeps(l) ==
    /\ WriterInv(row'[l], usb'[l], wrote'[l], proc'[l]["writer"])
    /\ WriterMoves(lease[l], row[l], usb[l], wrote[l], proc[l]["writer"],
                   row'[l], usb'[l], wrote'[l], proc'[l]["writer"])
    /\ lease'[l] \in Counting => lease[l] \in Counting

\* The writer starts from the row as it is.
LEMMA WriterStarts ==
    ASSUME TypeOK, NEW l \in Leases,
           WriterInv(row[l], usb[l], wrote[l], proc[l]["writer"]),
           StartProvision(l) \/ RefuseProvision(l)
             \/ \E what \in Requests : Serve(l, what)
    PROVE  WriterKeeps(l)
<1> DEFINE s == lease[l]
           r == row[l]
           u == usb[l]
           o == wrote[l]
           w == proc[l]["writer"]
           w2 == proc'[l]["writer"]
<1>0. WriterInv(r, u, o, w)
  OBVIOUS
<1>1. UNCHANGED <<lease, row, usb, wrote>> /\ w = Idle
  BY DEF StartProvision, RefuseProvision, Serve
<1>2. ~Answers(w)
  BY <1>1 DEF Answers, Idle
<1>3. ASSUME r.st # "none", w2.pc = "look", w2.st = r.st,
             r.st \in {"held", "attaching"}, w2.slot = r.slot \/ r.st = "held",
             w2.kind = "resumed" <=> r.st = "attaching"
      PROVE  WriterKeeps(l)
  <2>1. WriterInv(r, u, o, w2)
    BY <1>0, <1>2, <1>3 DEF WriterInv, DetachInv, Covered
  <2>2. ~Straddles(r, w2)
    BY <1>3 DEF Straddles, Answers
  <2>3. QED
    BY <1>1, <1>2, <2>1, <2>2, WriterWaits DEF WriterKeeps
<1>4. ASSUME NEW st \in RowStates, r.st = st, st \notin {"none", "attaching", "released"},
             NEW slot \in Slots \cup {NoSlot}, NEW proven \in BOOLEAN,
             NEW keep \in BOOLEAN, proven => st # "held",
             w2 = Detach(st, slot, proven, keep, "hotplug")
      PROVE  WriterKeeps(l)
  <2>1. /\ w2.pc = IF st # "attached" THEN "read"
                   ELSE IF slot = NoSlot THEN "fail" ELSE "move"
        /\ w2.st = st /\ w2.own = (proven /\ slot # NoSlot)
    BY <1>4 DEF Detach
  <2>2. st \in Taken \cup {"held"}
    BY <1>4, RowStatesAre DEF Taken
  <2>3. DetachInv(w2)
    BY <1>4, <2>1, <2>2 DEF DetachInv, Taken
  <2>4. ~Answers(w2) /\ ~Straddles(r, w2)
    BY <1>4, <2>1 DEF Straddles, Answers
  <2>5. Clean(u, o) \/ r.st \in Live \ {"held"}
    BY <1>0, <1>2 DEF WriterInv, Covered
  <2>6. WriterInv(r, u, o, w2)
    BY <1>0, <1>4, <2>1, <2>3, <2>5 DEF WriterInv, Covered
  <2>7. QED
    BY <1>1, <1>2, <2>4, <2>6, WriterWaits DEF WriterKeeps
<1>5. CASE StartProvision(l)
  <2> DEFINE kind == IF r.st = "held" THEN "provision" ELSE "resumed"
  <2>1. /\ Become(l, "writer", [Idle EXCEPT !.pc = "look", !.st = r.st,
                                            !.slot = r.slot, !.kind = kind])
        /\ r.st \in {"held", "attaching"}
    BY <1>5 DEF StartProvision
  <2> HIDE DEF kind
  <2>2. w2 = [Idle EXCEPT !.pc = "look", !.st = r.st, !.slot = r.slot, !.kind = kind]
    BY <2>1, WriterIs
  <2>3. w2.pc = "look" /\ w2.st = r.st /\ w2.slot = r.slot /\ w2.kind = kind
    BY <2>2 DEF Idle
  <2>4. QED
    BY <1>3, <2>1, <2>3 DEF kind
<1>6. CASE RefuseProvision(l)
  <2>1. w2 = [Idle EXCEPT !.pc = "giveup"] /\ r.st \in Live
    BY <1>6, WriterIs DEF RefuseProvision
  <2>2. w2.pc = "giveup" /\ w2.st = "none"
    BY <2>1 DEF Idle
  <2>3. Clean(u, o) \/ r.st \in Live \ {"held"}
    BY <1>0, <1>2 DEF WriterInv, Covered
  <2>a. /\ r.st # "none"
        /\ r.st = "held" => r.slot = NoSlot
        /\ r.st = "attaching" => r.slot # NoSlot
        /\ r.st = "attached" => Applied(r.slot) \in u
    BY <1>0, <2>1 DEF WriterInv, Live
  <2>4. WriterInv(r, u, o, w2)
    BY <2>a, <2>2, <2>3, WriterRests
  <2>5. ~Straddles(r, w2)
    BY <2>2 DEF Straddles, Answers
  <2>6. QED
    BY <1>1, <1>2, <2>4, <2>5, WriterWaits DEF WriterKeeps
<1>7. ASSUME NEW what \in Requests, Serve(l, what) PROVE WriterKeeps(l)
  <2>1. r.st \in RowStates /\ r.slot \in Slots \cup {NoSlot}
    BY RowType
  <2>2. CASE /\ r.st = "held"
             /\ Become(l, "writer", [Idle EXCEPT !.pc = "look", !.st = r.st,
                                     !.keep = TRUE, !.kind = "hotplug"])
    <3>1. w2 = [Idle EXCEPT !.pc = "look", !.st = r.st, !.keep = TRUE,
                            !.kind = "hotplug"]
      BY <2>2, WriterIs
    <3>2. w2.pc = "look" /\ w2.st = r.st /\ w2.kind = "hotplug"
      BY <3>1 DEF Idle
    <3>3. QED
      BY <1>3, <2>2, <3>2
  <2>3. CASE /\ r.st \in {"attached", "detaching", "detach_failed"}
             /\ Become(l, "writer", Detach(r.st, r.slot, TRUE, what = "detach",
                                           "hotplug"))
    <3> DEFINE keep == what = "detach"
    <3>1. Become(l, "writer", Detach(r.st, r.slot, TRUE, keep, "hotplug"))
      BY <2>3
    <3>2. keep \in BOOLEAN
      OBVIOUS
    <3> HIDE DEF keep
    <3>3. w2 = Detach(r.st, r.slot, TRUE, keep, "hotplug")
      BY <3>1, WriterIs
    <3>4. QED
      BY <1>4, <2>1, <2>3, <3>2, <3>3
  <2>4. CASE /\ r.st = "held"
             /\ Become(l, "writer", Detach(r.st, NoSlot, FALSE, FALSE, "hotplug"))
    <3>1. w2 = Detach(r.st, NoSlot, FALSE, FALSE, "hotplug")
      BY <2>4, WriterIs
    <3>2. QED
      BY <1>4, <2>1, <2>4, <3>1
  <2>5. CASE UNCHANGED proc
    <3>1. w2 = w
      BY <2>5
    <3>2. QED
      BY <1>0, <1>1, <3>1, WriterWaits DEF WriterKeeps
  <2>6. QED
    BY <1>7, <2>2, <2>3, <2>4, <2>5 DEF Serve
<1>8. QED
  BY <1>5, <1>6, <1>7

\* The writer looks, claims the row, and counts before it writes.
LEMMA WriterPrepares ==
    ASSUME TypeOK, NEW l \in Leases,
           WriterInv(row[l], usb[l], wrote[l], proc[l]["writer"]),
           Look(l) \/ ClaimAttach(l) \/ CountBeforeWrite(l)
    PROVE  WriterKeeps(l)
<1> DEFINE s == lease[l]
           r == row[l]
           u == usb[l]
           o == wrote[l]
           w == proc[l]["writer"]
           w2 == proc'[l]["writer"]
<1>0. /\ WriterInv(r, u, o, w) /\ w \in Locals /\ UNCHANGED <<lease, usb, wrote>>
  BY DEF TypeOK, Parties, Look, ClaimAttach, CountBeforeWrite
<1>1. ASSUME UNCHANGED row, w.pc # "idle", ~Answers(w), Done(l, "writer", FALSE)
      PROVE  WriterKeeps(l)
  <2>1. WriterInv(r, u, o, w2) /\ WriterMoves(s, r, u, o, w, r, u, o, w2)
    BY <1>0, <1>1, WriterDone, WriterGivesUp
  <2>2. QED
    BY <1>0, <1>1, <2>1 DEF WriterKeeps
<1>2. ASSUME UNCHANGED row, ~Answers(w), WriterInv(r, u, o, w2),
             Straddles(r, w2) => s \in Counting
      PROVE  WriterKeeps(l)
  BY <1>0, <1>2, WriterWaits DEF WriterKeeps
<1>3. CASE Look(l)
  <2>1. UNCHANGED row /\ w.pc = "look" /\ ~Answers(w)
    BY <1>3 DEF Look, Answers
  <2>2. CASE \A m \in Leases : Refs(m) = {}
    <3>1. Go(l, "writer", IF w.kind = "resumed" THEN "count" ELSE "claim")
          \/ Done(l, "writer", FALSE)
      BY <1>3, <2>2 DEF Look
    <3>2. CASE Go(l, "writer", IF w.kind = "resumed" THEN "count" ELSE "claim")
      <4>1. Clean(u, o)
        BY <2>2 DEF Refs, Clean
      <4>2. /\ w2.pc = IF w.kind = "resumed" THEN "count" ELSE "claim"
            /\ w2.st = w.st /\ w2.slot = w.slot
        BY <3>2, WriterGoes
      <4>3. WriterInv(r, u, o, w2)
        BY <1>0, <2>1, <4>1, <4>2 DEF WriterInv, DetachInv, Covered
      <4>4. ~Straddles(r, w2)
        BY <4>2 DEF Straddles, Answers
      <4>5. QED
        BY <1>2, <2>1, <4>3, <4>4
    <3>3. QED
      BY <1>1, <2>1, <3>1, <3>2
  <2>3. CASE /\ w.kind = "resumed"
             /\ Become(l, "writer", [w EXCEPT !.pc = "unknown", !.slot = NoSlot])
    <3>1. w2 = [w EXCEPT !.pc = "unknown", !.slot = NoSlot]
      BY <2>3, WriterIs
    <3>2. w2.pc = "unknown" /\ w2.slot = NoSlot /\ w2.st = w.st
      BY <1>0, <3>1 DEF Locals
    <3>3. WriterInv(r, u, o, w2)
      BY <1>0, <2>1, <2>3, <3>2 DEF WriterInv, DetachInv, Covered, Answers
    <3>4. ~Straddles(r, w2)
      BY <3>2 DEF Straddles, Answers
    <3>5. QED
      BY <1>2, <2>1, <3>3, <3>4
  <2>4. CASE Done(l, "writer", FALSE)
    BY <1>1, <2>1, <2>4
  <2>5. QED
    BY <1>3, <2>2, <2>3, <2>4 DEF Look
<1>4. CASE ClaimAttach(l)
  <2>1. w.pc = "claim" /\ ~Answers(w) /\ Clean(u, o)
    BY <1>0, <1>4 DEF ClaimAttach, Answers, WriterInv
  <2>2. ASSUME NEW t \in Slots, row' = Moved(l, "attaching", t),
               Become(l, "writer", [w EXCEPT !.pc = "count", !.st = "attaching",
                                             !.slot = t])
        PROVE  WriterKeeps(l)
    <3>1. r'.st = "attaching" /\ r'.slot = t /\ t # NoSlot
      BY <2>2, MovedIs, UsbAssumption
    <3>2. w2 = [w EXCEPT !.pc = "count", !.st = "attaching", !.slot = t]
      BY <2>2, WriterIs
    <3>3. w2.pc = "count" /\ w2.st = "attaching" /\ w2.slot = t
      BY <1>0, <3>2 DEF Locals
    <3>4. WriterInv(r', u, o, w2)
      BY <2>1, <3>1, <3>3 DEF WriterInv, DetachInv, Covered
    <3>5. WriterMoves(s, r, u, o, w, r', u, o, w2)
      BY <2>1, <3>1, <3>3 DEF WriterMoves, Straddles, Answers, Covered
    <3>6. QED
      BY <1>0, <3>4, <3>5 DEF WriterKeeps
  <2>3. CASE Done(l, "writer", FALSE) /\ UNCHANGED row
    BY <1>1, <2>1, <2>3
  <2>4. QED
    BY <1>4, <2>2, <2>3 DEF ClaimAttach
<1>5. CASE CountBeforeWrite(l)
  <2>1. UNCHANGED row /\ w.pc = "count" /\ ~Answers(w) /\ Clean(u, o)
    BY <1>0, <1>5 DEF CountBeforeWrite, Answers, WriterInv
  <2>2. CASE Counts(l) /\ Go(l, "writer", "write")
    <3>1. w2.pc = "write" /\ w2.st = w.st /\ w2.slot = w.slot
      BY <2>2, WriterGoes
    <3>2. WriterInv(r, u, o, w2)
      BY <1>0, <2>1, <3>1 DEF WriterInv, DetachInv, Covered
    <3>3. s \in Counting
      BY <2>2 DEF Counts, Counting
    <3>4. QED
      BY <1>2, <2>1, <3>2, <3>3
  <2>3. CASE Become(l, "writer", [w EXCEPT !.keep = FALSE, !.pc = Unwritten(l)])
    <3> DEFINE pc == Unwritten(l)
    <3>1. pc \in {"unwritten", "unsure"}
      BY DEF Unwritten
    <3> HIDE DEF pc
    <3>2. w2 = [w EXCEPT !.keep = FALSE, !.pc = pc]
      BY <2>3, WriterIs DEF pc
    <3>3. w2.pc = pc /\ w2.st = w.st /\ w2.slot = w.slot
      BY <1>0, <3>2 DEF Locals
    <3>4. WriterInv(r, u, o, w2)
      BY <1>0, <2>1, <3>1, <3>3 DEF WriterInv, DetachInv, Covered
    <3>5. ~Straddles(r, w2)
      BY <3>1, <3>3 DEF Straddles, Answers
    <3>6. QED
      BY <1>2, <2>1, <3>4, <3>5
  <2>4. QED
    BY <1>5, <2>2, <2>3 DEF CountBeforeWrite
<1>6. QED
  BY <1>3, <1>4, <1>5

\* The write: from here on the writer answers for what it sent.
LEMMA WriterWrites ==
    ASSUME TypeOK, NEW l \in Leases,
           WriterInv(row[l], usb[l], wrote[l], proc[l]["writer"]), Write(l)
    PROVE  WriterKeeps(l)
<1> DEFINE s == lease[l]
           r == row[l]
           u == usb[l]
           o == wrote[l]
           w == proc[l]["writer"]
           w2 == proc'[l]["writer"]
<1>0. WriterInv(r, u, o, w) /\ w \in Locals /\ UNCHANGED <<lease, row>>
  BY DEF TypeOK, Parties, Write
<1>1. /\ w.pc = "write" /\ w.st = "attaching" /\ w.slot # NoSlot
      /\ ~Answers(w) /\ Clean(u, o)
      /\ r.st \notin {"none", "held", "attached"}
  BY <1>0 DEF Write, WriterInv, Answers
<1>2. ASSUME w2.pc \in {"record", "unknown"} \/ (w2.pc = "read" /\ w2.own),
             w2.st = "attaching", w2.slot # NoSlot, o' = "left" \/ u = {},
             w2.pc = "record" => u' = u \cup {Applied(w2.slot)}
      PROVE  WriterKeeps(l)
  <2>1. Answers(w2)
    BY <1>2 DEF Answers
  <2>2. w2.pc = "record" =>
          /\ Applied(w2.slot) \in u'
          /\ o' = "left" \/ \A e \in u' : e.by = "fleet" => e.slot = w2.slot
    BY <1>2 DEF Applied
  <2>3. WriterInv(r, u', o', w2)
    BY <1>0, <1>1, <1>2, <2>1, <2>2 DEF WriterInv, DetachInv, Covered, Taken
  <2>4. WriterMoves(s, r, u, o, w, r, u', o', w2)
    BY <1>1, <1>2, <2>1 DEF WriterMoves, Straddles, Covered
  <2>5. QED
    BY <1>0, <2>3, <2>4 DEF WriterKeeps
<1>3. ASSUME NEW pc \in {"unwritten", "unsure"}, Go(l, "writer", pc),
             Clean(u', o')
      PROVE  WriterKeeps(l)
  <2>1. w2.pc = pc /\ w2.st = "attaching"
    BY <1>1, <1>3, WriterGoes
  <2>2. WriterInv(r, u', o', w2)
    BY <1>0, <1>1, <1>3, <2>1 DEF WriterInv, DetachInv, Covered
  <2>3. WriterMoves(s, r, u, o, w, r, u', o', w2)
    BY <1>1, <1>3, <2>1 DEF WriterMoves, Straddles, Answers, Covered
  <2>4. QED
    BY <1>0, <2>2, <2>3 DEF WriterKeeps
<1>4. CASE Sends(l)
  <2>1. u = {}
    BY <1>4 DEF Sends, Refs
  <2>2. ASSUME NEW t \in Slots, NEW v \in {"applied", "adding"},
               usb' = Added(l, t, v)
        PROVE  u' = u \cup {[slot |-> t, by |-> "fleet", view |-> v]}
    BY <2>2 DEF Added, TypeOK
  <2>3. ASSUME NEW t \in Slots, usb' = Added(l, t, "applied"),
               Become(l, "writer", [w EXCEPT !.pc = "record", !.slot = t])
        PROVE  WriterKeeps(l)
    <3>1. w2 = [w EXCEPT !.pc = "record", !.slot = t]
      BY <2>3, WriterIs
    <3>2. w2.pc = "record" /\ w2.st = "attaching" /\ w2.slot = t /\ t # NoSlot
      BY <1>0, <1>1, <3>1, UsbAssumption DEF Locals
    <3>3. u' = u \cup {Applied(t)}
      BY <2>2, <2>3 DEF Applied
    <3>4. QED
      BY <1>2, <2>1, <3>2, <3>3
  <2>4. ASSUME Become(l, "writer", Detach("attaching", w.slot, TRUE, w.keep, w.kind))
        PROVE  WriterKeeps(l)
    <3>1. w2 = Detach("attaching", w.slot, TRUE, w.keep, w.kind)
      BY <2>4, WriterIs
    <3>2. /\ w2.pc = "read" /\ w2.st = "attaching" /\ w2.slot = w.slot
          /\ w2.own = (TRUE /\ w.slot # NoSlot)
      BY <3>1 DEF Detach
    <3>3. w2.own
      BY <1>1, <3>2
    <3>4. QED
      BY <1>1, <1>2, <2>1, <3>2, <3>3
  <2>5. ASSUME NEW t \in Slots,
               Become(l, "writer", [w EXCEPT !.pc = "unknown", !.slot = t])
        PROVE  WriterKeeps(l)
    <3>1. w2 = [w EXCEPT !.pc = "unknown", !.slot = t]
      BY <2>5, WriterIs
    <3>2. w2.pc = "unknown" /\ w2.st = "attaching" /\ w2.slot = t /\ t # NoSlot
      BY <1>0, <1>1, <3>1, UsbAssumption DEF Locals
    <3>3. QED
      BY <1>2, <2>1, <3>2
  <2>6. ASSUME Go(l, "writer", "unsure"), UNCHANGED usb
        PROVE  WriterKeeps(l)
    <3>1. Clean(u', o')
      BY <2>1, <2>6 DEF Clean
    <3>2. QED
      BY <1>3, <2>6, <3>1
  <2>7. QED
    BY <1>4, <2>3, <2>4, <2>5, <2>6 DEF Sends
<1>5. CASE SendsNothing(l)
  <2>1. UNCHANGED <<usb, wrote>> /\ Go(l, "writer", Unwritten(l))
    BY <1>5 DEF SendsNothing
  <2>2. Unwritten(l) \in {"unwritten", "unsure"}
    BY DEF Unwritten
  <2>3. QED
    BY <1>1, <1>3, <2>1, <2>2
<1>6. QED
  BY <1>4, <1>5 DEF Write

\* The writer records its write, or takes it back.
LEMMA WriterRecords ==
    ASSUME TypeOK, NEW l \in Leases,
           WriterInv(row[l], usb[l], wrote[l], proc[l]["writer"]),
           \/ RecordAttached(l) \/ CountAfterWrite(l) \/ Undo(l)
           \/ FailUnwritten(l) \/ Back(l) \/ LeaveUnknown(l, "writer") \/ GiveUp(l)
    PROVE  WriterKeeps(l)
<1> DEFINE s == lease[l]
           r == row[l]
           u == usb[l]
           o == wrote[l]
           w == proc[l]["writer"]
           w2 == proc'[l]["writer"]
<1>0. WriterInv(r, u, o, w) /\ w \in Locals /\ r.st \in RowStates
  BY RowType DEF TypeOK, Parties
<1>1. ASSUME UNCHANGED <<lease, row, usb, wrote>>, w.pc # "idle", ~Answers(w),
             Done(l, "writer", FALSE)
      PROVE  WriterKeeps(l)
  <2>1. WriterInv(r, u, o, w2) /\ WriterMoves(s, r, u, o, w, r, u, o, w2)
    BY <1>0, <1>1, WriterDone, WriterGivesUp
  <2>2. QED
    BY <1>1, <2>1 DEF WriterKeeps
<1>2. ASSUME UNCHANGED <<lease, row, usb, wrote>>, Answers(w) => Answers(w2),
             WriterInv(r, u, o, w2), ~Straddles(r, w2)
      PROVE  WriterKeeps(l)
  BY <1>2, WriterWaits DEF WriterKeeps
<1>3. CASE RecordAttached(l)
  <2>1. /\ UNCHANGED <<lease, usb, wrote>> /\ w.pc = "record" /\ w.st = "attaching"
    BY <1>0, <1>3 DEF RecordAttached, WriterInv
  <2>2. CASE /\ Cas(l, "attaching", "attached")
             /\ row' = Moved(l, "attached", w.slot)
             /\ Become(l, "writer", [w EXCEPT !.pc = "recount", !.st = "attached"])
    <3>1. r'.st = "attached" /\ r'.slot = w.slot /\ r.st = "attaching"
      BY <2>2, MovedIs DEF Cas
    <3>2. w2 = [w EXCEPT !.pc = "recount", !.st = "attached"]
      BY <2>2, WriterIs
    <3>3. w2.pc = "recount" /\ w2.st = "attached"
      BY <1>0, <3>2 DEF Locals
    <3>4. Applied(r'.slot) \in u /\ Straddles(r, w)
      BY <1>0, <2>1, <3>1 DEF WriterInv, Straddles, Answers
    <3>5. r'.st \in Live \ {"held"}
      BY <3>1, RowStatesAre DEF Live
    <3>6. WriterInv(r', u, o, w2)
      BY <3>1, <3>3, <3>4, <3>5 DEF WriterInv, DetachInv
    <3>7. WriterMoves(s, r, u, o, w, r', u, o, w2)
      BY <3>1, <3>3, <3>4 DEF WriterMoves, Straddles
    <3>8. QED
      BY <2>1, <3>6, <3>7 DEF WriterKeeps
  <2>3. CASE Go(l, "writer", "undo") /\ UNCHANGED row
    <3>1. w2.pc = "undo" /\ w2.st = w.st /\ w2.slot = w.slot
      BY <2>3, WriterGoes
    <3>2. Answers(w2) /\ ~Straddles(r, w2)
      BY <3>1 DEF Answers, Straddles
    <3>3. WriterInv(r, u, o, w2)
      BY <1>0, <2>1, <3>1, <3>2 DEF WriterInv, DetachInv, Covered
    <3>4. QED
      BY <1>2, <2>1, <2>3, <3>2, <3>3
  <2>4. QED
    BY <1>3, <2>2, <2>3 DEF RecordAttached
<1>4. CASE CountAfterWrite(l)
  <2>1. UNCHANGED <<lease, row, usb, wrote>> /\ w.pc = "recount" /\ ~Answers(w)
    BY <1>4 DEF CountAfterWrite, Answers
  <2>2. /\ r.st \notin {"none", "held"}
        /\ r.st = "attaching" => r.slot # NoSlot
        /\ r.st = "attached" => Applied(r.slot) \in u
        /\ Clean(u, o) \/ r.st \in Live \ {"held"}
    BY <1>0, <2>1 DEF WriterInv, Covered
  <2>3. CASE Become(l, "writer", Idle)
    <3>1. w2.pc = "idle" /\ w2.st = "none"
      BY <2>3, WriterIs DEF Idle
    <3>2. WriterInv(r, u, o, w2)
      BY <2>2, <3>1, WriterRests
    <3>3. ~Straddles(r, w2)
      BY <3>1 DEF Straddles, Answers
    <3>4. QED
      BY <1>2, <2>1, <3>2, <3>3
  <2>4. CASE Become(l, "writer", Detach("attached", w.slot, TRUE, FALSE, w.kind))
    <3>1. w2 = Detach("attached", w.slot, TRUE, FALSE, w.kind)
      BY <2>4, WriterIs
    <3>2. w2.pc \in {"fail", "move"} /\ w2.st = "attached"
      BY <3>1 DEF Detach
    <3>3. WriterInv(r, u, o, w2)
      BY <2>2, <3>2 DEF WriterInv, DetachInv, Covered, Taken
    <3>4. ~Straddles(r, w2)
      BY <3>2 DEF Straddles, Answers
    <3>5. QED
      BY <1>2, <2>1, <3>3, <3>4
  <2>5. QED
    BY <1>4, <2>3, <2>4 DEF CountAfterWrite
<1>5. CASE Undo(l)
  <2>1. /\ UNCHANGED <<lease, row>> /\ w.pc = "undo" /\ w.st = "attaching"
        /\ Done(l, "writer", FALSE)
    BY <1>0, <1>5 DEF Undo, WriterInv
  <2>2. r.st # "attached" /\ (r.st = "held" => r.slot = NoSlot)
    BY <1>0, <2>1 DEF WriterInv
  <2>3. o = "left" \/ \A e \in u : e.by = "fleet" => e.slot = w.slot
    BY <1>0, <2>1 DEF WriterInv
  <2>4. Clean(u', o')
    <3>1. CASE Unreadable(l) /\ LeavesIf(l, TRUE)
      BY <3>1 DEF Clean, LeavesIf, TypeOK
    <3>2. ASSUME NEW gone \in Deleted(l, w.slot), usb' = [usb EXCEPT ![l] = gone],
                 LeavesIf(l, w.slot \in {e.slot : e \in gone})
          PROVE  Clean(u', o')
      <4>1. u' = gone
        BY <3>2 DEF TypeOK
      <4>2. o' = IF w.slot \in {e.slot : e \in gone} THEN "left" ELSE o
        BY <3>2 DEF LeavesIf, TypeOK
      <4>3. \A e \in gone : \E f \in u : f.by = e.by /\ f.slot = e.slot
        BY <3>2, DeletedIs
      <4>4. QED
        BY <2>3, <4>1, <4>2, <4>3 DEF Clean
    <3>3. QED
      BY <1>5, <3>1, <3>2 DEF Undo
  <2>5. w2.pc \in {"idle", "giveup"} /\ w2.st = "none"
    BY <2>1, WriterDone
  <2>6. WriterInv(r, u', o', w2) /\ WriterMoves(s, r, u, o, w, r, u', o', w2)
    BY <1>0, <2>1, <2>2, <2>4, <2>5, WriterStops
  <2>7. QED
    BY <2>1, <2>6 DEF WriterKeeps
<1>6. CASE FailUnwritten(l)
  <2>1. /\ UNCHANGED <<lease, row, usb, wrote>> /\ w.pc \in {"unwritten", "unsure"}
        /\ w.st = "attaching" /\ ~Answers(w) /\ Clean(u, o)
    BY <1>0, <1>6 DEF FailUnwritten, WriterInv, Answers
  <2>2. CASE Go(l, "writer", "back")
    <3>1. w2.pc = "back" /\ w2.st = w.st
      BY <2>2, WriterGoes
    <3>2. WriterInv(r, u, o, w2)
      BY <1>0, <2>1, <3>1 DEF WriterInv, DetachInv, Covered
    <3>3. ~Straddles(r, w2)
      BY <3>1 DEF Straddles, Answers
    <3>4. QED
      BY <1>2, <2>1, <3>2, <3>3
  <2>3. CASE Become(l, "writer", [w EXCEPT !.pc = "unknown", !.slot = NoSlot])
    <3>1. w2 = [w EXCEPT !.pc = "unknown", !.slot = NoSlot]
      BY <2>3, WriterIs
    <3>2. w2.pc = "unknown" /\ w2.st = w.st /\ w2.slot = NoSlot
      BY <1>0, <3>1 DEF Locals
    <3>3. WriterInv(r, u, o, w2)
      BY <1>0, <2>1, <3>2 DEF WriterInv, DetachInv, Covered
    <3>4. ~Straddles(r, w2)
      BY <3>2 DEF Straddles, Answers
    <3>5. QED
      BY <1>2, <2>1, <3>3, <3>4
  <2>4. QED
    BY <1>6, <2>2, <2>3 DEF FailUnwritten
<1>7. CASE Back(l)
  <2>1. /\ UNCHANGED <<lease, usb, wrote>> /\ w.pc = "back" /\ w.st = "attaching"
        /\ ~Answers(w) /\ Clean(u, o)
    BY <1>0, <1>7 DEF Back, WriterInv, Answers
  <2>2. CASE /\ row' = Moved(l, "detaching", r.slot)
             /\ Become(l, "writer", [w EXCEPT !.pc = "finish", !.st = "detaching"])
    <3>1. r'.st = "detaching"
      BY <2>2, MovedIs
    <3>2. w2 = [w EXCEPT !.pc = "finish", !.st = "detaching"]
      BY <2>2, WriterIs
    <3>3. w2.pc = "finish" /\ w2.st = "detaching"
      BY <1>0, <3>2 DEF Locals
    <3>4. WriterInv(r', u, o, w2)
      BY <2>1, <3>1, <3>3 DEF WriterInv, DetachInv, Covered
    <3>5. WriterMoves(s, r, u, o, w, r', u, o, w2)
      BY <2>1, <3>1, <3>3 DEF WriterMoves, Straddles, Covered
    <3>6. QED
      BY <2>1, <3>4, <3>5 DEF WriterKeeps
  <2>3. CASE Done(l, "writer", FALSE) /\ UNCHANGED row
    BY <1>1, <2>1, <2>3
  <2>4. QED
    BY <1>7, <2>2, <2>3 DEF Back
<1>8. CASE LeaveUnknown(l, "writer")
  <2>1. /\ UNCHANGED <<lease, usb>> /\ w.pc = "unknown" /\ w.st = "attaching"
        /\ Done(l, "writer", FALSE)
    BY <1>0, <1>8 DEF LeaveUnknown, WriterInv
  <2>2. r.st # "attached"
    BY <1>0, <2>1 DEF WriterInv
  <2>3. w2.pc \in {"idle", "giveup"} /\ w2.st = "none"
    BY <2>1, WriterDone
  <2>4. CASE Cas(l, "attaching", "attach_unknown")
    <3>1. r'.st = "attach_unknown" /\ r.st = "attaching" /\ o' = o
      BY <1>8, <2>4, MovedIs DEF LeaveUnknown, Cas
    <3>2. r'.st \in Live \ {"held", "attaching"}
      BY <3>1, RowStatesAre DEF Live
    <3>3. ~Answers(w) \/ Straddles(r, w)
      BY <2>1, <3>1 DEF Straddles
    <3>4. WriterInv(r', u, o, w2) /\ WriterMoves(s, r, u, o, w, r', u, o, w2)
      BY <1>0, <2>1, <2>2, <2>3, <3>1, <3>2, <3>3, WriterStops
    <3>5. QED
      BY <2>1, <3>1, <3>4 DEF WriterKeeps
  <2>5. CASE ~Cas(l, "attaching", "attach_unknown")
    <3>1. UNCHANGED row /\ LeavesIf(l, w.slot # NoSlot)
      BY <1>8, <2>5 DEF LeaveUnknown
    <3>2. o' = IF w.slot # NoSlot THEN "left" ELSE o
      BY <3>1 DEF LeavesIf, TypeOK
    <3>3. CASE w.slot = NoSlot
      <4>1. ~Answers(w)
        BY <2>1, <3>3 DEF Answers
      <4>2. WriterInv(r, u, o, w2) /\ WriterMoves(s, r, u, o, w, r, u, o, w2)
        BY <1>0, <2>1, <2>3, <4>1, WriterGivesUp
      <4>3. QED
        BY <2>1, <3>1, <3>2, <3>3, <4>2 DEF WriterKeeps
    <3>4. CASE w.slot # NoSlot
      <4>1. Clean(u, o') /\ (r.st = "held" => r.slot = NoSlot)
        BY <1>0, <3>2, <3>4 DEF Clean, WriterInv
      <4>2. WriterInv(r, u, o', w2) /\ WriterMoves(s, r, u, o, w, r, u, o', w2)
        BY <1>0, <2>1, <2>2, <2>3, <4>1, WriterStops
      <4>3. QED
        BY <2>1, <3>1, <4>2 DEF WriterKeeps
    <3>5. QED
      BY <3>3, <3>4
  <2>6. QED
    BY <2>4, <2>5
<1>9. CASE GiveUp(l)
  <2>1. /\ UNCHANGED <<row, usb, wrote>> /\ w.pc = "giveup"
        /\ Become(l, "writer", Idle)
        /\ s' \in Counting => s \in Counting
    BY <1>9 DEF GiveUp, TypeOK, Counting
  <2>2. w2.pc = "idle" /\ w2.st = "none" /\ ~Answers(w)
    BY <2>1, WriterIs DEF Idle, Answers
  <2>3. WriterInv(r, u, o, w2) /\ WriterMoves(s, r, u, o, w, r, u, o, w2)
    BY <1>0, <2>1, <2>2, WriterGivesUp
  <2>4. QED
    BY <2>1, <2>3 DEF WriterKeeps
<1>10. QED
  BY <1>3, <1>4, <1>5, <1>6, <1>7, <1>8, <1>9

\* A detach that the writer takes a step of: it answers for an attach that it
\* wrote until the row says that the entry is being removed, or is unknown.
LEMMA WriterDetaches ==
    ASSUME TypeOK, NEW l \in Leases,
           WriterInv(row[l], usb[l], wrote[l], proc[l]["writer"]),
           Detaching(l, "writer")
    PROVE  WriterKeeps(l)
<1> DEFINE s == lease[l]
           r == row[l]
           u == usb[l]
           o == wrote[l]
           w == proc[l]["writer"]
           w2 == proc'[l]["writer"]
<1>0. /\ WriterInv(r, u, o, w) /\ DetachInv(w) /\ w \in Locals
      /\ r.st \in RowStates /\ "writer" \in Parties
  BY RowType DEF TypeOK, Parties, WriterInv
<1>1. ASSUME UNCHANGED <<lease, row, usb, wrote>>, w.pc # "idle", ~Answers(w),
             Done(l, "writer", FALSE)
      PROVE  WriterKeeps(l)
  <2>1. WriterInv(r, u, o, w2) /\ WriterMoves(s, r, u, o, w, r, u, o, w2)
    BY <1>0, <1>1, WriterDone, WriterGivesUp
  <2>2. QED
    BY <1>1, <2>1 DEF WriterKeeps
<1>2. ASSUME UNCHANGED <<lease, row, usb, wrote>>,
             WriterInv(r, u, o, w2), Answers(w) => Answers(w2) \/ Clean(u, o),
             Straddles(r, w2) => Straddles(r, w)
      PROVE  WriterKeeps(l)
  <2>1. WriterMoves(s, r, u, o, w, r, u, o, w2)
    BY <1>2 DEF WriterMoves, Covered
  <2>2. QED
    BY <1>2, <2>1 DEF WriterKeeps
<1>3. ASSUME Lost(l, "writer") PROVE Done(l, "writer", FALSE)
  BY <1>3 DEF Lost
<1>4. CASE ReadBeforeDetach(l, "writer")
  <2>1. UNCHANGED <<lease, row, usb, wrote>> /\ w.pc = "read"
    BY <1>4 DEF ReadBeforeDetach
  <2>2. /\ w.st \in (Taken \ {"attached"}) \cup {"held"}
        /\ w.st = "attaching" => w.own
        /\ w.own => w.st # "held"
    BY <1>0, <2>1 DEF DetachInv, WriterInv
  <2>3. CASE Refs(l) = {} /\ Go(l, "writer", IF w.st = "held" THEN "finish"
                                             ELSE "clear")
    <3>1. Clean(u, o)
      BY <2>3 DEF Refs, Clean
    <3>2. /\ w2.pc = IF w.st = "held" THEN "finish" ELSE "clear"
          /\ w2.st = w.st
      BY <2>3, WriterGoes
    <3>3. WriterInv(r, u, o, w2)
      BY <1>0, <2>1, <2>2, <3>1, <3>2
      DEF WriterInv, DetachInv, Covered, Taken
    <3>4. ~Straddles(r, w2)
      BY <3>2 DEF Straddles, Answers
    <3>5. QED
      BY <1>2, <2>1, <3>1, <3>3, <3>4
  <2>4. CASE w.st = "held" /\ Done(l, "writer", FALSE)
    <3>1. ~Answers(w)
      BY <2>1, <2>4 DEF Answers
    <3>2. QED
      BY <1>1, <2>1, <2>4, <3>1
  <2>5. CASE w.st # "held" /\ ~w.own /\ Go(l, "writer", "unproven")
    <3>1. w2.pc = "unproven" /\ w2.st = w.st /\ w.st # "attaching"
      BY <2>2, <2>5, WriterGoes
    <3>2. WriterInv(r, u, o, w2)
      BY <1>0, <2>1, <2>2, <2>5, <3>1
      DEF WriterInv, DetachInv, Covered, Taken, Answers
    <3>3. ~Straddles(r, w2) /\ ~Answers(w)
      BY <2>1, <3>1 DEF Straddles, Answers
    <3>4. QED
      BY <1>2, <2>1, <3>2, <3>3
  <2>6. ASSUME w2.pc \in {"move", "fail"}, w2.st = w.st, w.st # "held"
        PROVE  WriterKeeps(l)
    <3>1. Answers(w2) <=> Answers(w)
      BY <2>1, <2>6 DEF Answers
    <3>2. WriterInv(r, u, o, w2)
      BY <1>0, <2>1, <2>2, <2>6, <3>1
      DEF WriterInv, DetachInv, Covered, Taken
    <3>3. Straddles(r, w2) => Straddles(r, w)
      BY <2>1, <2>6, <3>1 DEF Straddles
    <3>4. QED
      BY <1>2, <2>1, <3>1, <3>2, <3>3
  <2>7. CASE Go(l, "writer", "fail") /\ w.st # "held"
    BY <2>6, <2>7, WriterGoes
  <2>8. ASSUME w.own, NEW t \in Slots,
               Become(l, "writer", [w EXCEPT !.pc = "move", !.slot = t])
        PROVE  WriterKeeps(l)
    <3>1. w2 = [w EXCEPT !.pc = "move", !.slot = t]
      BY <2>8, WriterIs
    <3>2. w2.pc = "move" /\ w2.st = w.st
      BY <1>0, <3>1 DEF Locals
    <3>3. QED
      BY <2>2, <2>6, <2>8, <3>2
  <2>9. \/ Refs(l) = {} /\ Go(l, "writer", IF w.st = "held" THEN "finish"
                                           ELSE "clear")
        \/ w.st = "held" /\ Done(l, "writer", FALSE)
        \/ w.st # "held" /\ ~w.own /\ Go(l, "writer", "unproven")
        \/ w.own /\ \E t \in Slots :
             Become(l, "writer", [w EXCEPT !.pc = "move", !.slot = t])
        \/ Go(l, "writer", "fail") /\ (w.own \/ w.st # "held")
    BY <1>4 DEF ReadBeforeDetach
  <2>10. QED
    BY <2>2, <2>3, <2>4, <2>5, <2>7, <2>8, <2>9
<1>5. CASE Unproven(l, "writer")
  <2>1. /\ UNCHANGED <<lease, usb, wrote>> /\ w.pc = "unproven"
        /\ w.st # "attaching"
    BY <1>0, <1>5 DEF Unproven, WriterInv
  <2>2. UNCHANGED row /\ Done(l, "writer", FALSE) /\ ~Answers(w)
    BY <1>5, <2>1 DEF Unproven, Answers
  <2>3. QED
    BY <1>1, <2>1, <2>2
<1>6. CASE StartDetach(l, "writer")
  <2> DEFINE next == IF w.pc = "clear" THEN "finish" ELSE "put"
             slot == IF w.pc = "clear" THEN ClearedSlot(l, "writer") ELSE w.slot
  <2>1. /\ UNCHANGED <<lease, usb>> /\ w.pc \in {"clear", "move"}
        /\ LeftBy(l, "writer", "detaching")
    BY <1>6 DEF StartDetach
  <2>2. /\ w.st \in Taken /\ r.st \notin {"none", "held"}
        /\ w.pc = "clear" => Clean(u, o)
    BY <1>0, <2>1 DEF WriterInv, DetachInv
  <2>3. o' = IF w.st = "attaching" /\ Refs(l) # {} /\ ~Cas(l, "attaching", "detaching")
             THEN "left" ELSE o
    BY <2>1 DEF LeftBy, LeavesIf, TypeOK
  <2>4. CASE w.st = "detaching" /\ Go(l, "writer", next) /\ UNCHANGED row
    <3>1. w2.pc = next /\ w2.st = w.st
      <4> HIDE DEF next
      <4>1. QED
        BY <2>4, WriterGoes
    <3>2. WriterInv(r, u, o, w2)
      BY <1>0, <2>1, <2>2, <2>4, <3>1
      DEF WriterInv, DetachInv, Covered, Answers
    <3>3. ~Straddles(r, w2) /\ ~Answers(w) /\ o' = o
      BY <2>1, <2>3, <2>4, <3>1 DEF Straddles, Answers
    <3>4. WriterMoves(s, r, u, o, w, r, u, o, w2)
      BY <3>2, <3>3, WriterWaits
    <3>5. QED
      BY <2>1, <2>4, <3>2, <3>3, <3>4 DEF WriterKeeps
  <2>5. CASE /\ w.st # "detaching" /\ Cas(l, w.st, "detaching")
             /\ row' = Moved(l, "detaching", slot)
             /\ Become(l, "writer", [w EXCEPT !.pc = next, !.st = "detaching"])
    <3>1. r'.st = "detaching" /\ r.st = w.st
      BY <2>5, MovedIs DEF Cas
    <3>2. o' = o
      BY <2>3, <2>5
    <3>3. w2.pc = next /\ w2.st = "detaching"
      <4>1. w2 = [w EXCEPT !.pc = next, !.st = "detaching"]
        BY <2>5, WriterIs
      <4>2. QED
        BY <1>0, <4>1 DEF Locals
    <3>4. r'.st \in Live \ {"held"}
      BY <3>1, RowStatesAre DEF Live
    <3>5. WriterInv(r', u, o, w2)
      BY <2>1, <2>2, <3>1, <3>3, <3>4 DEF WriterInv, DetachInv
    <3>6. Answers(w) => Straddles(r, w)
      BY <2>1, <3>1 DEF Answers, Straddles
    <3>7. WriterMoves(s, r, u, o, w, r', u, o, w2)
      BY <3>1, <3>3, <3>6 DEF WriterMoves, Straddles, Covered
    <3>8. QED
      BY <2>1, <3>2, <3>5, <3>7 DEF WriterKeeps
  <2>6. CASE /\ w.st # "detaching" /\ ~Cas(l, w.st, "detaching")
             /\ Lost(l, "writer") /\ UNCHANGED row
    <3>1. w2.pc \in {"idle", "giveup"} /\ w2.st = "none"
      BY <1>3, <2>6, WriterDone
    <3>2. CASE w.st = "attaching"
      <4>1. Clean(u, o')
        BY <2>3, <2>6, <3>2 DEF Clean, Refs
      <4>2. r.st = "attached" => Applied(r.slot) \in u
        BY <1>0 DEF WriterInv
      <4>3. WriterInv(r, u, o', w2) /\ WriterMoves(s, r, u, o, w, r, u, o', w2)
        BY <1>0, <2>1, <2>2, <3>1, <4>1, <4>2, WriterStops
      <4>4. QED
        BY <2>1, <2>6, <4>3 DEF WriterKeeps
    <3>3. CASE w.st # "attaching"
      <4>1. o' = o /\ ~Answers(w)
        BY <2>1, <2>3, <3>3 DEF Answers
      <4>2. WriterInv(r, u, o, w2) /\ WriterMoves(s, r, u, o, w, r, u, o, w2)
        BY <1>0, <2>1, <3>1, <4>1, WriterGivesUp
      <4>3. QED
        BY <2>1, <2>6, <4>1, <4>2 DEF WriterKeeps
    <3>4. QED
      BY <3>2, <3>3
  <2>7. QED
    BY <1>6, <2>4, <2>5, <2>6 DEF StartDetach
<1>7. CASE PutDelete(l, "writer")
  <2>1. UNCHANGED <<lease, row, wrote>> /\ w.pc = "put" /\ w.st = "detaching"
    BY <1>0, <1>7 DEF PutDelete, DetachInv
  <2>2. ~Answers(w) /\ r.st \notin {"none", "held", "attached"}
    BY <1>0, <2>1 DEF Answers, WriterInv
  <2>3. Clean(u, o) => Clean(u', o)
    <3>1. PICK gone \in Deleted(l, w.slot) \cup {u} :
            usb' = [usb EXCEPT ![l] = gone]
      BY <1>0, <1>7, PutDeletes
    <3>2. \A e \in gone : \E f \in u : f.by = e.by /\ f.slot = e.slot
      BY DeletedIs
    <3>3. u' = gone
      BY <3>1 DEF TypeOK
    <3>4. QED
      BY <3>2, <3>3 DEF Clean
  <2>4. Clean(u', o) \/ r.st \in Live \ {"held"}
    BY <1>0, <2>2, <2>3 DEF WriterInv, Covered
  <2>5. CASE Done(l, "writer", FALSE)
    <3>1. w2.pc \in {"idle", "giveup"} /\ w2.st = "none"
      BY <2>5, WriterDone
    <3>2. WriterInv(r, u', o, w2) /\ WriterMoves(s, r, u, o, w, r, u', o, w2)
      BY <1>0, <2>1, <2>2, <2>3, <2>4, <3>1, WriterStops
    <3>3. QED
      BY <2>1, <3>2 DEF WriterKeeps
  <2>6. CASE Go(l, "writer", "confirm") \/ Go(l, "writer", "fail")
    <3>1. w2.pc \in {"confirm", "fail"} /\ w2.st = "detaching"
      BY <2>1, <2>6, WriterGoes
    <3>2. WriterInv(r, u', o, w2)
      BY <1>0, <2>1, <2>2, <2>4, <3>1 DEF WriterInv, DetachInv, Covered, Taken
    <3>3. WriterMoves(s, r, u, o, w, r, u', o, w2)
      BY <2>1, <2>2, <2>3, <3>1 DEF WriterMoves, Straddles, Answers, Covered
    <3>4. QED
      BY <2>1, <3>2, <3>3 DEF WriterKeeps
  <2>7. QED
    BY <1>7, <2>5, <2>6 DEF PutDelete
<1>8. CASE Confirm(l, "writer")
  <2>1. /\ UNCHANGED <<lease, row, usb, wrote>> /\ w.pc = "confirm"
        /\ w.st = "detaching"
    BY <1>0, <1>8 DEF Confirm, DetachInv
  <2>2. (Go(l, "writer", "finish") /\ Clean(u, o)) \/ Go(l, "writer", "fail")
    BY <1>8 DEF Confirm, Refs, Clean
  <2>3. /\ w2.pc \in {"finish", "fail"} /\ w2.st = "detaching"
        /\ w2.pc = "finish" => Clean(u, o)
    BY <2>1, <2>2, WriterGoes
  <2>4. ~Answers(w) /\ ~Straddles(r, w2)
    BY <2>1, <2>3 DEF Straddles, Answers
  <2>5. WriterInv(r, u, o, w2)
    BY <1>0, <2>1, <2>3, <2>4 DEF WriterInv, DetachInv, Covered, Taken
  <2>6. QED
    BY <1>2, <2>1, <2>4, <2>5
<1>9. CASE Finish(l, "writer")
  <2>1. UNCHANGED <<lease, usb, wrote>> /\ w.pc = "finish" /\ Clean(u, o)
    BY <1>0, <1>9 DEF Finish, WriterInv
  <2>2. (\E ok \in BOOLEAN : Done(l, "writer", ok))
    BY <1>3, <1>9 DEF Finish
  <2>3. w2.pc \in {"idle", "giveup"} /\ w2.st = "none"
    BY <2>2, WriterDone
  <2>4. /\ r' = r \/ r'.st \in {"held", "released"}
        /\ r'.st = "held" => r'.slot = NoSlot
    <3> DEFINE to == IF w.keep THEN "held" ELSE "released"
    <3>1. row' = Moved(l, to, r.slot) \/ UNCHANGED row
      BY <1>9 DEF Finish
    <3>2. to \in {"held", "released"}
      OBVIOUS
    <3> HIDE DEF to
    <3>3. r.st = "held" => r.slot = NoSlot
      BY <1>0 DEF WriterInv
    <3>4. QED
      BY <3>1, <3>2, <3>3, MovedIs
  <2>5. r.st = "attached" => Applied(r.slot) \in u
    BY <1>0 DEF WriterInv
  <2>6. WriterInv(r', u, o, w2) /\ WriterMoves(s, r, u, o, w, r', u, o, w2)
    BY <1>0, <2>1, <2>3, <2>4, <2>5, WriterStops
  <2>7. QED
    BY <2>1, <2>6 DEF WriterKeeps
<1>10. CASE FailDetach(l, "writer")
  <2> DEFINE to == Failing[w.st]
  <2>1. /\ UNCHANGED <<lease, usb>> /\ w.pc = "fail" /\ w.st \in Taken
        /\ LeftBy(l, "writer", "attach_unknown")
    BY <1>0, <1>10 DEF FailDetach, DetachInv
  <2>2. o' = IF w.st = "attaching" /\ Refs(l) # {}
                /\ ~Cas(l, "attaching", "attach_unknown")
             THEN "left" ELSE o
    BY <2>1 DEF LeftBy, LeavesIf, TypeOK
  <2>3. /\ r.st \notin {"none", "held"}
        /\ r.st = "attached" => Applied(r.slot) \in u
    BY <1>0, <2>1 DEF WriterInv
  <2>4. ASSUME w.st # "attaching" PROVE ~Answers(w) /\ UNCHANGED wrote
    BY <2>1, <2>4 DEF Answers, LeftBy, LeavesIf
  <2>5. CASE w.st = "detach_failed" /\ Done(l, "writer", FALSE) /\ UNCHANGED row
    BY <1>1, <2>1, <2>4, <2>5
  <2>6. CASE /\ w.st # "detach_failed" /\ Cas(l, w.st, to)
             /\ row' = Moved(l, to, IF to = "attach_unknown" THEN NoSlot
                                    ELSE row[l].slot)
             /\ IF to = "detaching" THEN Become(l, "writer", [w EXCEPT !.st = to])
                ELSE Done(l, "writer", FALSE)
    <3>1. /\ to = IF w.st = "attaching" THEN "attach_unknown"
                  ELSE IF w.st = "detaching" THEN "detach_failed" ELSE "detaching"
          /\ r.st = w.st
      BY <2>1, <2>6 DEF Failing, Taken, Cas
    <3>2. r'.st = to
      <4> HIDE DEF to
      <4>1. QED
        BY <2>6, MovedIs
    <3>3. o' = o
      BY <2>2, <2>6, <3>1
    <3>4. r'.st \in Live \ {"held", "attaching", "attached"}
      BY <3>1, <3>2, RowStatesAre DEF Live
    <3>5. Answers(w) => Straddles(r, w)
      BY <2>1, <2>4, <3>1 DEF Straddles
    <3>6. CASE to = "detaching"
      <4>1. w2 = [w EXCEPT !.st = "detaching"]
        BY <2>6, <3>6, WriterIs
      <4>2. w2.pc = "fail" /\ w2.st = "detaching"
        BY <1>0, <2>1, <4>1 DEF Locals
      <4>3. WriterInv(r', u, o, w2)
        BY <3>2, <3>4, <3>6, <4>2 DEF WriterInv, DetachInv, Taken
      <4>4. WriterMoves(s, r, u, o, w, r', u, o, w2)
        BY <3>2, <3>5, <3>6, <4>2 DEF WriterMoves, Straddles, Covered
      <4>5. QED
        BY <2>1, <3>3, <4>3, <4>4 DEF WriterKeeps
    <3>7. CASE to # "detaching"
      <4>1. w2.pc \in {"idle", "giveup"} /\ w2.st = "none"
        BY <2>6, <3>7, WriterDone
      <4>2. /\ r'.st \notin {"none", "attaching", "attached"} /\ r'.st # "held"
            /\ \/ ~Answers(w) /\ r'.st \in Live \ {"held"}
               \/ Straddles(r, w) /\ r'.st \in Live \ {"held", "attaching"}
        BY <3>4, <3>5 DEF Live
      <4>3. /\ WriterInv(r', u, o, w2)
            /\ WriterMoves(s, r, u, o, w, r', u, o, w2)
        BY <1>0, <2>1, <2>3, <4>1, <4>2, WriterStops
      <4>4. QED
        BY <2>1, <3>3, <4>3 DEF WriterKeeps
    <3>8. QED
      BY <3>6, <3>7
  <2>7. CASE /\ w.st # "detach_failed" /\ ~Cas(l, w.st, to)
             /\ Lost(l, "writer") /\ UNCHANGED row
    <3>1. w2.pc \in {"idle", "giveup"} /\ w2.st = "none"
      BY <1>3, <2>7, WriterDone
    <3>2. CASE w.st = "attaching"
      <4>1. Clean(u, o')
        BY <2>2, <2>7, <3>2 DEF Clean, Refs, Failing
      <4>2. WriterInv(r, u, o', w2) /\ WriterMoves(s, r, u, o, w, r, u, o', w2)
        BY <1>0, <2>1, <2>3, <3>1, <4>1, WriterStops
      <4>3. QED
        BY <2>1, <2>7, <4>2 DEF WriterKeeps
    <3>3. CASE w.st # "attaching"
      BY <1>1, <1>3, <2>1, <2>4, <2>7, <3>3
    <3>4. QED
      BY <3>2, <3>3
  <2>8. QED
    BY <1>10, <2>5, <2>6, <2>7 DEF FailDetach
<1>11. QED
  BY <1>4, <1>5, <1>6, <1>7, <1>8, <1>9, <1>10 DEF Detaching

\* A step of the writer.
LEMMA WriterActs ==
    ASSUME TypeOK, NEW l \in Leases,
           LeaseInv(lease[l], row[l], usb[l], wrote[l], proc[l]), Writing(l)
    PROVE  WriterKeeps(l)
<1>1. WriterInv(row[l], usb[l], wrote[l], proc[l]["writer"])
  BY DEF LeaseInv
<1>2. QED
  BY <1>1, WriterStarts, WriterPrepares, WriterWrites, WriterRecords, WriterDetaches
  DEF Writing

-----------------------------------------------------------------------------
(* What a step of one lease's parties leaves alone.                        *)

ProcFrame(l, p) ==
    /\ \A k \in Parties \ {p} : proc'[l][k] = proc[l][k]
    /\ \A m \in Leases \ {l} : proc'[m] = proc[m]

\* No row becomes live but by a reservation.
RowFrame(l) ==
    /\ row'[l].st \in Live => row[l].st \in Live
    /\ \A m \in Leases \ {l} : row'[m] = row[m]

RestFrame(l) ==
    \A m \in Leases \ {l} :
        lease'[m] = lease[m] /\ usb'[m] = usb[m] /\ wrote'[m] = wrote[m]

LEMMA BecomeFrame ==
    ASSUME TypeOK, NEW l \in Leases, NEW p \in Parties, NEW r, Become(l, p, r)
    PROVE  ProcFrame(l, p)
BY BecomeIs DEF ProcFrame

LEMMA GoFrame ==
    ASSUME TypeOK, NEW l \in Leases, NEW p \in Parties, NEW pc, Go(l, p, pc)
    PROVE  ProcFrame(l, p)
BY BecomeFrame DEF Go

LEMMA DoneFrame ==
    ASSUME TypeOK, NEW l \in Leases, NEW p \in Parties, NEW ok, Done(l, p, ok)
    PROVE  ProcFrame(l, p)
BY BecomeFrame DEF Done

LEMMA LostFrame ==
    ASSUME TypeOK, NEW l \in Leases, NEW p \in Parties, Lost(l, p)
    PROVE  ProcFrame(l, p)
BY GoFrame, DoneFrame DEF Lost

LEMMA SameFrame == (UNCHANGED proc => \A l, p : ProcFrame(l, p))
                   /\ (UNCHANGED row => \A l : RowFrame(l))
                   /\ (UNCHANGED <<lease, usb, wrote>> => \A l : RestFrame(l))
BY DEF ProcFrame, RowFrame, RestFrame

LEMMA MovedFrame ==
    ASSUME TypeOK, NEW l \in Leases, NEW to, NEW slot,
           row' = Moved(l, to, slot), to \in Live => row[l].st \in Live
    PROVE  RowFrame(l)
BY MovedIs DEF RowFrame

\* A compare-and-set leaves no row that is not live.
LEMMA CasLive ==
    ASSUME TypeOK, NEW l \in Leases, NEW from, NEW to, to # "held",
           Cas(l, from, to)
    PROVE  row[l].st \in Live
<1>1. row[l].st \in RowStates /\ to \in Successors[row[l].st]
  BY RowType DEF Cas
<1>2. row[l].st \notin {"none", "released"}
  BY <1>1 DEF Successors
<1>3. QED
  BY <1>1, <1>2 DEF Live

LEMMA LeftFrame ==
    ASSUME TypeOK, NEW l \in Leases, UNCHANGED <<lease, usb>>,
           (\E gone \in BOOLEAN : LeavesIf(l, gone)) \/ UNCHANGED wrote
    PROVE  RestFrame(l)
BY DEF LeavesIf, RestFrame, TypeOK

LEMMA UsbFrame ==
    ASSUME TypeOK, NEW l \in Leases, UNCHANGED <<lease, wrote>>,
           NEW u, usb' = [usb EXCEPT ![l] = u]
    PROVE  RestFrame(l)
BY DEF RestFrame, TypeOK

LEMMA DetachingFrame ==
    ASSUME TypeOK, NEW l \in Leases, NEW p \in Parties, Detaching(l, p),
           DetachInv(proc[l][p])
    PROVE  ProcFrame(l, p) /\ RowFrame(l) /\ RestFrame(l)
<1> DEFINE r == proc[l][p]
           Goal == ProcFrame(l, p) /\ RowFrame(l) /\ RestFrame(l)
<1>1. CASE ReadBeforeDetach(l, p)
  <2>1. RowFrame(l) /\ RestFrame(l)
    BY <1>1, SameFrame DEF ReadBeforeDetach
  <2>2. ASSUME \E t \in Slots : Become(l, p, [r EXCEPT !.pc = "move", !.slot = t])
        PROVE  ProcFrame(l, p)
    <3>1. PICK t \in Slots : Become(l, p, [r EXCEPT !.pc = "move", !.slot = t])
      BY <2>2
    <3>2. QED
      BY <3>1, BecomeFrame
  <2>3. \/ Go(l, p, "finish") \/ Go(l, p, "clear") \/ Go(l, p, "unproven")
        \/ Go(l, p, "fail") \/ Done(l, p, FALSE)
        \/ \E t \in Slots : Become(l, p, [r EXCEPT !.pc = "move", !.slot = t])
    BY <1>1 DEF ReadBeforeDetach
  <2>4. QED
    BY <2>1, <2>2, <2>3, GoFrame, DoneFrame
<1>2. CASE Unproven(l, p)
  <2>1. ProcFrame(l, p)
    BY <1>2, DoneFrame, LostFrame DEF Unproven
  <2>2. RestFrame(l)
    BY <1>2, SameFrame DEF Unproven
  <2>3. RowFrame(l)
    BY <1>2, SameFrame, MovedFrame, CasLive DEF Unproven
  <2>4. QED
    BY <2>1, <2>2, <2>3
<1>3. CASE StartDetach(l, p)
  <2> DEFINE next == IF r.pc = "clear" THEN "finish" ELSE "put"
             slot == IF r.pc = "clear" THEN ClearedSlot(l, p) ELSE r.slot
  <2>1. \/ Go(l, p, next) /\ UNCHANGED row
        \/ /\ Cas(l, r.st, "detaching") /\ row' = Moved(l, "detaching", slot)
           /\ Become(l, p, [r EXCEPT !.pc = next, !.st = "detaching"])
        \/ Lost(l, p) /\ UNCHANGED row
    BY <1>3 DEF StartDetach
  <2>2. RestFrame(l)
    BY <1>3, LeftFrame DEF StartDetach, LeftBy
  <2> HIDE DEF next, slot, r
  <2>3. ProcFrame(l, p)
    BY <2>1, GoFrame, BecomeFrame, LostFrame
  <2>4. RowFrame(l)
    BY <2>1, SameFrame, MovedFrame, CasLive
  <2>5. QED
    BY <2>2, <2>3, <2>4
<1>4. CASE PutDelete(l, p)
  <2>1. RowFrame(l) /\ UNCHANGED <<lease, wrote>>
    BY <1>4, SameFrame DEF PutDelete
  <2>2. ProcFrame(l, p)
    BY <1>4, GoFrame, DoneFrame DEF PutDelete
  <2>3. RestFrame(l)
    <3>1. PICK gone \in Deleted(l, r.slot) \cup {usb[l]} :
            usb' = [usb EXCEPT ![l] = gone]
      BY <1>4, PutDeletes
    <3>2. QED
      BY <2>1, <3>1, UsbFrame
  <2>4. QED
    BY <2>1, <2>2, <2>3
<1>5. CASE Confirm(l, p)
  BY <1>5, SameFrame, GoFrame DEF Confirm
<1>6. CASE Finish(l, p)
  <2> DEFINE to == IF r.keep THEN "held" ELSE "released"
  <2>1. ProcFrame(l, p)
    BY <1>6, DoneFrame, LostFrame DEF Finish
  <2>2. RestFrame(l)
    BY <1>6, SameFrame DEF Finish
  <2>3. \/ UNCHANGED row
        \/ /\ row' = Moved(l, to, row[l].slot)
           /\ to = "held" => row[l].st = "detaching"
           /\ to \in {"held", "released"}
    BY <1>6 DEF Finish, Cas
  <2> HIDE DEF to
  <2>4. RowFrame(l)
    BY <2>3, SameFrame, MovedFrame, RowStatesAre DEF Live
  <2>5. QED
    BY <2>1, <2>2, <2>4
<1>7. CASE FailDetach(l, p)
  <2> DEFINE to == Failing[r.st]
             slot == IF to = "attach_unknown" THEN NoSlot ELSE row[l].slot
  <2>1. \/ UNCHANGED row
        \/ Cas(l, r.st, to) /\ row' = Moved(l, to, slot) /\ r.st # "detach_failed"
    BY <1>7 DEF FailDetach
  <2>2. \/ Become(l, p, [r EXCEPT !.st = to]) \/ Done(l, p, FALSE) \/ Lost(l, p)
    BY <1>7 DEF FailDetach
  <2>3. RestFrame(l)
    BY <1>7, LeftFrame DEF FailDetach, LeftBy
  <2>4. r.st # "detach_failed" => to # "held"
    BY <1>7 DEF FailDetach, DetachInv, Failing, Taken
  <2> HIDE DEF to, slot, r
  <2>5. ProcFrame(l, p)
    BY <2>2, BecomeFrame, DoneFrame, LostFrame
  <2>6. RowFrame(l)
    BY <2>1, <2>4, SameFrame, MovedFrame, CasLive
  <2>7. QED
    BY <2>3, <2>5, <2>6
<1>8. QED
  BY <1>1, <1>2, <1>3, <1>4, <1>5, <1>6, <1>7 DEF Detaching

LEMMA UnknownFrame ==
    ASSUME TypeOK, NEW l \in Leases, NEW p \in Parties, LeaveUnknown(l, p)
    PROVE  ProcFrame(l, p) /\ RowFrame(l) /\ RestFrame(l)
<1> DEFINE slot == proc[l][p].slot
<1>1. Done(l, p, FALSE) /\ UNCHANGED <<lease, usb>>
  BY DEF LeaveUnknown
<1>2. UNCHANGED wrote \/ LeavesIf(l, slot # NoSlot)
  BY DEF LeaveUnknown
<1>3. \/ UNCHANGED row
      \/ /\ Cas(l, "attaching", "attach_unknown")
         /\ row' = Moved(l, "attach_unknown", slot)
  BY DEF LeaveUnknown
<1> HIDE DEF slot
<1>4. RowFrame(l)
  BY <1>3, SameFrame, MovedFrame, CasLive
<1>5. RestFrame(l)
  BY <1>1, <1>2, LeftFrame
<1>6. QED
  BY <1>1, <1>4, <1>5, DoneFrame

LEMMA WritingFrame ==
    ASSUME TypeOK, NEW l \in Leases, Writing(l), DetachInv(proc[l]["writer"])
    PROVE  ProcFrame(l, "writer") /\ RowFrame(l) /\ RestFrame(l)
<1> DEFINE w == proc[l]["writer"]
           Goal == ProcFrame(l, "writer") /\ RowFrame(l) /\ RestFrame(l)
<1>0. "writer" \in Parties
  BY DEF Parties
<1>1. ASSUME NEW r, Become(l, "writer", r) PROVE ProcFrame(l, "writer")
  BY <1>0, <1>1, BecomeFrame
<1>2. ASSUME NEW pc, Go(l, "writer", pc) PROVE ProcFrame(l, "writer")
  BY <1>0, <1>2, GoFrame
<1>3. ASSUME NEW ok, Done(l, "writer", ok) PROVE ProcFrame(l, "writer")
  BY <1>0, <1>3, DoneFrame
<1>4. CASE StartProvision(l)
  BY <1>1, <1>4, SameFrame DEF StartProvision
<1>5. CASE RefuseProvision(l)
  BY <1>1, <1>5, SameFrame DEF RefuseProvision
<1>6. ASSUME NEW what \in Requests, Serve(l, what) PROVE Goal
  BY <1>1, <1>6, SameFrame DEF Serve
<1>7. CASE Look(l)
  BY <1>1, <1>2, <1>3, <1>7, SameFrame DEF Look
<1>8. CASE ClaimAttach(l)
  <2>1. ProcFrame(l, "writer") /\ RestFrame(l)
    BY <1>1, <1>3, <1>8, SameFrame DEF ClaimAttach
  <2>2. RowFrame(l)
    BY <1>8, SameFrame, MovedFrame, CasLive DEF ClaimAttach
  <2>3. QED
    BY <2>1, <2>2
<1>9. CASE CountBeforeWrite(l)
  BY <1>1, <1>2, <1>9, SameFrame DEF CountBeforeWrite
<1>10. CASE Write(l)
  <2>1. ProcFrame(l, "writer")
    BY <1>1, <1>2, <1>10 DEF Write, Sends, SendsNothing
  <2>2. RestFrame(l)
    BY <1>10 DEF Write, Sends, SendsNothing, Added, RestFrame, TypeOK
  <2>3. RowFrame(l)
    BY <1>10, SameFrame DEF Write
  <2>4. QED
    BY <2>1, <2>2, <2>3
<1>11. CASE RecordAttached(l)
  <2>1. ProcFrame(l, "writer") /\ RestFrame(l)
    BY <1>1, <1>2, <1>11, SameFrame DEF RecordAttached
  <2>2. RowFrame(l)
    BY <1>11, SameFrame, MovedFrame, CasLive DEF RecordAttached
  <2>3. QED
    BY <2>1, <2>2
<1>12. CASE CountAfterWrite(l)
  BY <1>1, <1>12, SameFrame DEF CountAfterWrite
<1>13. CASE Undo(l)
  <2>1. ProcFrame(l, "writer") /\ RowFrame(l)
    BY <1>3, <1>13, SameFrame DEF Undo
  <2>2. RestFrame(l)
    BY <1>13 DEF Undo, LeavesIf, RestFrame, TypeOK
  <2>3. QED
    BY <2>1, <2>2
<1>14. CASE FailUnwritten(l)
  BY <1>1, <1>2, <1>14, SameFrame DEF FailUnwritten
<1>15. CASE Back(l)
  <2>1. ProcFrame(l, "writer") /\ RestFrame(l)
    BY <1>1, <1>3, <1>15, SameFrame DEF Back
  <2>2. RowFrame(l)
    BY <1>15, SameFrame, MovedFrame, CasLive DEF Back
  <2>3. QED
    BY <2>1, <2>2
<1>16. CASE GiveUp(l)
  <2>1. ProcFrame(l, "writer") /\ RowFrame(l)
    BY <1>1, <1>16, SameFrame DEF GiveUp
  <2>2. RestFrame(l)
    BY <1>16 DEF GiveUp, RestFrame, TypeOK
  <2>3. QED
    BY <2>1, <2>2
<1>17. QED
  BY <1>0, <1>4, <1>5, <1>6, <1>7, <1>8, <1>9, <1>10, <1>11, <1>12, <1>13, <1>14,
     <1>15, <1>16, UnknownFrame, DetachingFrame DEF Writing

LEMMA CleaningFrame ==
    ASSUME TypeOK, NEW l \in Leases, Cleaning(l), DetachInv(proc[l]["cleaner"])
    PROVE  ProcFrame(l, "cleaner") /\ RowFrame(l) /\ RestFrame(l)
<1> DEFINE Goal == ProcFrame(l, "cleaner") /\ RowFrame(l) /\ RestFrame(l)
<1>0. "cleaner" \in Parties
  BY DEF Parties
<1>1. ASSUME NEW r, Become(l, "cleaner", r) PROVE ProcFrame(l, "cleaner")
  BY <1>0, <1>1, BecomeFrame
<1>2. ASSUME NEW pc, Go(l, "cleaner", pc) PROVE ProcFrame(l, "cleaner")
  BY <1>0, <1>2, GoFrame
<1>3. ASSUME NEW kind, DetachRow(l, kind) PROVE ProcFrame(l, "cleaner")
  BY <1>1, <1>3 DEF DetachRow
<1>4. CASE CleanStart(l) \/ Reread(l) \/ Resync(l) \/ ResyncDetach(l) \/ Decide(l)
           \/ BareHolds(l)
  <2>1. ProcFrame(l, "cleaner")
    BY <1>1, <1>2, <1>3, <1>4
    DEF CleanStart, Reread, Resync, ResyncDetach, Decide, BareHolds
  <2>2. RowFrame(l) /\ RestFrame(l)
    BY <1>4, SameFrame
    DEF CleanStart, Reread, Resync, ResyncDetach, Decide, BareHolds
  <2>3. QED
    BY <2>1, <2>2
<1>5. ASSUME row' = Moved(l, "released", row[l].slot) PROVE RowFrame(l)
  BY <1>5, MovedFrame DEF Live
<1>6. CASE Free(l)
  BY <1>2, <1>5, <1>6, SameFrame DEF Free
<1>7. CASE ReleaseUnattached(l)
  BY <1>1, <1>5, <1>7, SameFrame DEF ReleaseUnattached
<1>8. CASE Delete(l)
  <2>1. ProcFrame(l, "cleaner") /\ RowFrame(l)
    BY <1>2, <1>8, SameFrame DEF Delete
  <2>2. RestFrame(l)
    BY <1>8 DEF Delete, RestFrame, TypeOK
  <2>3. QED
    BY <2>1, <2>2
<1>9. CASE Settle(l) \/ AttemptFails(l)
  <2>1. ProcFrame(l, "cleaner")
    BY <1>1, <1>2, <1>9 DEF Settle, AttemptFails
  <2>2. RowFrame(l)
    BY <1>9, SameFrame DEF Settle, AttemptFails
  <2>3. RestFrame(l)
    BY <1>9 DEF Settle, AttemptFails, RestFrame, TypeOK
  <2>4. QED
    BY <2>1, <2>2, <2>3
<1>10. QED
  BY <1>0, <1>4, <1>6, <1>7, <1>8, <1>9, DetachingFrame DEF Cleaning

LEMMA ReconcilingFrame ==
    ASSUME TypeOK, NEW l \in Leases, Reconciling(l), DetachInv(proc[l]["pass"])
    PROVE  ProcFrame(l, "pass") /\ RowFrame(l) /\ RestFrame(l)
<1>0. "pass" \in Parties
  BY DEF Parties
<1>1. CASE PassStart(l)
  <2> DEFINE pc == IF row[l].st = "held" THEN "finish" ELSE "view"
  <2>1. Become(l, "pass", [Idle EXCEPT !.st = row[l].st, !.slot = row[l].slot,
                                       !.pc = pc])
    BY <1>1 DEF PassStart
  <2> HIDE DEF pc
  <2>2. ProcFrame(l, "pass")
    BY <1>0, <2>1, BecomeFrame
  <2>3. QED
    BY <1>1, <2>2, SameFrame DEF PassStart
<1>2. CASE PassView(l)
  <2> DEFINE r == [proc[l]["pass"] EXCEPT !.pc = "unknown", !.slot = NoSlot]
  <2>1. \/ Go(l, "pass", "clear") \/ Go(l, "pass", "move")
        \/ Done(l, "pass", FALSE) \/ Become(l, "pass", r)
    BY <1>2 DEF PassView
  <2> HIDE DEF r
  <2>2. ProcFrame(l, "pass")
    BY <1>0, <2>1, GoFrame, DoneFrame, BecomeFrame
  <2>3. QED
    BY <1>2, <2>2, SameFrame DEF PassView
<1>3. QED
  BY <1>0, <1>1, <1>2, UnknownFrame, DetachingFrame DEF Reconciling

-----------------------------------------------------------------------------
(* Every step keeps the invariant.                                         *)

\* What a party's step, which keeps its own lease right, leaves of the others.
LEMMA FrameKeeps ==
    ASSUME IInv, TypeOK', NEW l \in Leases, NEW p \in Parties, ProcFrame(l, p),
           RowFrame(l), RestFrame(l),
           LeaseInv(lease'[l], row'[l], usb'[l], wrote'[l], proc'[l])
    PROVE  IInv'
<1>1. OneRow /\ \A m \in Leases :
        LeaseInv(lease[m], row[m], usb[m], wrote[m], proc[m])
  BY DEF IInv
<1>2. \A m \in Leases : row'[m].st \in Live => row[m].st \in Live
  BY DEF RowFrame
<1>3. OneRow'
  BY <1>1, <1>2 DEF OneRow
<1>4. ASSUME NEW m \in Leases
      PROVE  LeaseInv(lease'[m], row'[m], usb'[m], wrote'[m], proc'[m])
  BY <1>1 DEF ProcFrame, RowFrame, RestFrame
<1>5. QED
  BY <1>3, <1>4 DEF IInv

LEMMA StepInv == IInv /\ [Next]_vars => IInv'
<1> SUFFICES ASSUME IInv, [Next]_vars PROVE IInv'
  OBVIOUS
<1>1. TypeOK /\ TypeOK' /\ OneRow
  BY StepTypeOK DEF IInv
<1>2. ASSUME NEW l \in Leases
      PROVE  /\ LeaseInv(lease[l], row[l], usb[l], wrote[l], proc[l])
             /\ WriterInv(row[l], usb[l], wrote[l], proc[l]["writer"])
             /\ \A p \in Parties : DetachInv(proc[l][p])
             /\ \A k \in {"cleaner", "pass"} :
                  PartyInv(lease[l], row[l], usb[l], wrote[l], proc[l]["writer"],
                           proc[l][k])
             /\ proc[l]["cleaner"].pc \in DetachPcs
                  => proc[l]["cleaner"].kind # "pass"
  BY DEF IInv, LeaseInv, WriterInv, PartyInv, Parties
<1>3. "writer" \in Parties /\ "cleaner" \in Parties /\ "pass" \in Parties
  BY DEF Parties
<1>4. ASSUME NEW l \in Leases, Writing(l) PROVE IInv'
  <2>1. WriterKeeps(l)
    BY <1>1, <1>2, <1>4, WriterActs
  <2>2. ProcFrame(l, "writer") /\ RowFrame(l) /\ RestFrame(l)
    BY <1>1, <1>2, <1>3, <1>4, WritingFrame
  <2>3. \A k \in {"cleaner", "pass"} : proc'[l][k] = proc[l][k]
    BY <2>2 DEF ProcFrame, Parties
  <2>4. ASSUME NEW k \in {"cleaner", "pass"}
        PROVE  PartyInv(lease'[l], row'[l], usb'[l], wrote'[l], proc'[l]["writer"],
                        proc'[l][k])
    <3>1. PartyInv(lease'[l], row'[l], usb'[l], wrote'[l], proc'[l]["writer"],
                   proc[l][k])
      BY <1>2, <2>1, WriterMovesKeepParty DEF WriterKeeps
    <3>2. QED
      BY <2>3, <3>1
  <2>5. LeaseInv(lease'[l], row'[l], usb'[l], wrote'[l], proc'[l])
    BY <1>2, <2>1, <2>3, <2>4 DEF LeaseInv, WriterKeeps
  <2>6. QED
    BY <1>1, <1>3, <2>2, <2>5, FrameKeeps
<1>5. ASSUME NEW l \in Leases, NEW k \in {"cleaner", "pass"},
             Moves(row[l], usb[l], wrote[l], proc[l]["writer"],
                   row'[l], usb'[l], wrote'[l]),
             PartyInv(lease'[l], row'[l], usb'[l], wrote'[l], proc[l]["writer"],
                      proc'[l][k]),
             k = "cleaner" /\ proc'[l][k].pc \in DetachPcs
               => proc'[l][k].kind # "pass",
             lease'[l] \in Counting => lease[l] \in Counting,
             ProcFrame(l, k), RowFrame(l), RestFrame(l)
      PROVE  IInv'
  <2>1. k \in Parties /\ proc'[l]["writer"] = proc[l]["writer"]
    BY <1>5 DEF ProcFrame, Parties
  <2>2. WriterInv(row'[l], usb'[l], wrote'[l], proc'[l]["writer"])
    BY <1>2, <1>5, <2>1, MovesKeepWriter
  <2>3. ASSUME NEW j \in {"cleaner", "pass"}, j # k
        PROVE  /\ PartyInv(lease'[l], row'[l], usb'[l], wrote'[l],
                           proc[l]["writer"], proc'[l][j])
               /\ proc'[l][j] = proc[l][j]
    <3>1. proc'[l][j] = proc[l][j]
      BY <1>5, <2>3 DEF ProcFrame, Parties
    <3>2. PartyInv(lease'[l], row'[l], usb'[l], wrote'[l], proc[l]["writer"],
                   proc[l][j])
      BY <1>2, <1>5, MovesKeepParty
    <3>3. QED
      BY <3>1, <3>2
  <2>4. \A j \in {"cleaner", "pass"} :
           PartyInv(lease'[l], row'[l], usb'[l], wrote'[l], proc'[l]["writer"],
                    proc'[l][j])
    BY <1>5, <2>1, <2>3
  <2>5. proc'[l]["cleaner"].pc \in DetachPcs => proc'[l]["cleaner"].kind # "pass"
    BY <1>2, <1>5, <2>3
  <2>6. LeaseInv(lease'[l], row'[l], usb'[l], wrote'[l], proc'[l])
    BY <2>2, <2>4, <2>5 DEF LeaseInv
  <2>7. QED
    BY <1>1, <1>5, <2>1, <2>6, FrameKeeps
<1>6. ASSUME NEW l \in Leases, Cleaning(l) PROVE IInv'
  <2>1. ProcFrame(l, "cleaner") /\ RowFrame(l) /\ RestFrame(l)
    BY <1>1, <1>2, <1>3, <1>6, CleaningFrame
  <2>2. Detaching(l, "cleaner") => UNCHANGED lease
    BY Zenon DEF Detaching, ReadBeforeDetach, Unproven, StartDetach, PutDelete, Confirm,
           Finish, FailDetach
  <2>3. CASE Detaching(l, "cleaner")
    BY <1>1, <1>2, <1>5, <2>1, <2>2, <2>3, PartyDetaches
  <2>4. CASE ~Detaching(l, "cleaner")
    BY <1>1, <1>2, <1>5, <1>6, <2>1, <2>4, CleanerActs
  <2>5. QED
    BY <2>3, <2>4
<1>7. ASSUME NEW l \in Leases, Reconciling(l) PROVE IInv'
  <2>1. ProcFrame(l, "pass") /\ RowFrame(l) /\ RestFrame(l)
    BY <1>1, <1>2, <1>3, <1>7, ReconcilingFrame
  <2>2. Detaching(l, "pass") => UNCHANGED lease
    BY Zenon DEF Detaching, ReadBeforeDetach, Unproven, StartDetach, PutDelete, Confirm,
           Finish, FailDetach
  <2>3. CASE Detaching(l, "pass")
    BY <1>1, <1>2, <1>5, <2>1, <2>2, <2>3, PartyDetaches
  <2>4. CASE ~Detaching(l, "pass")
    BY <1>1, <1>2, <1>5, <1>7, <2>1, <2>4, PassActs
  <2>5. QED
    BY <2>3, <2>4
<1>8. ASSUME NEW l \in Leases,
             LeaseMoves(l) \/ OperatorAttach(l) \/ GuestRestart(l)
               \/ \E what \in Requests : Ask(l, what)
      PROVE  IInv'
  <2>1. /\ Moves(row[l], usb[l], wrote[l], proc[l]["writer"],
                 row'[l], usb'[l], wrote'[l])
        /\ lease'[l] \in Counting => lease[l] \in Counting
        /\ \A m \in Leases \ {l} : lease'[m] = lease[m] /\ usb'[m] = usb[m]
        /\ UNCHANGED <<row, proc, wrote>>
    BY <1>1, <1>8, WorldMoves
  <2>2. ProcFrame(l, "pass") /\ RowFrame(l) /\ RestFrame(l)
    BY <2>1, SameFrame DEF RestFrame
  <2>3. PartyInv(lease'[l], row'[l], usb'[l], wrote'[l], proc[l]["writer"],
                 proc[l]["pass"])
    BY <1>2, <2>1, MovesKeepParty
  <2>4. proc'[l]["pass"] = proc[l]["pass"]
    BY <2>1
  <2>5. PartyInv(lease'[l], row'[l], usb'[l], wrote'[l], proc[l]["writer"],
                 proc'[l]["pass"])
    BY <2>3, <2>4
  <2>6. QED
    BY <1>5, <2>1, <2>2, <2>5
<1>9. CASE UNCHANGED vars
  BY <1>9 DEF vars, IInv, TypeOK, OneRow
<1>10. QED
  BY <1>4, <1>6, <1>7, <1>8, <1>9, ReserveKeeps, RestartKeeps DEF Next, World

\* Initially nothing is reserved, written or running.
LEMMA InitInv == Init => IInv
<1> SUFFICES ASSUME Init PROVE IInv
  OBVIOUS
<1>1. TypeOK
  BY IdleType, RowStatesAre, UsbAssumption DEF Init, TypeOK, LeaseStates
<1>2. OneRow
  BY DEF Init, OneRow, Live
<1>3. ASSUME NEW l \in Leases
      PROVE  LeaseInv(lease[l], row[l], usb[l], wrote[l], proc[l])
  <2>1. /\ row[l].st = "none" /\ usb[l] = {} /\ \A p \in Parties : proc[l][p] = Idle
    BY DEF Init
  <2>2. WriterInv(row[l], usb[l], wrote[l], Idle)
    BY <2>1 DEF WriterInv, DetachInv, Covered, Clean, Idle
  <2>3. QED
    BY <2>1, <2>2, IdleParty DEF LeaseInv, Parties
<1>4. QED
  BY <1>1, <1>2, <1>3 DEF IInv

LEMMA Inductive == Spec => []IInv
<1>1. Init => IInv
  BY InitInv
<1>2. IInv /\ [Next]_vars => IInv'
  BY StepInv
<1>3. QED
  BY <1>1, <1>2, PTL DEF Spec

-----------------------------------------------------------------------------
(* The theorems.                                                           *)

\* In every reachable state every variable has its type: no party is at a place,
\* and no row or lease in a state, that the code does not name.
THEOREM TypeCorrect == Spec => []TypeOK
<1>1. IInv => TypeOK
  BY DEF IInv
<1>2. QED
  BY <1>1, Inductive, PTL

LEMMA InvAccounts == IInv => EntryAccounted
<1> SUFFICES ASSUME IInv, NEW l \in Leases, Fleets(l) # {}
             PROVE  \/ row[l].st \in Live \ {"held"} \/ Unrecorded(l)
                    \/ wrote[l] = "left"
  BY DEF EntryAccounted
<1>1. WriterInv(row[l], usb[l], wrote[l], proc[l]["writer"])
  BY DEF IInv, LeaseInv
<1>2. Clean(usb[l], wrote[l]) => wrote[l] = "left"
  BY DEF Clean, Fleets
<1>3. Answers(proc[l]["writer"]) => Unrecorded(l)
  BY DEF Answers, Unrecorded
<1>4. QED
  BY <1>1, <1>2, <1>3 DEF WriterInv, Covered

\* "Never release on a guess": an entry of Fleet's has a row that says so, a
\* writer that is about to record or undo it, or was given up, for any number of
\* leases, slots, waiting requests and failures.
THEOREM EntriesAccounted == Spec => []EntryAccounted
BY Inductive, InvAccounts, PTL

\* A row that says attached is right, whoever moved it last: the guest shows
\* Fleet's entry, applied, in the recorded slot.
THEOREM AttachedIsRight == Spec => []AttachedIsThere
<1>1. IInv => AttachedIsThere
  BY DEF IInv, LeaseInv, WriterInv, AttachedIsThere, Applied
<1>2. QED
  BY <1>1, Inductive, PTL

\* While one lease has the device attached, no other guest shows an entry of
\* Fleet's but one that its writer answers for or that was given up.
THEOREM DeviceInOnePlace == Spec => []OnePlace
<1>1. IInv => OnePlace
  <2> SUFFICES ASSUME IInv, NEW l \in Leases, NEW m \in Leases, l # m,
                      row[l].st = "attached", Fleets(m) # {}
               PROVE  Unrecorded(m) \/ wrote[m] = "left"
    BY DEF OnePlace
  <2>1. row[l].st \in Live
    BY RowStatesAre DEF Live
  <2>2. row[m].st \notin Live
    BY <2>1 DEF IInv, OneRow
  <2>3. QED
    BY <2>2, InvAccounts DEF EntryAccounted
<1>2. QED
  BY <1>1, Inductive, PTL

=============================================================================
