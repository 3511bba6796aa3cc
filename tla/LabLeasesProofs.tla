--------------------------- MODULE LabLeasesProofs ---------------------------
(***************************************************************************)
(* Theorems about lab leases, for any number of them and of VMIDs, and for *)
(* any bounds.  The invariant IInv says why no cleanup deletes the guest   *)
(* of another lease.  A VMID passes from one record to another only when   *)
(* the lease of the first is released, and then that lease is spent: its   *)
(* last cleanup is done, no copy of its row names a later one, and so no   *)
(* delete of it can follow.  Excl states that, Last and Spent carry it     *)
(* through the blind writes, and Clear adds what is left of the first      *)
(* lease at the VMID: nothing, or the late clone of a record that failed.  *)
(*                                                                         *)
(* The proof has three layers: TypeStep; a lemma <Action>Does for each     *)
(* action, which says field by field what it changes; and for each part of *)
(* the invariant a lemma with a step per action that touches it.           *)
(*                                                                         *)
(* The last part is about the composition with the pools (LabPools), which *)
(* shares those layers: its steps move the variables of LabLeases as a     *)
(* saga or a cleanup does, and PoolIInv follows a member from the claim to *)
(* the rollback that lets it return.                                       *)
(***************************************************************************)
EXTENDS LabPoolsProps, TLAPS

\* The places that hold a copy of a row which a later step writes.
SagaHolds == {"bootlease", "strapwrite", "failwrite", "compwrite", "compqueue"}
CleanerHolds == {"identify", "delete", "release", "fail"}
CallHolds == {"release", "keep", "retry", "extend", "queue"}
SweepHolds == {"claim", "move", "count"}

\* What will be written is a copy of a row, and the write has somewhere to go.
SagaCopies ==
    \A l \in Leases :
        /\ saga[l].pc \in SagaHolds => saga[l].row \in Rows
        /\ saga[l].pc = "compwrite" =>
               Compensation(saga[l].row.state,
                            Allocated(saga[l].row, record[l].vmid)) # "stay"
CleanerCopies ==
    \A l \in Leases, a \in Attempts :
        cleaner[l][a].pc \in CleanerHolds => cleaner[l][a].row \in Rows
CallCopies ==
    \A c \in Callers :
        /\ call[c].pc \in CallHolds => call[c].lease \in Leases /\ call[c].row \in Rows
        /\ call[c].pc = "extend" => call[c].row.expires <= MaxExtensions
SweepCopies ==
    /\ sweep.pc \in SweepHolds => sweep.lease \in Leases /\ sweep.row \in Rows
    /\ sweep.pc = "judge" => sweep.seen \in Vmids
    /\ sweep.pc = "move" => /\ sweep.seen \in {"releasing", "failed"}
                            /\ sweep.row.state \in InSaga \cup {"failed"}
CopyInv == SagaCopies /\ CleanerCopies /\ CallCopies /\ SweepCopies

\* How far a saga has come with its record, its clone and its guest.
Waiting == {"none", "attached", "queued", "reserve"}
Booted == {"bootlease", "wait", "strapread", "strapwrite", "strap", "ready"}
Cloned == {"mark", "settle"} \cup Booted
Named(l) == \E v \in Vmids : guest[v] = l
SagaPlace(l) ==
    /\ record[l].state = "none" <=> saga[l].pc = "none"
    /\ saga[l].pc \in Waiting => record[l].vmid = Nothing
    /\ saga[l].pc = "reserve" => saga[l].vmid \in Vmids
    /\ saga[l].pc \in Cloned \cup {"clone"} =>
           saga[l].vmid = record[l].vmid /\ record[l].vmid \in Vmids
    /\ saga[l].pc \in Waiting \cup {"clone"} =>
           task[l] = Nothing /\ ~Named(l) /\ ~record[l].upid
    /\ saga[l].pc \in Waiting \cup {"clone", "mark"} =>
           record[l].state \in {"none", "provisioning", "never_ready"}
    /\ task[l] # Nothing => /\ task[l] = record[l].vmid /\ ~Named(l)
                            /\ record[l].state \in {"provisioning", "never_ready"}
    /\ saga[l].pc \in Booted => task[l] = Nothing
    /\ record[l].vmid = Nothing => ~record[l].upid
SagaInv ==
    /\ \A l \in Leases : SagaPlace(l)
    /\ \A v \in Vmids : /\ guest[v] \in Leases => record[guest[v]].vmid = v
                        /\ guest[v] # Stranger

\* A ready lease has the ready record its saga ended with.
ReadyInv ==
    \A l \in Leases :
        /\ lease[l].state = "ready" => record[l].state = "ready" /\ lease[l].link
        /\ record[l].state = "ready" => saga[l].pc = "done"

\* The cleanup operation of attempt h is the last of l: none exists beyond it,
\* those before it have ended, and no copy of the row counts further.
Ended == {"done", "not_pooled", "abandoned"}
LastCleaner(l, h) ==
    \A a \in Attempts : /\ a > h => cleaner[l][a].pc = "absent"
                        /\ a < h => cleaner[l][a].pc \in Ended
SagaUpTo(l, h) == saga[l].pc \in SagaHolds => saga[l].row.attempts <= h
CleanerUpTo(l, h) ==
    \A a \in Attempts :
        cleaner[l][a].pc \in CleanerHolds => cleaner[l][a].row.attempts <= h
CallUpTo(l, h) ==
    \A c \in Callers :
        call[c].pc \in CallHolds /\ call[c].lease = l => call[c].row.attempts <= h
SweepUpTo(l, h) ==
    sweep.pc \in SweepHolds /\ sweep.lease = l => sweep.row.attempts <= h
Last(l, h) ==
    /\ LastCleaner(l, h) /\ lease[l].attempts <= h
    /\ SagaUpTo(l, h) /\ CleanerUpTo(l, h) /\ CallUpTo(l, h) /\ SweepUpTo(l, h)

\* No cleanup of l will ever act again: the last one is done.
Finished == {"done", "not_pooled"}
Spent(l) == \E h \in Attempts : Last(l, h) /\ cleaner[l][h].pc \in Finished

LastInv == \A l \in Leases : \E h \in Attempts : Last(l, h)
SpentInv == \A l \in Leases : lease[l].state = "released" => Spent(l)
CountInv ==
    \A l \in Leases, a \in Attempts :
        sweep.pc = "count" /\ sweep.lease = l /\ sweep.row.attempts = a =>
            cleaner[l][a].pc = "abandoned"
KeyInv == LastInv /\ SpentInv /\ CountInv

\* A lease that lost its claim to the VMID of its record: it was released, or
\* was until a blind write, and its saga is past the provisioning.
Over(l) ==
    /\ Spent(l) /\ record[l].state \notin {"none", "provisioning"}
    /\ lease[l].state = "released" \/ l \in overtaken
Share(l, m) == l # m /\ record[l].vmid = record[m].vmid /\ record[l].vmid # Nothing
Excl == \A l, m \in Leases : Share(l, m) => Over(l) \/ Over(m)

\* A lease that has shown its claim, by a clone or by a delete, shares its VMID
\* only with records that have no guest or have failed.
Shown(l) ==
    \/ record[l].upid \/ task[l] # Nothing \/ Named(l) \/ saga[l].pc = "mark"
    \/ \E a \in Attempts : cleaner[l][a].pc = "delete"
Harmless(l) == record[l].state = "never_ready" \/ (task[l] = Nothing /\ ~Named(l))
Clear ==
    \A l, m \in Leases : Share(l, m) /\ ~Over(l) /\ Shown(l) => Harmless(m)

\* A cleanup is sure of a clone, and deletes at a VMID, that its record has.
DeleteInv ==
    \A l \in Leases, a \in Attempts :
        /\ cleaner[l][a].pc \in CleanerHolds /\ cleaner[l][a].sure => record[l].upid
        /\ cleaner[l][a].pc \in {"identify", "delete"} => record[l].vmid \in Vmids

\* A lease that nothing has begun to clean up has no cleanup operation.
Early(l) ==
    /\ l \notin overtaken
    /\ lease[l].state \in {"requested", "ready", "failed"} \cup InSaga
Untouched(l) ==
    /\ \A a \in Attempts : cleaner[l][a].pc = "absent"
    /\ \A c \in Callers : call[c].pc = "queue" => call[c].lease # l
    /\ saga[l].pc # "compqueue"
EarlyInv == \A l \in Leases : Early(l) => Untouched(l)

\* From the boot on, the guest stands at the VMID of the record.
Stands(l) == record[l].vmid \in Vmids /\ guest[record[l].vmid] = l
BootedOrReady(l) == lease[l].state = "ready" \/ saga[l].pc \in Booted
GuestInv == \A l \in Leases : Early(l) /\ BootedOrReady(l) => Stands(l)

\* A scan that found a deadline passed is right about it until it moves.
RightUntilMoved(l) ==
    /\ lease[l].expires >= sweep.row.expires
    /\ lease[l].expires = sweep.row.expires => l \in lapsed
ClaimInv ==
    \A l \in Leases : sweep.pc = "claim" /\ sweep.lease = l =>
        saga[l].pc = "done" /\ (lease[l].state = "ready" => RightUntilMoved(l))

\* What the steps of a lease need in order to write: types, copies that are
\* rows, and a VMID to reserve.
Aims == \A l \in Leases : saga[l].pc = "reserve" => saga[l].vmid \in Vmids
Ground == TypeOK /\ CopyInv /\ Aims

IInv == /\ TypeOK /\ CopyInv /\ SagaInv /\ ReadyInv /\ KeyInv /\ Excl /\ Clear
        /\ DeleteInv /\ EarlyInv /\ GuestInv /\ ClaimInv

LEMMA Grounded == IInv => Ground
BY DEF IInv, Ground, SagaInv, SagaPlace, Aims

-----------------------------------------------------------------------------
\* Where a compensation sends a lease, and what a counted failure leaves.
LEMMA CompensationTo ==
    ASSUME NEW s, NEW b \in BOOLEAN
    PROVE  /\ Compensation(s, b) \in {"releasing", "failed", "stay"}
           /\ s \in InSaga => Compensation(s, b) # "stay"
           /\ Compensation(s, b) # "stay" => s \in InSaga \cup {"failed"}
           /\ Compensation(s, b) = "failed" => s \in InSaga
           /\ Compensation(s, b) = "releasing" => b
BY DEF Compensation, InSaga

\* A row is a copy, and rows, records and copies stay what they are when a
\* field is written.
LEMMA CopyTypes == Nothing \in Copies /\ \A r \in Rows : r \in Copies
BY DEF Copies

\* The fields of a row, and the rows and records that a write makes.
LEMMA RowFields ==
    ASSUME NEW r \in Rows
    PROVE  /\ r.state \in LeaseStates /\ r.link \in BOOLEAN /\ r.attempts \in Attempts
           /\ r.cleanup \in {"destroy", "revert", "keep"}
           /\ r.expires \in 0 .. MaxExtensions + 1
BY DEF Rows

LEMMA RowEdits ==
    ASSUME NEW r \in Rows, NEW s \in LeaseStates
    PROVE  /\ [r EXCEPT !.state = s] \in Rows
           /\ [r EXCEPT !.state = s, !.link = TRUE] \in Rows
           /\ [r EXCEPT !.state = s, !.expires = 1] \in Rows
           /\ r.expires <= MaxExtensions => [r EXCEPT !.expires = @ + 1] \in Rows
           /\ \A how \in {"destroy", "revert", "keep"} :
                  [r EXCEPT !.state = s, !.cleanup = how] \in Rows
           /\ \A n \in Attempts : [r EXCEPT !.state = s, !.attempts = n] \in Rows
<1>1. 1 \in 0 .. MaxExtensions + 1
  BY BoundsAssumption
<1>2. r.expires \in 0 .. MaxExtensions + 1
  BY DEF Rows
<1>3. ASSUME r.expires <= MaxExtensions PROVE r.expires + 1 \in 0 .. MaxExtensions + 1
  BY <1>2, <1>3, BoundsAssumption
<1>4. /\ [r EXCEPT !.state = s] \in Rows
      /\ [r EXCEPT !.state = s, !.link = TRUE] \in Rows
  BY DEF Rows
<1>5. [r EXCEPT !.state = s, !.expires = 1] \in Rows
  BY <1>1 DEF Rows
<1>6. r.expires <= MaxExtensions => [r EXCEPT !.expires = @ + 1] \in Rows
  BY <1>3 DEF Rows
<1>7. \A how \in {"destroy", "revert", "keep"} :
          [r EXCEPT !.state = s, !.cleanup = how] \in Rows
  BY DEF Rows
<1>8. \A n \in Attempts : [r EXCEPT !.state = s, !.attempts = n] \in Rows
  BY DEF Rows
<1> QED
  BY <1>4, <1>5, <1>6, <1>7, <1>8

LEMMA RowStates ==
    ASSUME NEW s \in {"requested", "ready", "releasing", "provisioning", "booting",
                      "bootstrapping", "released", "failed", "cleanup_failed"}
    PROVE  s \in LeaseStates
BY DEF LeaseStates, InSaga, Terminal

\* record_cleanup_failure counts one attempt at most.
LEMMA FailedRow ==
    ASSUME NEW row \in Rows
    PROVE  /\ Failed(row) \in Rows
           /\ Failed(row).state \in {"releasing", "cleanup_failed"}
           /\ Failed(row).link = row.link
           /\ Failed(row).attempts >= row.attempts
           /\ Failed(row).attempts <= row.attempts + 1
<1> DEFINE n == IF row.attempts < MaxFailures THEN row.attempts + 1 ELSE MaxFailures
           s == IF n % MaxAttempts = 0 THEN "cleanup_failed" ELSE "releasing"
<1>1. row.attempts \in 0 .. MaxFailures /\ MaxFailures \in Nat
  BY RowFields, BoundsAssumption DEF Attempts
<1>2. n \in Attempts /\ n >= row.attempts /\ n <= row.attempts + 1
  BY <1>1 DEF Attempts
<1>3. s \in {"releasing", "cleanup_failed"} /\ s \in LeaseStates
  BY RowStates
<1>4. Failed(row) = [row EXCEPT !.attempts = n, !.state = s]
  BY DEF Failed
<1> HIDE DEF n, s
<1>5. [row EXCEPT !.attempts = n, !.state = s] \in Rows
  BY <1>2, <1>3 DEF Rows
<1>6. LET r == [row EXCEPT !.attempts = n, !.state = s]
      IN  r.state = s /\ r.link = row.link /\ r.attempts = n
  BY DEF Rows
<1> QED
  BY <1>2, <1>3, <1>4, <1>5, <1>6

LEMMA RecordNames ==
    ASSUME NEW s \in {"ready", "never_ready", "provisioning", "booting",
                      "bootstrapping"}
    PROVE  s \in RecordStates
BY DEF RecordStates, InSaga

LEMMA RecordFields ==
    ASSUME NEW r \in Records
    PROVE  /\ r.state \in RecordStates /\ r.vmid \in Vmids \cup {Nothing}
           /\ r.upid \in BOOLEAN /\ r.cloneFailed \in BOOLEAN
BY DEF Records

LEMMA RecordEdits ==
    ASSUME record \in [Leases -> Records], NEW l \in Leases, NEW s \in RecordStates
    PROVE  /\ [record EXCEPT ![l].state = s] \in [Leases -> Records]
           /\ [record EXCEPT ![l].upid = TRUE] \in [Leases -> Records]
           /\ \A v \in Vmids : [record EXCEPT ![l].vmid = v] \in [Leases -> Records]
           /\ \A c \in BOOLEAN :
                  [record EXCEPT ![l].state = s, ![l].cloneFailed = c] \in [Leases -> Records]
<1>1. record[l] \in Records
  OBVIOUS
<1>2. /\ [record[l] EXCEPT !.state = s] \in Records
      /\ [record[l] EXCEPT !.upid = TRUE] \in Records
      /\ \A v \in Vmids : [record[l] EXCEPT !.vmid = v] \in Records
      /\ \A c \in BOOLEAN : [record[l] EXCEPT !.state = s, !.cloneFailed = c] \in Records
  BY <1>1 DEF Records
<1>3. \A v \in Vmids : [record EXCEPT ![l].vmid = v] \in [Leases -> Records]
  BY <1>2
<1>4. \A c \in BOOLEAN :
          [record EXCEPT ![l].state = s, ![l].cloneFailed = c] \in [Leases -> Records]
  <2> TAKE c \in BOOLEAN
  <2>1. [record[l] EXCEPT !.state = s, !.cloneFailed = c] \in Records
    BY <1>2
  <2>2. [record EXCEPT ![l].state = s, ![l].cloneFailed = c]
            = [record EXCEPT ![l] = [record[l] EXCEPT !.state = s, !.cloneFailed = c]]
    OBVIOUS
  <2> QED
    BY <2>1, <2>2
<1> QED
  BY <1>2, <1>3, <1>4

\* The steps of a saga, a cleanup, a request and the sweeper keep their types.
LEMMA SagaMoves ==
    ASSUME saga \in [Leases -> Sagas], lease \in [Leases -> Rows], NEW l \in Leases,
           NEW here, NEW next \in SagaPcs,
           At(l, here, next) \/ Reading(l, here, next)
    PROVE  saga' \in [Leases -> Sagas]
BY CopyTypes DEF At, Reading, Sagas

LEMMA CleanMoves ==
    ASSUME cleaner \in [Leases -> [Attempts -> Cleaners]],
           NEW l \in Leases, NEW a \in Attempts, NEW here,
           NEW next \in CleanerPcs, Clean(l, a, here, next)
    PROVE  cleaner' \in [Leases -> [Attempts -> Cleaners]]
<1>1. [NoCleaner EXCEPT !.pc = next] \in Cleaners
  BY CopyTypes DEF NoCleaner, Cleaners
<1>2. [cleaner[l][a] EXCEPT !.pc = next] \in Cleaners
  BY DEF Cleaners
<1> QED
  BY <1>1, <1>2 DEF Clean

LEMMA QueueMoves ==
    ASSUME cleaner \in [Leases -> [Attempts -> Cleaners]],
           NEW l \in Leases, NEW a \in Attempts, Queue(l, a)
    PROVE  cleaner' \in [Leases -> [Attempts -> Cleaners]]
<1> DEFINE d == [cleaner[l][a] EXCEPT !.pc = IF @ = "absent" THEN "queued" ELSE @]
<1>1. d \in Cleaners
  BY DEF Cleaners, CleanerPcs
<1>2. cleaner' = [cleaner EXCEPT ![l] = [cleaner[l] EXCEPT ![a] = d]]
  BY DEF Queue
<1> HIDE DEF d
<1> QED
  BY <1>1, <1>2

LEMMA CallMoves ==
    ASSUME call \in [Callers -> Calls], NEW c \in Callers, NEW r \in Rows
    PROVE  /\ [call EXCEPT ![c] = Answered(c)] \in [Callers -> Calls]
           /\ [call EXCEPT ![c].pc = "queue", ![c].row = r] \in [Callers -> Calls]
           /\ \A pc \in {"release", "keep", "retry", "extend"}, l \in Leases :
                  [call EXCEPT ![c] = [pc |-> pc, lease |-> l, row |-> r]]
                      \in [Callers -> Calls]
<1>1. Answered(c) \in Calls
  BY CopyTypes DEF Answered, Calls, CallPcs
<1>2. [call[c] EXCEPT !.pc = "queue", !.row = r] \in Calls
  BY CopyTypes DEF Calls, CallPcs
<1>3. \A pc \in {"release", "keep", "retry", "extend"}, l \in Leases :
          [pc |-> pc, lease |-> l, row |-> r] \in Calls
  BY CopyTypes DEF Calls, CallPcs
<1>4. [call EXCEPT ![c].pc = "queue", ![c].row = r]
          = [call EXCEPT ![c] = [call[c] EXCEPT !.pc = "queue", !.row = r]]
  OBVIOUS
<1> QED
  BY <1>1, <1>2, <1>3, <1>4

LEMMA SweepMoves ==
    /\ NoSweep \in Sweeps
    /\ \A l \in Leases, next \in SweepPcs, row \in Copies,
          seen \in Vmids \cup {Nothing, "releasing", "failed"} :
           Scan(l, next, row, seen) => sweep' \in Sweeps
BY CopyTypes DEF NoSweep, Scan, Sweeps, SweepPcs

\* Every step keeps the types.
LEMMA TypeStep == Ground /\ [Next]_vars => TypeOK'
<1> SUFFICES ASSUME TypeOK, CopyInv, Aims, [Next]_vars PROVE TypeOK' BY DEF Ground
<1>1. lease \in [Leases -> Rows]
  BY DEF TypeOK
<1>2. record \in [Leases -> Records]
  BY DEF TypeOK
<1>3. guest \in [Vmids -> Leases \cup {Nothing, Stranger}]
  BY DEF TypeOK
<1>4. task \in [Leases -> Vmids \cup {Nothing}]
  BY DEF TypeOK
<1>5. saga \in [Leases -> Sagas]
  BY DEF TypeOK
<1>6. cleaner \in [Leases -> [Attempts -> Cleaners]]
  BY DEF TypeOK
<1>7. call \in [Callers -> Calls]
  BY DEF TypeOK
<1>8. sweep \in Sweeps
  BY DEF TypeOK
<1>9. lapsed \subseteq Leases
  BY DEF TypeOK
<1>10. reported \subseteq Vmids
  BY DEF TypeOK
<1>11. overtaken \subseteq Leases
  BY DEF TypeOK
<1>12. crashes \in 0 .. MaxCrashes
  BY DEF TypeOK
<1>13. CopyInv OBVIOUS
<1>14. Aims OBVIOUS
<1>15. CASE UNCHANGED vars
  BY <1>15 DEF vars, TypeOK
<1>16. ASSUME NEW l \in Leases, Provision(l)
      PROVE  TypeOK'
  <2>1. lease' \in [Leases -> Rows]
    BY <1>16, <1>1, RowEdits, RowStates, RowFields DEF Provision, Move, rows
  <2>2. record' \in [Leases -> Records]
    BY <1>16, <1>2, RecordEdits, RecordNames, RecordFields DEF Provision, Move, rows
  <2>3. saga' \in [Leases -> Sagas]
    BY <1>16, <1>5, CopyTypes DEF Provision, Move, rows, Sagas, SagaPcs
  <2>4. UNCHANGED << guest, task, cleaner, call, sweep, lapsed, reported, overtaken,
                     crashes>>
    BY <1>16 DEF Provision, Move, rows
  <2> QED
    BY <2>1, <2>2, <2>3, <2>4, <1>1, <1>2, <1>3, <1>4, <1>5, <1>6, <1>7, <1>8, <1>9,
       <1>10, <1>11, <1>12 DEF TypeOK
<1>17. ASSUME NEW l \in Leases, QueueProvision(l)
      PROVE  TypeOK'
  <2>1. saga' \in [Leases -> Sagas]
    BY <1>17, <1>5 DEF QueueProvision, rows, Sagas, SagaPcs
  <2>2. UNCHANGED << lease, record, guest, task, cleaner, call, sweep, lapsed,
                     reported, overtaken, crashes>>
    BY <1>17 DEF QueueProvision, rows
  <2> QED
    BY <2>1, <2>2, <1>1, <1>2, <1>3, <1>4, <1>5, <1>6, <1>7, <1>8, <1>9, <1>10,
       <1>11, <1>12 DEF TypeOK
<1>18. ASSUME NEW l \in Leases, Begin(l)
      PROVE  TypeOK'
  <2>1. saga' \in [Leases -> Sagas]
    BY <1>18, <1>5, <1>1, SagaMoves, CopyTypes DEF Begin, OnlySaga, rows, SagaPcs,
           Sagas
  <2>2. UNCHANGED << lease, record, guest, task, cleaner, call, sweep, lapsed,
                     reported, overtaken, crashes>>
    BY <1>18 DEF Begin, At, OnlySaga, rows
  <2> QED
    BY <2>1, <2>2, <1>1, <1>2, <1>3, <1>4, <1>5, <1>6, <1>7, <1>8, <1>9, <1>10,
       <1>11, <1>12 DEF TypeOK
<1>19. ASSUME NEW l \in Leases, Reserve(l)
      PROVE  TypeOK'
  <2>1. saga' \in [Leases -> Sagas]
    BY <1>19, <1>5, <1>1, SagaMoves DEF Reserve, SagaAndRecord, rows, SagaPcs
  <2>2. record' \in [Leases -> Records]
    <3>1. \/ record' = record
          \/ saga[l].pc = "reserve" /\ record' = [record EXCEPT ![l].vmid = saga[l].vmid]
      BY <1>19 DEF Reserve, At
    <3>2. CASE saga[l].pc = "reserve" /\ record' = [record EXCEPT ![l].vmid = saga[l].vmid]
      <4>1. saga[l].vmid \in Vmids
        BY <3>2, <1>14 DEF Aims
      <4>2. [record[l] EXCEPT !.vmid = saga[l].vmid] \in Records
        BY <4>1, <1>2 DEF Records
      <4> QED
        BY <3>2, <4>2, <1>2
    <3> QED
      BY <3>1, <3>2, <1>2
  <2>3. UNCHANGED << lease, guest, task, cleaner, call, sweep, lapsed, reported,
                     overtaken, crashes>>
    BY <1>19 DEF Reserve, At, SagaAndRecord, rows
  <2> QED
    BY <2>1, <2>2, <2>3, <1>1, <1>2, <1>3, <1>4, <1>5, <1>6, <1>7, <1>8, <1>9,
       <1>10, <1>11, <1>12 DEF TypeOK
<1>20. ASSUME NEW l \in Leases, CloneCall(l)
      PROVE  TypeOK'
  <2>1. saga' \in [Leases -> Sagas]
    BY <1>20, <1>5, <1>1, SagaMoves DEF CloneCall, rows, SagaPcs
  <2>2. task' \in [Leases -> Vmids \cup {Nothing}]
    BY <1>20, <1>5, <1>4 DEF CloneCall, rows, Sagas
  <2>3. UNCHANGED << lease, record, guest, cleaner, call, sweep, lapsed, reported,
                     overtaken, crashes>>
    BY <1>20 DEF CloneCall, At, rows
  <2> QED
    BY <2>1, <2>2, <2>3, <1>1, <1>2, <1>3, <1>4, <1>5, <1>6, <1>7, <1>8, <1>9,
       <1>10, <1>11, <1>12 DEF TypeOK
<1>21. ASSUME NEW l \in Leases, Mark(l)
      PROVE  TypeOK'
  <2>1. saga' \in [Leases -> Sagas]
    BY <1>21, <1>5, <1>1, SagaMoves DEF Mark, SagaAndRecord, rows, SagaPcs
  <2>2. record' \in [Leases -> Records]
    BY <1>21, <1>2, RecordEdits, RecordNames, RecordFields, ZenonT(30) DEF Mark, SagaAndRecord,
           rows
  <2>3. UNCHANGED << lease, guest, task, cleaner, call, sweep, lapsed, reported,
                     overtaken, crashes>>
    BY <1>21 DEF Mark, At, SagaAndRecord, rows
  <2> QED
    BY <2>1, <2>2, <2>3, <1>1, <1>2, <1>3, <1>4, <1>5, <1>6, <1>7, <1>8, <1>9,
       <1>10, <1>11, <1>12 DEF TypeOK
<1>22. ASSUME NEW l \in Leases, BootRecord(l)
      PROVE  TypeOK'
  <2>1. saga' \in [Leases -> Sagas]
    BY <1>22, <1>5, <1>1, SagaMoves DEF BootRecord, Boot, SagaAndRecord, rows,
           SagaPcs
  <2>2. record' \in [Leases -> Records]
    <3>1. [record[l] EXCEPT !.state = "booting"] \in Records
      BY <1>2, RecordNames, RecordFields DEF Records
    <3>2. record' \in {record, [record EXCEPT ![l] = [record[l] EXCEPT !.state = "booting"]]}
      BY <1>2, <1>22 DEF BootRecord, Boot
    <3> QED
      BY <3>1, <3>2, <1>2
  <2>3. UNCHANGED << lease, guest, task, cleaner, call, sweep, lapsed, reported,
                     overtaken, crashes>>
    BY <1>22 DEF BootRecord, Boot, Reading, At, SagaAndRecord, rows
  <2> QED
    BY <2>1, <2>2, <2>3, <1>1, <1>2, <1>3, <1>4, <1>5, <1>6, <1>7, <1>8, <1>9,
       <1>10, <1>11, <1>12 DEF TypeOK
<1>23. ASSUME NEW l \in Leases, BootLease(l)
      PROVE  TypeOK'
  <2>1. saga' \in [Leases -> Sagas]
    BY <1>23, <1>5, <1>1, SagaMoves DEF BootLease, Update, SagaAndLease, SagaPcs
  <2>2. lease' \in [Leases -> Rows]
    BY <1>23, <1>1, RowEdits, RowStates, RowFields, <1>13 DEF BootLease, At, Update,
           SagaAndLease, CopyInv, SagaCopies, SagaHolds
  <2>3. overtaken' \subseteq Leases
    BY <1>23, <1>11, <1>1 DEF BootLease, Update, SagaAndLease
  <2>4. UNCHANGED << record, guest, task, cleaner, call, sweep, lapsed, reported,
                     crashes>>
    BY <1>23 DEF BootLease, At, Update, SagaAndLease
  <2> QED
    BY <2>1, <2>2, <2>3, <2>4, <1>1, <1>2, <1>3, <1>4, <1>5, <1>6, <1>7, <1>8, <1>9,
       <1>10, <1>11, <1>12 DEF TypeOK
<1>24. ASSUME NEW l \in Leases, Wait(l)
      PROVE  TypeOK'
  <2>1. saga' \in [Leases -> Sagas]
    BY <1>24, <1>5, <1>1, SagaMoves DEF Wait, Written, SagaAndRecord, rows, SagaPcs
  <2>2. record' \in [Leases -> Records]
    <3>1. [record[l] EXCEPT !.state = record[l].state] \in Records
      BY <1>2, RecordNames, RecordFields DEF Records
    <3>2. record' \in {record, [record EXCEPT ![l] = [record[l] EXCEPT !.state = record[l].state]]}
      BY <1>2, <1>24 DEF Wait, Written
    <3> QED
      BY <3>1, <3>2, <1>2
  <2>3. UNCHANGED << lease, guest, task, cleaner, call, sweep, lapsed, reported,
                     overtaken, crashes>>
    BY <1>24 DEF Wait, Written, At, SagaAndRecord, rows
  <2> QED
    BY <2>1, <2>2, <2>3, <1>1, <1>2, <1>3, <1>4, <1>5, <1>6, <1>7, <1>8, <1>9,
       <1>10, <1>11, <1>12 DEF TypeOK
<1>25. ASSUME NEW l \in Leases, StrapRead(l)
      PROVE  TypeOK'
  <2>1. saga' \in [Leases -> Sagas]
    BY <1>25, <1>5, <1>1, SagaMoves DEF StrapRead, OnlySaga, rows, SagaPcs
  <2>2. UNCHANGED << lease, record, guest, task, cleaner, call, sweep, lapsed,
                     reported, overtaken, crashes>>
    BY <1>25 DEF StrapRead, Reading, OnlySaga, rows
  <2> QED
    BY <2>1, <2>2, <1>1, <1>2, <1>3, <1>4, <1>5, <1>6, <1>7, <1>8, <1>9, <1>10,
       <1>11, <1>12 DEF TypeOK
<1>26. ASSUME NEW l \in Leases, StrapWrite(l)
      PROVE  TypeOK'
  <2>1. saga' \in [Leases -> Sagas]
    BY <1>26, <1>5, <1>1, SagaMoves DEF StrapWrite, Update, SagaAndLease, SagaPcs
  <2>2. lease' \in [Leases -> Rows]
    BY <1>26, <1>1, RowEdits, RowStates, RowFields, <1>13 DEF StrapWrite, At,
           Update, SagaAndLease, CopyInv, SagaCopies, SagaHolds
  <2>3. overtaken' \subseteq Leases
    BY <1>26, <1>11, <1>1 DEF StrapWrite, Update, SagaAndLease
  <2>4. UNCHANGED << record, guest, task, cleaner, call, sweep, lapsed, reported,
                     crashes>>
    BY <1>26 DEF StrapWrite, At, Update, SagaAndLease
  <2> QED
    BY <2>1, <2>2, <2>3, <2>4, <1>1, <1>2, <1>3, <1>4, <1>5, <1>6, <1>7, <1>8, <1>9,
       <1>10, <1>11, <1>12 DEF TypeOK
<1>27. ASSUME NEW l \in Leases, Strap(l)
      PROVE  TypeOK'
  <2>1. saga' \in [Leases -> Sagas]
    BY <1>27, <1>5, <1>1, SagaMoves DEF Strap, Written, SagaAndRecord, rows, SagaPcs
  <2>2. record' \in [Leases -> Records]
    <3>1. [record[l] EXCEPT !.state = "bootstrapping"] \in Records
      BY <1>2, RecordNames, RecordFields DEF Records
    <3>2. record' \in {record, [record EXCEPT ![l] = [record[l] EXCEPT !.state = "bootstrapping"]]}
      BY <1>2, <1>27 DEF Strap, Written
    <3> QED
      BY <3>1, <3>2, <1>2
  <2>3. UNCHANGED << lease, guest, task, cleaner, call, sweep, lapsed, reported,
                     overtaken, crashes>>
    BY <1>27 DEF Strap, Written, At, SagaAndRecord, rows
  <2> QED
    BY <2>1, <2>2, <2>3, <1>1, <1>2, <1>3, <1>4, <1>5, <1>6, <1>7, <1>8, <1>9,
       <1>10, <1>11, <1>12 DEF TypeOK
<1>28. ASSUME NEW l \in Leases, Ready(l)
      PROVE  TypeOK'
  <2>1. saga' \in [Leases -> Sagas]
    BY <1>28, <1>5, <1>1, SagaMoves DEF Ready, Move, rows, SagaPcs
  <2>2. record' \in [Leases -> Records]
    <3>1. [record[l] EXCEPT !.state = "ready"] \in Records
      BY <1>2, RecordNames, RecordFields DEF Records
    <3>2. record' \in {record, [record EXCEPT ![l] = [record[l] EXCEPT !.state = "ready"]]}
      BY <1>2, <1>28 DEF Ready
    <3> QED
      BY <3>1, <3>2, <1>2
  <2>3. lease' \in [Leases -> Rows]
    <3>1. [lease[l] EXCEPT !.state = "ready", !.expires = 1] \in Rows
      BY <1>1, RowEdits, RowStates
    <3> QED
      BY <3>1, <1>1, <1>28 DEF Ready, Move, rows
  <2>4. UNCHANGED << guest, task, cleaner, call, sweep, lapsed, reported, overtaken,
                     crashes>>
    BY <1>28 DEF Ready, At, Move, rows
  <2> QED
    BY <2>1, <2>2, <2>3, <2>4, <1>1, <1>2, <1>3, <1>4, <1>5, <1>6, <1>7, <1>8, <1>9,
       <1>10, <1>11, <1>12 DEF TypeOK
<1>29. ASSUME NEW l \in Leases, SagaErrs(l)
      PROVE  TypeOK'
  <2>1. saga' \in [Leases -> Sagas]
    BY <1>29, <1>5, <1>1, SagaMoves DEF SagaErrs, OnlySaga, rows, SagaPcs
  <2>2. UNCHANGED << lease, record, guest, task, cleaner, call, sweep, lapsed,
                     reported, overtaken, crashes>>
    BY <1>29 DEF SagaErrs, At, OnlySaga, rows
  <2> QED
    BY <2>1, <2>2, <1>1, <1>2, <1>3, <1>4, <1>5, <1>6, <1>7, <1>8, <1>9, <1>10,
       <1>11, <1>12 DEF TypeOK
<1>30. ASSUME NEW l \in Leases, FailRecord(l)
      PROVE  TypeOK'
  <2>1. saga' \in [Leases -> Sagas]
    BY <1>30, <1>5, <1>1, SagaMoves DEF FailRecord, SagaAndRecord, rows, SagaPcs
  <2>2. record' \in [Leases -> Records]
    <3>1. PICK c \in {record[l].state = "provisioning", record[l].cloneFailed} :
              record' = [record EXCEPT ![l].state = "never_ready", ![l].cloneFailed = c]
      BY <1>30 DEF FailRecord
    <3>2. c \in BOOLEAN
      BY <1>2, RecordFields
    <3>3. [record[l] EXCEPT !.state = "never_ready", !.cloneFailed = c] \in Records
      BY <3>2, <1>2, RecordNames DEF Records
    <3>4. record' = [record EXCEPT ![l] =
                       [record[l] EXCEPT !.state = "never_ready", !.cloneFailed = c]]
      BY <3>1, <1>2
    <3> QED
      BY <3>3, <3>4, <1>2
  <2>3. UNCHANGED << lease, guest, task, cleaner, call, sweep, lapsed, reported,
                     overtaken, crashes>>
    BY <1>30 DEF FailRecord, Reading, At, SagaAndRecord, rows
  <2> QED
    BY <2>1, <2>2, <2>3, <1>1, <1>2, <1>3, <1>4, <1>5, <1>6, <1>7, <1>8, <1>9,
       <1>10, <1>11, <1>12 DEF TypeOK
<1>31. ASSUME NEW l \in Leases, FailWrite(l)
      PROVE  TypeOK'
  <2>1. saga' \in [Leases -> Sagas]
    BY <1>31, <1>5, <1>1, SagaMoves DEF FailWrite, Update, SagaAndLease, SagaPcs
  <2>2. lease' \in [Leases -> Rows]
    BY <1>31, <1>1, RowEdits, RowStates, RowFields, <1>13 DEF FailWrite, At, Update,
           SagaAndLease, CopyInv, SagaCopies, SagaHolds
  <2>3. overtaken' \subseteq Leases
    BY <1>31, <1>11, <1>1 DEF FailWrite, Update, SagaAndLease
  <2>4. UNCHANGED << record, guest, task, cleaner, call, sweep, lapsed, reported,
                     crashes>>
    BY <1>31 DEF FailWrite, At, Update, SagaAndLease
  <2> QED
    BY <2>1, <2>2, <2>3, <2>4, <1>1, <1>2, <1>3, <1>4, <1>5, <1>6, <1>7, <1>8, <1>9,
       <1>10, <1>11, <1>12 DEF TypeOK
<1>32. ASSUME NEW l \in Leases, CompensateRead(l)
      PROVE  TypeOK'
  <2>1. saga' \in [Leases -> Sagas]
    BY <1>32, <1>5, <1>1, SagaMoves DEF CompensateRead, OnlySaga, rows, SagaPcs
  <2>2. UNCHANGED << lease, record, guest, task, cleaner, call, sweep, lapsed,
                     reported, overtaken, crashes>>
    BY <1>32 DEF CompensateRead, Reading, At, OnlySaga, rows
  <2> QED
    BY <2>1, <2>2, <1>1, <1>2, <1>3, <1>4, <1>5, <1>6, <1>7, <1>8, <1>9, <1>10,
       <1>11, <1>12 DEF TypeOK
<1>33. ASSUME NEW l \in Leases, CompensateWrite(l)
      PROVE  TypeOK'
  <2> DEFINE copy == saga[l].row
             to == Compensation(copy.state, Allocated(copy, record[l].vmid))
             row == [copy EXCEPT !.state = to]
  <2>1. copy \in Rows /\ to # "stay" /\ saga[l].pc = "compwrite"
    BY <1>33, <1>13 DEF CompensateWrite, CopyInv, SagaCopies, SagaHolds
  <2>2. Allocated(copy, record[l].vmid) \in BOOLEAN
    BY <2>1, RowFields DEF Allocated
  <2>3. to \in LeaseStates
    BY <2>1, <2>2, CompensationTo, RowStates
  <2>4. row \in Rows
    BY <2>1, <2>3, RowEdits
  <2>5. /\ lease' = [lease EXCEPT ![l] = row]
        /\ overtaken' \in {overtaken, overtaken \cup {l}}
        /\ \E pc \in {"compqueue", "done"}, r \in {row, Nothing} :
               saga' = [saga EXCEPT ![l].pc = pc, ![l].row = r]
    BY <1>33 DEF CompensateWrite, Update
  <2> HIDE DEF copy, to, row
  <2>6. lease' \in [Leases -> Rows] /\ overtaken' \subseteq Leases
    BY <2>4, <2>5, <1>1, <1>11
  <2>7. saga' \in [Leases -> Sagas]
    <3>1. PICK pc \in {"compqueue", "done"}, r \in {row, Nothing} :
              saga' = [saga EXCEPT ![l].pc = pc, ![l].row = r]
      BY <2>5
    <3>2. [saga[l] EXCEPT !.pc = pc, !.row = r] \in Sagas
      BY <2>4, <1>5, CopyTypes DEF Sagas, SagaPcs
    <3>3. saga' = [saga EXCEPT ![l] = [saga[l] EXCEPT !.pc = pc, !.row = r]]
      BY <3>1, <1>5
    <3> QED
      BY <3>2, <3>3, <1>5
  <2>8. UNCHANGED <<record, guest, task, cleaner, call, sweep, lapsed, reported,
                    crashes>>
    BY <1>33 DEF CompensateWrite, SagaAndLease
  <2> QED
    BY <2>6, <2>7, <2>8, <1>1, <1>2, <1>3, <1>4, <1>5, <1>6, <1>7, <1>8, <1>9, <1>10,
       <1>11, <1>12 DEF TypeOK
<1>34. ASSUME NEW l \in Leases, CompensateQueue(l)
      PROVE  TypeOK'
  <2>1. saga' \in [Leases -> Sagas]
    BY <1>34, <1>5, <1>1, SagaMoves DEF CompensateQueue, rows, SagaPcs
  <2>2. cleaner' \in [Leases -> [Attempts -> Cleaners]]
    BY <1>34, <1>6, QueueMoves, RowFields, <1>13 DEF CompensateQueue, At, rows,
           CopyInv, SagaCopies, SagaHolds
  <2>3. UNCHANGED << lease, record, guest, task, call, sweep, lapsed, reported,
                     overtaken, crashes>>
    BY <1>34 DEF CompensateQueue, At, Queue, rows
  <2> QED
    BY <2>1, <2>2, <2>3, <1>1, <1>2, <1>3, <1>4, <1>5, <1>6, <1>7, <1>8, <1>9,
       <1>10, <1>11, <1>12 DEF TypeOK
<1>35. ASSUME NEW l \in Leases, CloneLands(l)
      PROVE  TypeOK'
  <2>1. guest' \in [Vmids -> Leases \cup {Nothing, Stranger}]
    BY <1>35, <1>3, <1>4 DEF CloneLands, rows
  <2>2. task' \in [Leases -> Vmids \cup {Nothing}]
    BY <1>35, <1>4 DEF CloneLands, rows
  <2>3. UNCHANGED << lease, record, saga, cleaner, call, sweep, lapsed, reported,
                     overtaken, crashes>>
    BY <1>35 DEF CloneLands, rows
  <2> QED
    BY <2>1, <2>2, <2>3, <1>1, <1>2, <1>3, <1>4, <1>5, <1>6, <1>7, <1>8, <1>9,
       <1>10, <1>11, <1>12 DEF TypeOK
<1>36. ASSUME NEW l \in Leases, CloneFails(l)
      PROVE  TypeOK'
  <2>1. task' \in [Leases -> Vmids \cup {Nothing}]
    BY <1>36, <1>4 DEF CloneFails, rows
  <2>2. UNCHANGED << lease, record, guest, saga, cleaner, call, sweep, lapsed,
                     reported, overtaken, crashes>>
    BY <1>36 DEF CloneFails, rows
  <2> QED
    BY <2>1, <2>2, <1>1, <1>2, <1>3, <1>4, <1>5, <1>6, <1>7, <1>8, <1>9, <1>10,
       <1>11, <1>12 DEF TypeOK
<1>37. ASSUME NEW l \in Leases, NEW a \in Attempts, CleanStart(l, a)
      PROVE  TypeOK'
  <2>1. cleaner' \in [Leases -> [Attempts -> Cleaners]]
    <3>1. \A pc \in {"release", "identify"}, sure \in BOOLEAN :
              [pc |-> pc, row |-> lease[l], sure |-> sure] \in Cleaners
      BY <1>1, CopyTypes DEF Cleaners, CleanerPcs
    <3>2. (record[l].upid /\ ~record[l].cloneFailed) \in BOOLEAN
      OBVIOUS
    <3>3. CASE \E next \in {"done", "not_pooled"} : Clean(l, a, "queued", next)
      BY <3>3, <1>6, CleanMoves DEF CleanerPcs
    <3>4. CASE \E pc \in {"release", "identify"} : cleaner' = [cleaner EXCEPT ![l][a] =
                  [pc |-> pc, row |-> lease[l],
                   sure |-> record[l].upid /\ ~record[l].cloneFailed]]
      <4>1. PICK pc \in {"release", "identify"} : cleaner' = [cleaner EXCEPT ![l][a] =
                  [pc |-> pc, row |-> lease[l],
                   sure |-> record[l].upid /\ ~record[l].cloneFailed]]
        BY <3>4
      <4> DEFINE d == [pc |-> pc, row |-> lease[l],
                       sure |-> record[l].upid /\ ~record[l].cloneFailed]
      <4>2. d \in Cleaners
        BY <3>1, <3>2
      <4>3. cleaner' = [cleaner EXCEPT ![l] = [cleaner[l] EXCEPT ![a] = d]]
        BY <4>1
      <4> HIDE DEF d
      <4> QED
        BY <4>2, <4>3, <1>6
    <3> QED
      BY <3>3, <3>4, <1>37 DEF CleanStart
  <2>2. UNCHANGED << lease, record, guest, task, saga, call, sweep, lapsed,
                     reported, overtaken, crashes>>
    BY <1>37 DEF CleanStart, Clean, OnlyCleaner, rows
  <2> QED
    BY <2>1, <2>2, <1>1, <1>2, <1>3, <1>4, <1>5, <1>6, <1>7, <1>8, <1>9, <1>10,
       <1>11, <1>12 DEF TypeOK
<1>38. ASSUME NEW l \in Leases, NEW a \in Attempts, CleanIdentify(l, a)
      PROVE  TypeOK'
  <2>1. cleaner' \in [Leases -> [Attempts -> Cleaners]]
    BY <1>38, <1>6, CleanMoves DEF CleanIdentify, OnlyCleaner, rows, CleanerPcs
  <2>2. UNCHANGED << lease, record, guest, task, saga, call, sweep, lapsed,
                     reported, overtaken, crashes>>
    BY <1>38 DEF CleanIdentify, Clean, OnlyCleaner, rows
  <2> QED
    BY <2>1, <2>2, <1>1, <1>2, <1>3, <1>4, <1>5, <1>6, <1>7, <1>8, <1>9, <1>10,
       <1>11, <1>12 DEF TypeOK
<1>39. ASSUME NEW l \in Leases, NEW a \in Attempts, CleanDelete(l, a)
      PROVE  TypeOK'
  <2>1. cleaner' \in [Leases -> [Attempts -> Cleaners]]
    BY <1>39, <1>6, CleanMoves DEF CleanDelete, rows, CleanerPcs
  <2>2. guest' \in [Vmids -> Leases \cup {Nothing, Stranger}]
    BY <1>39, <1>3, <1>2 DEF CleanDelete, rows
  <2>3. UNCHANGED << lease, record, task, saga, call, sweep, lapsed, reported,
                     overtaken, crashes>>
    BY <1>39 DEF CleanDelete, Clean, rows
  <2> QED
    BY <2>1, <2>2, <2>3, <1>1, <1>2, <1>3, <1>4, <1>5, <1>6, <1>7, <1>8, <1>9,
       <1>10, <1>11, <1>12 DEF TypeOK
<1>40. ASSUME NEW l \in Leases, NEW a \in Attempts, CleanErrs(l, a)
      PROVE  TypeOK'
  <2>1. cleaner' \in [Leases -> [Attempts -> Cleaners]]
    BY <1>40, <1>6, CleanMoves DEF CleanErrs, OnlyCleaner, rows, CleanerPcs
  <2>2. UNCHANGED << lease, record, guest, task, saga, call, sweep, lapsed,
                     reported, overtaken, crashes>>
    BY <1>40 DEF CleanErrs, Clean, OnlyCleaner, rows
  <2> QED
    BY <2>1, <2>2, <1>1, <1>2, <1>3, <1>4, <1>5, <1>6, <1>7, <1>8, <1>9, <1>10,
       <1>11, <1>12 DEF TypeOK
<1>41. ASSUME NEW l \in Leases, NEW a \in Attempts, CleanRelease(l, a)
      PROVE  TypeOK'
  <2>1. cleaner' \in [Leases -> [Attempts -> Cleaners]]
    BY <1>41, <1>6, CleanMoves DEF CleanRelease, Update, CleanerAndLease, CleanerPcs
  <2>2. lease' \in [Leases -> Rows]
    BY <1>41, <1>1, RowEdits, RowStates, RowFields, <1>13 DEF CleanRelease, Clean,
           Update, CleanerAndLease, CopyInv, CleanerCopies, CleanerHolds
  <2>3. overtaken' \subseteq Leases
    BY <1>41, <1>11, <1>1 DEF CleanRelease, Update, CleanerAndLease
  <2>4. UNCHANGED << record, guest, task, saga, call, sweep, lapsed, reported,
                     crashes>>
    BY <1>41 DEF CleanRelease, Clean, Update, CleanerAndLease
  <2> QED
    BY <2>1, <2>2, <2>3, <2>4, <1>1, <1>2, <1>3, <1>4, <1>5, <1>6, <1>7, <1>8, <1>9,
       <1>10, <1>11, <1>12 DEF TypeOK
<1>42. ASSUME NEW l \in Leases, NEW a \in Attempts, CleanFail(l, a)
      PROVE  TypeOK'
  <2>1. cleaner' \in [Leases -> [Attempts -> Cleaners]]
    BY <1>42, <1>6, CleanMoves DEF CleanFail, Update, CleanerAndLease, CleanerPcs
  <2>2. lease' \in [Leases -> Rows]
    BY <1>42, <1>1, RowEdits, RowStates, RowFields, <1>13, FailedRow DEF CleanFail,
           Clean, Update, CleanerAndLease, CopyInv, CleanerCopies, CleanerHolds
  <2>3. overtaken' \subseteq Leases
    BY <1>42, <1>11, <1>1 DEF CleanFail, Update, CleanerAndLease
  <2>4. UNCHANGED << record, guest, task, saga, call, sweep, lapsed, reported,
                     crashes>>
    BY <1>42 DEF CleanFail, Clean, Update, CleanerAndLease
  <2> QED
    BY <2>1, <2>2, <2>3, <2>4, <1>1, <1>2, <1>3, <1>4, <1>5, <1>6, <1>7, <1>8, <1>9,
       <1>10, <1>11, <1>12 DEF TypeOK
<1>43. ASSUME NEW c \in Callers, NEW l \in Leases, AskRelease(c, l)
      PROVE  TypeOK'
  <2>1. call' \in [Callers -> Calls]
    <3>1. \E kind \in {"release", "keep"} :
              call' = [call EXCEPT ![c] = [pc |-> kind, lease |-> l, row |-> lease[l]]]
      BY <1>43 DEF AskRelease, Asked
    <3>2. \A kind \in {"release", "keep"} :
              [pc |-> kind, lease |-> l, row |-> lease[l]] \in Calls
      BY <1>1, CopyTypes DEF Calls, CallPcs
    <3> QED
      BY <3>1, <3>2, <1>7
  <2>2. UNCHANGED << lease, record, guest, task, saga, cleaner, sweep, lapsed,
                     reported, overtaken, crashes>>
    BY <1>43 DEF AskRelease, Asked, rows
  <2> QED
    BY <2>1, <2>2, <1>1, <1>2, <1>3, <1>4, <1>5, <1>6, <1>7, <1>8, <1>9, <1>10,
       <1>11, <1>12 DEF TypeOK
<1>44. ASSUME NEW c \in Callers, NEW l \in Leases, AskRetry(c, l)
      PROVE  TypeOK'
  <2>1. call' \in [Callers -> Calls]
    BY <1>44, <1>7, <1>1, CallMoves DEF AskRetry, Asked, rows
  <2>2. UNCHANGED << lease, record, guest, task, saga, cleaner, sweep, lapsed,
                     reported, overtaken, crashes>>
    BY <1>44 DEF AskRetry, Asked, rows
  <2> QED
    BY <2>1, <2>2, <1>1, <1>2, <1>3, <1>4, <1>5, <1>6, <1>7, <1>8, <1>9, <1>10,
       <1>11, <1>12 DEF TypeOK
<1>45. ASSUME NEW c \in Callers, NEW l \in Leases, AskExtend(c, l)
      PROVE  TypeOK'
  <2>1. call' \in [Callers -> Calls]
    BY <1>45, <1>7, <1>1, CallMoves DEF AskExtend, Asked, rows
  <2>2. UNCHANGED << lease, record, guest, task, saga, cleaner, sweep, lapsed,
                     reported, overtaken, crashes>>
    BY <1>45 DEF AskExtend, Asked, rows
  <2> QED
    BY <2>1, <2>2, <1>1, <1>2, <1>3, <1>4, <1>5, <1>6, <1>7, <1>8, <1>9, <1>10,
       <1>11, <1>12 DEF TypeOK
<1>46. ASSUME NEW c \in Callers, ReleaseWrite(c)
      PROVE  TypeOK'
  <2> DEFINE l == call[c].lease
             how == IF call[c].pc = "keep" THEN "keep" ELSE call[c].row.cleanup
             row == [call[c].row EXCEPT !.state = "releasing", !.cleanup = how]
  <2>1. l \in Leases /\ call[c].row \in Rows
    BY <1>46, <1>13 DEF ReleaseWrite, CopyInv, CallCopies, CallHolds
  <2>2. row \in Rows
    BY <2>1, RowEdits, RowStates, RowFields
  <2>3. /\ lease' = [lease EXCEPT ![l] = row]
        /\ overtaken' \in {overtaken, overtaken \cup {l}}
        /\ call' = [call EXCEPT ![c].pc = "queue", ![c].row = row]
        /\ lapsed' = lapsed \ {l}
    BY <1>46 DEF ReleaseWrite, Update
  <2> HIDE DEF l, how, row
  <2>4. lease' \in [Leases -> Rows] /\ overtaken' \subseteq Leases
        /\ call' \in [Callers -> Calls] /\ lapsed' \subseteq Leases
    BY <2>1, <2>2, <2>3, CallMoves, <1>1, <1>11, <1>7, <1>9
  <2>5. UNCHANGED <<record, guest, task, saga, cleaner, sweep, reported, crashes>>
    BY <1>46 DEF ReleaseWrite, CallAndLease
  <2> QED
    BY <2>4, <2>5, <1>1, <1>2, <1>3, <1>4, <1>5, <1>6, <1>7, <1>8, <1>9, <1>10,
       <1>11, <1>12 DEF TypeOK
<1>47. ASSUME NEW c \in Callers, RetryWrite(c)
      PROVE  TypeOK'
  <2> DEFINE l == call[c].lease
             row == [call[c].row EXCEPT !.state = "releasing"]
  <2>1. l \in Leases /\ call[c].row \in Rows
    BY <1>47, <1>13 DEF RetryWrite, CopyInv, CallCopies, CallHolds
  <2>2. row \in Rows /\ row.attempts \in Attempts
    BY <2>1, RowEdits, RowStates, RowFields
  <2>3. [lease[l] EXCEPT !.state = "releasing", !.attempts = row.attempts] \in Rows
    BY <2>1, <2>2, <1>1, RowEdits, RowStates
  <2>4. /\ lease' \in {lease, [lease EXCEPT ![l] = [lease[l] EXCEPT
                            !.state = "releasing", !.attempts = row.attempts]]}
        /\ call' \in {[call EXCEPT ![c] = Answered(c)],
                      [call EXCEPT ![c].pc = "queue", ![c].row = row]}
    BY <1>47 DEF RetryWrite, Move, rows
  <2> HIDE DEF l, row
  <2>5. lease' \in [Leases -> Rows]
    BY <2>3, <2>4, <1>1
  <2>7. [call[c] EXCEPT !.pc = "queue", !.row = row] \in Calls /\ Answered(c) \in Calls
    BY <2>2, <1>7, CopyTypes DEF Calls, CallPcs, Answered
  <2>8. call' \in {[call EXCEPT ![c] = Answered(c)],
                   [call EXCEPT ![c] = [call[c] EXCEPT !.pc = "queue", !.row = row]]}
    BY <2>4, <1>7
  <2>9. call' \in [Callers -> Calls]
    BY <2>7, <2>8, <1>7
  <2>6. UNCHANGED <<record, guest, task, saga, cleaner, sweep, lapsed, reported,
                    crashes,
                    overtaken>>
    BY <1>47 DEF RetryWrite, CallAndLease, Move, rows
  <2> QED
    BY <2>5, <2>6, <2>9, <1>1, <1>2, <1>3, <1>4, <1>5, <1>6, <1>7, <1>8, <1>9, <1>10,
       <1>11, <1>12 DEF TypeOK
<1>48. ASSUME NEW c \in Callers, ExtendWrite(c)
      PROVE  TypeOK'
  <2> DEFINE l == call[c].lease
             row == [lease[l] EXCEPT !.expires = @ + 1]
  <2>1. l \in Leases /\ call[c].row.expires <= MaxExtensions /\ call[c].row \in Rows
    BY <1>48, <1>13 DEF ExtendWrite, CopyInv, CallCopies, CallHolds
  <2>2. lease[l].expires <= MaxExtensions => row \in Rows
    BY <2>1, <1>1, RowEdits, RowStates
  <2>3. /\ \/ lease' = lease
           \/ lease' = [lease EXCEPT ![l] = row] /\ lease[l].expires = call[c].row.expires
        /\ call' = [call EXCEPT ![c] = Answered(c)]
        /\ lapsed' \in {lapsed, lapsed \ {l}}
    BY <1>48 DEF ExtendWrite, Move, rows
  <2> HIDE DEF l, row
  <2>4. lease' \in [Leases -> Rows] /\ call' \in [Callers -> Calls] /\ lapsed' \subseteq Leases
    <3>1. lease' \in [Leases -> Rows]
      BY <2>1, <2>2, <2>3, <1>1
    <3>2. call' \in [Callers -> Calls]
      BY <2>1, <2>3, CallMoves, <1>7
    <3>3. lapsed' \subseteq Leases
      BY <2>3, <1>9
    <3> QED BY <3>1, <3>2, <3>3
  <2>5. UNCHANGED <<record, guest, task, saga, cleaner, sweep, reported, crashes,
                    overtaken>>
    BY <1>48 DEF ExtendWrite, CallAndLease, Move, rows
  <2> QED
    BY <2>4, <2>5, <1>1, <1>2, <1>3, <1>4, <1>5, <1>6, <1>7, <1>8, <1>9, <1>10,
       <1>11, <1>12 DEF TypeOK
<1>49. ASSUME NEW c \in Callers, CallQueue(c)
      PROVE  TypeOK'
  <2>1. call' \in [Callers -> Calls]
    BY <1>49, <1>7, CallMoves, <1>13 DEF CallQueue, rows, CopyInv, CallCopies,
           CallHolds
  <2>2. cleaner' \in [Leases -> [Attempts -> Cleaners]]
    BY <1>49, <1>6, QueueMoves, RowFields, <1>13 DEF CallQueue, rows, CopyInv,
           CallCopies, CallHolds
  <2>3. UNCHANGED << lease, record, guest, task, saga, sweep, lapsed, reported,
                     overtaken, crashes>>
    BY <1>49 DEF CallQueue, Queue, rows
  <2> QED
    BY <2>1, <2>2, <2>3, <1>1, <1>2, <1>3, <1>4, <1>5, <1>6, <1>7, <1>8, <1>9,
       <1>10, <1>11, <1>12 DEF TypeOK
<1>50. ASSUME NEW l \in Leases, ExpiryScan(l)
      PROVE  TypeOK'
  <2>1. sweep' \in Sweeps
    BY <1>50, <1>8, <1>1, SweepMoves, CopyTypes DEF ExpiryScan, OnlySweep, rows,
           SweepPcs
  <2>2. UNCHANGED << lease, record, guest, task, saga, cleaner, call, lapsed,
                     reported, overtaken, crashes>>
    BY <1>50 DEF ExpiryScan, Scan, OnlySweep, rows
  <2> QED
    BY <2>1, <2>2, <1>1, <1>2, <1>3, <1>4, <1>5, <1>6, <1>7, <1>8, <1>9, <1>10,
       <1>11, <1>12 DEF TypeOK
<1>51. ASSUME NEW l \in Leases, ExpiryClaim(l)
      PROVE  TypeOK'
  <2>1. sweep' \in Sweeps
    BY <1>51, <1>8, SweepMoves, CopyTypes DEF ExpiryClaim, Swept, Move,
           SweepAndLease, rows, SweepPcs
  <2>2. lease' \in [Leases -> Rows]
    <3>1. [lease[l] EXCEPT !.state = "releasing"] \in Rows
      BY <1>1, RowEdits, RowStates
    <3> QED
      BY <3>1, <1>1, <1>51 DEF ExpiryClaim, Move, rows
  <2>3. lapsed' \subseteq Leases
    BY <1>51, <1>9 DEF ExpiryClaim, Swept, Move, SweepAndLease, rows
  <2>4. UNCHANGED << record, guest, task, saga, cleaner, call, reported, overtaken,
                     crashes>>
    BY <1>51 DEF ExpiryClaim, Swept, Move, SweepAndLease, rows
  <2> QED
    BY <2>1, <2>2, <2>3, <2>4, <1>1, <1>2, <1>3, <1>4, <1>5, <1>6, <1>7, <1>8, <1>9,
       <1>10, <1>11, <1>12 DEF TypeOK
<1>52. ASSUME NEW l \in Leases, StuckRecords(l)
      PROVE  TypeOK'
  <2>1. sweep' \in Sweeps
    BY <1>52, <1>8, <1>2, SweepMoves, CopyTypes, RecordFields DEF StuckRecords,
           OnlySweep, rows, SweepPcs
  <2>2. UNCHANGED << lease, record, guest, task, saga, cleaner, call, lapsed,
                     reported, overtaken, crashes>>
    BY <1>52 DEF StuckRecords, Scan, OnlySweep, rows
  <2> QED
    BY <2>1, <2>2, <1>1, <1>2, <1>3, <1>4, <1>5, <1>6, <1>7, <1>8, <1>9, <1>10,
       <1>11, <1>12 DEF TypeOK
<1>53. ASSUME NEW l \in Leases, StuckLeases(l)
      PROVE  TypeOK'
  <2>1. sweep' \in Sweeps
    <3> DEFINE to == Compensation(lease[l].state, Allocated(lease[l], sweep.seen))
    <3>1. Allocated(lease[l], sweep.seen) \in BOOLEAN
      BY <1>1, RowFields DEF Allocated
    <3>2. to = "stay" \/ to \in {"releasing", "failed"}
      BY <3>1, CompensationTo
    <3>3. \/ to = "stay" /\ sweep' = NoSweep
          \/ to # "stay" /\ sweep' = [sweep EXCEPT !.pc = "move", !.row = lease[l], !.seen = to]
      BY <1>53 DEF StuckLeases
    <3> HIDE DEF to
    <3>4. lease[l] \in Copies
      BY <1>1, CopyTypes
    <3>5. to # "stay" => [sweep EXCEPT !.pc = "move", !.row = lease[l], !.seen = to] \in Sweeps
      BY <3>2, <3>4, <1>8 DEF Sweeps, SweepPcs
    <3> QED
      BY <3>3, <3>5, SweepMoves
  <2>2. UNCHANGED << lease, record, guest, task, saga, cleaner, call, lapsed,
                     reported, overtaken, crashes>>
    BY <1>53 DEF StuckLeases, OnlySweep, rows
  <2> QED
    BY <2>1, <2>2, <1>1, <1>2, <1>3, <1>4, <1>5, <1>6, <1>7, <1>8, <1>9, <1>10,
       <1>11, <1>12 DEF TypeOK
<1>54. ASSUME NEW l \in Leases, StuckMove(l)
      PROVE  TypeOK'
  <2>1. sweep' \in Sweeps
    BY <1>54, <1>8, SweepMoves, CopyTypes DEF StuckMove, Swept, Move, SweepAndLease,
           rows, SweepPcs
  <2>2. lease' \in [Leases -> Rows]
    <3>1. sweep.seen \in LeaseStates
      BY <1>54, <1>13, RowStates DEF StuckMove, Swept, CopyInv, SweepCopies
    <3>2. [lease[l] EXCEPT !.state = sweep.seen] \in Rows
      BY <3>1, <1>1, RowEdits
    <3> QED
      BY <3>2, <1>1, <1>54 DEF StuckMove, Move, rows
  <2>3. UNCHANGED << record, guest, task, saga, cleaner, call, lapsed, reported,
                     overtaken, crashes>>
    BY <1>54 DEF StuckMove, Swept, Move, SweepAndLease, rows
  <2> QED
    BY <2>1, <2>2, <2>3, <1>1, <1>2, <1>3, <1>4, <1>5, <1>6, <1>7, <1>8, <1>9,
       <1>10, <1>11, <1>12 DEF TypeOK
<1>55. ASSUME NEW l \in Leases, Abandon(l)
      PROVE  TypeOK'
  <2>1. record' \in [Leases -> Records]
    BY <1>55, <1>2, RecordEdits, RecordNames, RecordFields DEF Abandon, rows
  <2>2. UNCHANGED << lease, guest, task, saga, cleaner, call, sweep, lapsed,
                     reported, overtaken, crashes>>
    BY <1>55 DEF Abandon, rows
  <2> QED
    BY <2>1, <2>2, <1>1, <1>2, <1>3, <1>4, <1>5, <1>6, <1>7, <1>8, <1>9, <1>10,
       <1>11, <1>12 DEF TypeOK
<1>56. ASSUME NEW l \in Leases, CleanupQueue(l)
      PROVE  TypeOK'
  <2>1. cleaner' \in [Leases -> [Attempts -> Cleaners]]
    BY <1>56, <1>6, <1>1, QueueMoves, RowFields DEF CleanupQueue, rows
  <2>2. UNCHANGED << lease, record, guest, task, saga, call, sweep, lapsed,
                     reported, overtaken, crashes>>
    BY <1>56 DEF CleanupQueue, Queue, rows
  <2> QED
    BY <2>1, <2>2, <1>1, <1>2, <1>3, <1>4, <1>5, <1>6, <1>7, <1>8, <1>9, <1>10,
       <1>11, <1>12 DEF TypeOK
<1>57. ASSUME NEW l \in Leases, CleanupScan(l)
      PROVE  TypeOK'
  <2>1. sweep' \in Sweeps
    BY <1>57, <1>8, <1>1, SweepMoves, CopyTypes DEF CleanupScan, OnlySweep, rows,
           SweepPcs
  <2>2. UNCHANGED << lease, record, guest, task, saga, cleaner, call, lapsed,
                     reported, overtaken, crashes>>
    BY <1>57 DEF CleanupScan, Scan, OnlySweep, rows
  <2> QED
    BY <2>1, <2>2, <1>1, <1>2, <1>3, <1>4, <1>5, <1>6, <1>7, <1>8, <1>9, <1>10,
       <1>11, <1>12 DEF TypeOK
<1>58. ASSUME NEW l \in Leases, CleanupCount(l)
      PROVE  TypeOK'
  <2>1. sweep' \in Sweeps
    BY <1>58, <1>8, SweepMoves, CopyTypes DEF CleanupCount, Swept, Move,
           SweepAndLease, rows, SweepPcs
  <2>2. lease' \in [Leases -> Rows]
    BY <1>58, <1>1, FailedRow DEF CleanupCount, Swept, Move, SweepAndLease, rows
  <2>3. UNCHANGED << record, guest, task, saga, cleaner, call, lapsed, reported,
                     overtaken, crashes>>
    BY <1>58 DEF CleanupCount, Swept, Move, SweepAndLease, rows
  <2> QED
    BY <2>1, <2>2, <2>3, <1>1, <1>2, <1>3, <1>4, <1>5, <1>6, <1>7, <1>8, <1>9,
       <1>10, <1>11, <1>12 DEF TypeOK
<1>59. ASSUME NEW l \in Leases, GuestScan(l)
      PROVE  TypeOK'
  <2>1. sweep' \in Sweeps
    BY <1>59, <1>8, SweepMoves, CopyTypes DEF GuestScan, OnlySweep, rows, SweepPcs
  <2>2. UNCHANGED << lease, record, guest, task, saga, cleaner, call, lapsed,
                     reported, overtaken, crashes>>
    BY <1>59 DEF GuestScan, Scan, OnlySweep, rows
  <2> QED
    BY <2>1, <2>2, <1>1, <1>2, <1>3, <1>4, <1>5, <1>6, <1>7, <1>8, <1>9, <1>10,
       <1>11, <1>12 DEF TypeOK
<1>60. ASSUME NEW l \in Leases, Judge(l)
      PROVE  TypeOK'
  <2>1. sweep' \in Sweeps
    BY <1>60, <1>8, SweepMoves, CopyTypes DEF Judge, Swept, rows, SweepPcs
  <2>2. reported' \subseteq Vmids
    BY <1>60, <1>10, <1>13 DEF Judge, Swept, rows, CopyInv, SweepCopies
  <2>3. UNCHANGED << lease, record, guest, task, saga, cleaner, call, lapsed,
                     overtaken, crashes>>
    BY <1>60 DEF Judge, Swept, rows
  <2> QED
    BY <2>1, <2>2, <2>3, <1>1, <1>2, <1>3, <1>4, <1>5, <1>6, <1>7, <1>8, <1>9,
       <1>10, <1>11, <1>12 DEF TypeOK
<1>61. ASSUME NEW l \in Leases, TtlPasses(l)
      PROVE  TypeOK'
  <2>1. lapsed' \subseteq Leases
    BY <1>61, <1>9 DEF TtlPasses, rows
  <2>2. UNCHANGED << lease, record, guest, task, saga, cleaner, call, sweep,
                     reported, overtaken, crashes>>
    BY <1>61 DEF TtlPasses, rows
  <2> QED
    BY <2>1, <2>2, <1>1, <1>2, <1>3, <1>4, <1>5, <1>6, <1>7, <1>8, <1>9, <1>10,
       <1>11, <1>12 DEF TypeOK
<1>62. CASE Crash
  <2>1. saga' \in [Leases -> Sagas]
    <3>1. [NoSaga EXCEPT !.pc = "done"] \in Sagas
      BY CopyTypes DEF NoSaga, Sagas, SagaPcs
    <3> QED
      BY <3>1, <1>5, <1>62 DEF Crash
  <2>2. cleaner' \in [Leases -> [Attempts -> Cleaners]]
    <3>1. [NoCleaner EXCEPT !.pc = "abandoned"] \in Cleaners
      BY CopyTypes DEF NoCleaner, Cleaners, CleanerPcs
    <3> QED
      BY <3>1, <1>6, <1>62 DEF Crash
  <2>3. call' \in [Callers -> Calls]
    <3>1. \A c \in Callers : Answered(c) \in Calls
      BY CopyTypes DEF Answered, Calls, CallPcs
    <3> QED
      BY <3>1, <1>7, <1>62 DEF Crash
  <2>4. sweep' \in Sweeps
    BY <1>62, <1>8, SweepMoves DEF Crash, rows
  <2>5. reported' \subseteq Vmids
    BY <1>62 DEF Crash, rows
  <2>6. crashes' \in 0 .. MaxCrashes
    BY <1>62, <1>12, BoundsAssumption DEF Crash, rows
  <2>7. UNCHANGED << lease, record, guest, task, lapsed, overtaken>>
    BY <1>62 DEF Crash, rows
  <2> QED
    BY <2>1, <2>2, <2>3, <2>4, <2>5, <2>6, <2>7, <1>1, <1>2, <1>3, <1>4, <1>5, <1>6,
       <1>7, <1>8, <1>9, <1>10, <1>11, <1>12 DEF TypeOK
<1> QED
  BY <1>15, <1>16, <1>17, <1>18, <1>19, <1>20, <1>21, <1>22, <1>23, <1>24, <1>25,
     <1>26, <1>27, <1>28, <1>29, <1>30, <1>31, <1>32, <1>33, <1>34, <1>35, <1>36,
     <1>37, <1>38, <1>39, <1>40, <1>41, <1>42, <1>43, <1>44, <1>45, <1>46, <1>47,
     <1>48, <1>49, <1>50, <1>51, <1>52, <1>53, <1>54, <1>55, <1>56, <1>57, <1>58,
     <1>59, <1>60, <1>61, <1>62
  DEF Next, Progress, Requests, SagaStep, CleanerStep, CallStep, SweepStep, vars

-----------------------------------------------------------------------------
\* What a step does, lease by lease and field by field.
Same(l, f, g) == \A m \in Leases : m # l => g[m] = f[m]

SagaGoes(l, here, next) ==
    /\ saga[l].pc = here /\ saga'[l].pc = next /\ saga'[l].vmid = saga[l].vmid
    /\ Same(l, saga, saga')

RecordGets(l, state, vmid, upid) ==
    /\ record'[l].state = state /\ record'[l].vmid = vmid /\ record'[l].upid = upid
    /\ Same(l, record, record')

LeaseGets(l, row, state) ==
    /\ lease'[l].state = state /\ lease'[l].attempts = row.attempts
    /\ lease'[l].expires = row.expires /\ lease'[l].link = row.link
    /\ Same(l, lease, lease')

LeaseState(l, state, link) ==
    /\ lease'[l].state = state /\ lease'[l].attempts = lease[l].attempts
    /\ lease'[l].expires = lease[l].expires /\ lease'[l].link = link
    /\ Same(l, lease, lease')

Blind(l, copy, expected) ==
    /\ \A m \in Leases : m # l => (m \in overtaken' <=> m \in overtaken)
    /\ l \in overtaken => l \in overtaken'
    /\ l \notin overtaken' => lease[l] = copy /\ copy.state \in expected

CleanerGoes(l, a, here, next) ==
    /\ cleaner[l][a].pc = here /\ cleaner'[l][a].pc = next
    /\ Same(l, cleaner, cleaner')
    /\ \A b \in Attempts : b # a => cleaner'[l][b] = cleaner[l][b]

CallGoes(c, here, next) ==
    /\ call[c].pc = here /\ call'[c].pc = next
    /\ \A d \in Callers : d # c => call'[d] = call[d]

\* The types of the variables, and of their fields, one by one.
LEMMA Types ==
    ASSUME TypeOK
    PROVE  /\ lease \in [Leases -> Rows] /\ record \in [Leases -> Records]
           /\ guest \in [Vmids -> Leases \cup {Nothing, Stranger}]
           /\ task \in [Leases -> Vmids \cup {Nothing}]
           /\ saga \in [Leases -> Sagas]
           /\ cleaner \in [Leases -> [Attempts -> Cleaners]]
           /\ call \in [Callers -> Calls] /\ sweep \in Sweeps
           /\ overtaken \subseteq Leases /\ lapsed \subseteq Leases
BY DEF TypeOK

LEMMA RowTypes == TypeOK => \A l \in Leases : lease[l] \in Rows
BY Types

LEMMA Apart == Nothing \notin Vmids /\ Nothing \notin Leases /\ Stranger \notin Leases
BY BoundsAssumption

LEMMA RecordTypes ==
    TypeOK => \A l \in Leases : /\ record[l].vmid \in Vmids \cup {Nothing}
                                /\ record[l].state \in RecordStates
BY Types, RecordFields

LEMMA GuestTypes ==
    TypeOK => /\ \A v \in Vmids : guest[v] \in Leases \cup {Nothing, Stranger}
              /\ \A l \in Leases : task[l] \in Vmids \cup {Nothing}
BY Types

\* What the steps of a saga, of a cleanup and of a queue, and the writes of a
\* row, are made of.
LEMMA AtDoes ==
    ASSUME TypeOK, NEW l \in Leases, NEW here, NEW next, At(l, here, next)
    PROVE  SagaGoes(l, here, next) /\ saga'[l].row = Nothing
BY Types DEF At, SagaGoes, Same, Sagas

LEMMA ReadingDoes ==
    ASSUME TypeOK, NEW l \in Leases, NEW here, NEW next, Reading(l, here, next)
    PROVE  SagaGoes(l, here, next) /\ saga'[l].row = lease[l]
BY Types DEF Reading, SagaGoes, Same, Sagas

LEMMA CleanDoes ==
    ASSUME TypeOK, NEW l \in Leases, NEW a \in Attempts, NEW here, NEW next,
           Clean(l, a, here, next)
    PROVE  /\ CleanerGoes(l, a, here, next)
           /\ next \notin {"done", "not_pooled"} =>
                  cleaner'[l][a].row = cleaner[l][a].row
                  /\ cleaner'[l][a].sure = cleaner[l][a].sure
<1> DEFINE d == IF next \in {"done", "not_pooled"} THEN [NoCleaner EXCEPT !.pc = next]
                ELSE [cleaner[l][a] EXCEPT !.pc = next]
<1>0. cleaner[l][a] \in Cleaners
  BY Types
<1>1. /\ d.pc = next
      /\ next \notin {"done", "not_pooled"} =>
             d.row = cleaner[l][a].row /\ d.sure = cleaner[l][a].sure
  BY <1>0 DEF NoCleaner, Cleaners
<1>2. cleaner[l][a].pc = here /\ cleaner' = [cleaner EXCEPT ![l] = [cleaner[l] EXCEPT ![a] = d]]
  BY DEF Clean
<1> HIDE DEF d
<1> QED
  BY <1>1, <1>2, Types DEF CleanerGoes, Same

LEMMA QueueDoes ==
    ASSUME TypeOK, NEW l \in Leases, NEW a \in Attempts, Queue(l, a)
    PROVE  /\ Same(l, cleaner, cleaner')
           /\ \A b \in Attempts :
                  /\ b # a => cleaner'[l][b] = cleaner[l][b]
                  /\ cleaner'[l][b].row = cleaner[l][b].row
                  /\ cleaner'[l][b].sure = cleaner[l][b].sure
           /\ cleaner'[l][a].pc = IF cleaner[l][a].pc = "absent" THEN "queued"
                                  ELSE cleaner[l][a].pc
<1> DEFINE d == [cleaner[l][a] EXCEPT !.pc = IF @ = "absent" THEN "queued" ELSE @]
<1>0. cleaner[l][a] \in Cleaners
  BY Types
<1>1. /\ d.row = cleaner[l][a].row /\ d.sure = cleaner[l][a].sure
      /\ d.pc = IF cleaner[l][a].pc = "absent" THEN "queued" ELSE cleaner[l][a].pc
  BY <1>0 DEF Cleaners
<1>2. cleaner' = [cleaner EXCEPT ![l] = [cleaner[l] EXCEPT ![a] = d]]
  BY DEF Queue
<1> HIDE DEF d
<1> QED
  BY <1>1, <1>2, Types DEF Same

LEMMA UpdateDoes ==
    ASSUME TypeOK, NEW l \in Leases, NEW copy, NEW row, NEW expected,
           Update(l, copy, row, expected)
    PROVE  lease'[l] = row /\ Same(l, lease, lease') /\ Blind(l, copy, expected)
BY Types DEF Update, Same, Blind

LEMMA MoveDoes ==
    ASSUME TypeOK, NEW l \in Leases, NEW row, Move(l, row)
    PROVE  lease'[l] = row /\ Same(l, lease, lease') /\ overtaken' = overtaken
BY Types DEF Move, Same

LEMMA ProvisionDoes ==
    ASSUME TypeOK, NEW l \in Leases, Provision(l)
    PROVE  /\ lease[l].state = "requested" /\ LeaseState(l, "provisioning", TRUE)
           /\ RecordGets(l, "provisioning", record[l].vmid, record[l].upid)
           /\ SagaGoes(l, "none", "attached")
           /\ UNCHANGED <<overtaken, guest, task, cleaner, call, sweep, lapsed>>
<1>1. /\ lease[l].state = "requested" /\ saga[l].pc = "none"
      /\ Move(l, [lease[l] EXCEPT !.state = "provisioning", !.link = TRUE])
      /\ record' = [record EXCEPT ![l].state = "provisioning"]
      /\ saga' = [saga EXCEPT ![l].pc = "attached"]
      /\ UNCHANGED <<guest, task, cleaner, call, sweep, lapsed>>
  BY DEF Provision
<1>2. LeaseState(l, "provisioning", TRUE) /\ overtaken' = overtaken
  <2> DEFINE new == [lease[l] EXCEPT !.state = "provisioning", !.link = TRUE]
  <2>1. lease[l] \in Rows
    BY Types
  <2>2. /\ new.state = "provisioning" /\ new.link = TRUE
        /\ new.attempts = lease[l].attempts /\ new.expires = lease[l].expires
    BY <2>1 DEF Rows
  <2>3. Move(l, new)
    BY <1>1
  <2> HIDE DEF new
  <2> QED
    BY <2>2, <2>3, MoveDoes DEF LeaseState
<1>3. RecordGets(l, "provisioning", record[l].vmid, record[l].upid)
  BY <1>1, Types DEF RecordGets, Records, Same
<1>4. SagaGoes(l, "none", "attached")
  BY <1>1, Types DEF SagaGoes, Sagas, Same
<1> QED
  BY <1>1, <1>2, <1>3, <1>4

LEMMA QueueProvisionDoes ==
    ASSUME TypeOK, NEW l \in Leases, QueueProvision(l)
    PROVE  /\ SagaGoes(l, "attached", "queued")
           /\ UNCHANGED <<lease, overtaken, record, guest, task, cleaner, call,
                          sweep, lapsed>>
BY Types DEF QueueProvision, rows, Same, SagaGoes, Sagas

LEMMA BeginDoes ==
    ASSUME TypeOK, NEW l \in Leases, Begin(l)
    PROVE  /\ \/ SagaGoes(l, "queued", "fail")
              \/ /\ saga[l].pc = "queued" /\ saga'[l].pc = "reserve" /\ saga'[l].vmid \in Vmids
                 /\ Same(l, saga, saga')
           /\ UNCHANGED <<lease, overtaken, record, guest, task, cleaner, call,
                          sweep, lapsed>>
BY AtDoes, Types DEF Begin, OnlySaga, rows, Same

LEMMA ReserveDoes ==
    ASSUME TypeOK, NEW l \in Leases, Reserve(l)
    PROVE  /\ \/ /\ SagaGoes(l, "reserve", "clone") /\ ~Held(l, saga[l].vmid)
                 /\ record[l].state = "provisioning"
                 /\ RecordGets(l, "provisioning", saga[l].vmid, record[l].upid)
              \/ SagaGoes(l, "reserve", "fail") /\ record' = record
           /\ UNCHANGED <<lease, overtaken, guest, task, cleaner, call, sweep,
                          lapsed>>
BY AtDoes, Types DEF Reserve, SagaAndRecord, rows, Same, RecordGets, Records

LEMMA CloneCallDoes ==
    ASSUME TypeOK, NEW l \in Leases, CloneCall(l)
    PROVE  /\ SagaGoes(l, "clone", "mark") \/ SagaGoes(l, "clone", "fail")
           /\ \/ /\ guest[saga[l].vmid] = Nothing
                 /\ task'[l] = saga[l].vmid /\ Same(l, task, task')
              \/ SagaGoes(l, "clone", "fail") /\ task' = task
           /\ UNCHANGED <<lease, overtaken, record, guest, cleaner, call, sweep,
                          lapsed>>
BY AtDoes, Types DEF CloneCall, rows, Same

LEMMA MarkDoes ==
    ASSUME TypeOK, NEW l \in Leases, Mark(l)
    PROVE  /\ \/ SagaGoes(l, "mark", "fail") /\ record' = record
              \/ /\ SagaGoes(l, "mark", "settle") /\ record[l].state # "never_ready"
                 /\ RecordGets(l, record[l].state, record[l].vmid, TRUE)
           /\ UNCHANGED <<lease, overtaken, guest, task, cleaner, call, sweep,
                          lapsed>>
BY AtDoes, Types DEF Mark, SagaAndRecord, rows, Same, RecordGets, Records

LEMMA BootRecordDoes ==
    ASSUME TypeOK, NEW l \in Leases, BootRecord(l)
    PROVE  /\ guest[saga[l].vmid] = l
           /\ \/ SagaGoes(l, "settle", "fail") /\ record' = record
              \/ /\ SagaGoes(l, "settle", "bootlease") /\ saga'[l].row = lease[l]
                 /\ record[l].state # "never_ready"
                 /\ RecordGets(l, "booting", record[l].vmid, record[l].upid)
           /\ UNCHANGED <<lease, overtaken, guest, task, cleaner, call, sweep,
                          lapsed>>
BY AtDoes, ReadingDoes, Types DEF BootRecord, Boot, SagaAndRecord, rows, Same,
       RecordGets, Records

LEMMA BootLeaseDoes ==
    ASSUME TypeOK, CopyInv, NEW l \in Leases, BootLease(l)
    PROVE  /\ SagaGoes(l, "bootlease", "wait")
           /\ LeaseGets(l, saga[l].row, "booting")
           /\ Blind(l, saga[l].row, InSaga)
           /\ UNCHANGED <<record, guest, task, cleaner, call, sweep, lapsed>>
BY AtDoes, UpdateDoes, Types DEF BootLease, SagaAndLease, CopyInv, SagaCopies,
       SagaHolds, LeaseGets, SagaGoes, Rows

LEMMA StrapWriteDoes ==
    ASSUME TypeOK, CopyInv, NEW l \in Leases, StrapWrite(l)
    PROVE  /\ SagaGoes(l, "strapwrite", "strap")
           /\ LeaseGets(l, saga[l].row, "bootstrapping")
           /\ Blind(l, saga[l].row, InSaga)
           /\ UNCHANGED <<record, guest, task, cleaner, call, sweep, lapsed>>
BY AtDoes, UpdateDoes, Types DEF StrapWrite, SagaAndLease, CopyInv, SagaCopies,
       SagaHolds, LeaseGets, SagaGoes, Rows

LEMMA FailWriteDoes ==
    ASSUME TypeOK, CopyInv, NEW l \in Leases, FailWrite(l)
    PROVE  /\ SagaGoes(l, "failwrite", "compensate")
           /\ LeaseGets(l, saga[l].row, "failed")
           /\ Blind(l, saga[l].row, InSaga)
           /\ UNCHANGED <<record, guest, task, cleaner, call, sweep, lapsed>>
BY AtDoes, UpdateDoes, Types DEF FailWrite, SagaAndLease, CopyInv, SagaCopies,
       SagaHolds, LeaseGets, SagaGoes, Rows

LEMMA WaitDoes ==
    ASSUME TypeOK, NEW l \in Leases, Wait(l)
    PROVE  /\ \/ SagaGoes(l, "wait", "fail") /\ record' = record
              \/ /\ SagaGoes(l, "wait", "strapread") /\ record[l].state # "never_ready"
                 /\ RecordGets(l, record[l].state, record[l].vmid, record[l].upid)
           /\ UNCHANGED <<lease, overtaken, guest, task, cleaner, call, sweep,
                          lapsed>>
BY AtDoes, Types DEF Wait, Written, SagaAndRecord, rows, Same, RecordGets, Records

LEMMA StrapDoes ==
    ASSUME TypeOK, NEW l \in Leases, Strap(l)
    PROVE  /\ \/ SagaGoes(l, "strap", "fail") /\ record' = record
              \/ /\ SagaGoes(l, "strap", "ready") /\ record[l].state # "never_ready"
                 /\ RecordGets(l, "bootstrapping", record[l].vmid, record[l].upid)
           /\ UNCHANGED <<lease, overtaken, guest, task, cleaner, call, sweep,
                          lapsed>>
BY AtDoes, Types DEF Strap, Written, SagaAndRecord, rows, Same, RecordGets, Records

LEMMA StrapReadDoes ==
    ASSUME TypeOK, NEW l \in Leases, StrapRead(l)
    PROVE  /\ SagaGoes(l, "strapread", "strapwrite") /\ saga'[l].row = lease[l]
           /\ UNCHANGED <<lease, overtaken, record, guest, task, cleaner, call,
                          sweep, lapsed>>
BY ReadingDoes, Types DEF StrapRead, OnlySaga, rows

LEMMA ReadyDoes ==
    ASSUME TypeOK, NEW l \in Leases, Ready(l)
    PROVE  /\ \/ SagaGoes(l, "ready", "fail") /\ UNCHANGED <<record, lease>>
              \/ /\ SagaGoes(l, "ready", "done")
                 /\ lease[l].state \in InSaga /\ lease[l].link /\ record[l].state \in InSaga
                 /\ RecordGets(l, "ready", record[l].vmid, record[l].upid)
                 /\ lease'[l].state = "ready" /\ lease'[l].link
                 /\ lease'[l].attempts = lease[l].attempts /\ Same(l, lease, lease')
           /\ UNCHANGED <<overtaken, guest, task, cleaner, call, sweep, lapsed>>
<1>1. \/ At(l, "ready", "fail") /\ UNCHANGED <<record, lease, overtaken>>
      \/ /\ At(l, "ready", "done")
         /\ lease[l].state \in InSaga /\ lease[l].link /\ record[l].state \in InSaga
         /\ Move(l, [lease[l] EXCEPT !.state = "ready", !.expires = 1])
         /\ record' = [record EXCEPT ![l].state = "ready"]
  BY DEF Ready, rows
<1>2. UNCHANGED <<guest, task, cleaner, call, sweep, lapsed>>
  BY DEF Ready
<1>3. CASE At(l, "ready", "fail") /\ UNCHANGED <<record, lease, overtaken>>
  BY <1>2, <1>3, AtDoes
<1>4. CASE /\ At(l, "ready", "done")
           /\ lease[l].state \in InSaga /\ lease[l].link /\ record[l].state \in InSaga
           /\ Move(l, [lease[l] EXCEPT !.state = "ready", !.expires = 1])
           /\ record' = [record EXCEPT ![l].state = "ready"]
  <2>1. RecordGets(l, "ready", record[l].vmid, record[l].upid)
    BY <1>4, Types DEF RecordGets, Records, Same
  <2>2. /\ lease'[l].state = "ready" /\ lease'[l].link
        /\ lease'[l].attempts = lease[l].attempts /\ Same(l, lease, lease')
        /\ overtaken' = overtaken
    <3> DEFINE new == [lease[l] EXCEPT !.state = "ready", !.expires = 1]
    <3>1. lease[l] \in Rows
      BY Types
    <3>2. new.state = "ready" /\ new.link = lease[l].link /\ new.attempts = lease[l].attempts
      BY <3>1 DEF Rows
    <3>3. Move(l, new)
      BY <1>4
    <3> HIDE DEF new
    <3> QED
      BY <1>4, <3>2, <3>3, MoveDoes
  <2> QED
    BY <1>2, <1>4, <2>1, <2>2, AtDoes
<1> QED
  BY <1>1, <1>3, <1>4

LEMMA SagaErrsDoes ==
    ASSUME TypeOK, NEW l \in Leases, SagaErrs(l)
    PROVE  /\ \E here \in {"queued", "clone", "settle", "wait", "strap"} :
                  SagaGoes(l, here, "fail")
           /\ UNCHANGED <<lease, overtaken, record, guest, task, cleaner, call,
                          sweep, lapsed>>
BY AtDoes, Types DEF SagaErrs, OnlySaga, rows

LEMMA FailRecordDoes ==
    ASSUME TypeOK, NEW l \in Leases, FailRecord(l)
    PROVE  /\ \/ SagaGoes(l, "fail", "failwrite") /\ saga'[l].row = lease[l]
              \/ SagaGoes(l, "fail", "compensate")
           /\ RecordGets(l, "never_ready", record[l].vmid, record[l].upid)
           /\ UNCHANGED <<lease, overtaken, guest, task, cleaner, call, sweep,
                          lapsed>>
BY AtDoes, ReadingDoes, Types DEF FailRecord, SagaAndRecord, rows, Same, RecordGets,
       Records

LEMMA CompensateReadDoes ==
    ASSUME TypeOK, NEW l \in Leases, CompensateRead(l)
    PROVE  /\ \/ SagaGoes(l, "compensate", "done")
              \/ /\ SagaGoes(l, "compensate", "compwrite") /\ saga'[l].row = lease[l]
                 /\ Compensation(lease[l].state, Allocated(lease[l], record[l].vmid)) # "stay"
           /\ UNCHANGED <<lease, overtaken, record, guest, task, cleaner, call,
                          sweep, lapsed>>
BY AtDoes, ReadingDoes, Types DEF CompensateRead, OnlySaga, rows

LEMMA CompensateWriteDoes ==
    ASSUME TypeOK, CopyInv, NEW l \in Leases, CompensateWrite(l)
    PROVE  /\ saga[l].pc = "compwrite" /\ Same(l, saga, saga') /\ saga'[l].vmid = saga[l].vmid
           /\ \E to \in {"releasing", "failed"} :
                 /\ LeaseGets(l, saga[l].row, to)
                 /\ \/ to = "failed" /\ saga'[l].pc = "done"
                    \/ /\ to = "releasing" /\ saga'[l].pc = "compqueue"
                       /\ saga'[l].row \in Rows /\ saga'[l].row.attempts = saga[l].row.attempts
           /\ Blind(l, saga[l].row, InSaga \cup {"failed"})
           /\ UNCHANGED <<record, guest, task, cleaner, call, sweep, lapsed>>
<1> DEFINE copy == saga[l].row
           to == Compensation(copy.state, Allocated(copy, record[l].vmid))
           row == [copy EXCEPT !.state = to]
<1>1. copy \in Rows /\ to # "stay" /\ saga[l].pc = "compwrite"
  BY DEF CompensateWrite, CopyInv, SagaCopies, SagaHolds
<1>2. Allocated(copy, record[l].vmid) \in BOOLEAN
  BY <1>1, RowFields DEF Allocated
<1>3. to \in {"releasing", "failed"} /\ to \in LeaseStates
  BY <1>1, <1>2, CompensationTo, RowStates
<1>4. row \in Rows
  BY <1>1, <1>3 DEF Rows
<1>5. /\ row.state = to /\ row.attempts = copy.attempts /\ row.expires = copy.expires
      /\ row.link = copy.link
  BY <1>1 DEF Rows
<1>6. saga' = [saga EXCEPT ![l].pc = IF to = "releasing" THEN "compqueue" ELSE "done",
                           ![l].row = IF to = "releasing" THEN row ELSE Nothing]
  BY DEF CompensateWrite
<1>7. Update(l, copy, row, InSaga \cup {"failed"})
  BY DEF CompensateWrite
<1>8. UNCHANGED <<record, guest, task, cleaner, call, sweep, lapsed>>
  BY DEF CompensateWrite, SagaAndLease
<1> HIDE DEF copy, to, row
<1>9. /\ saga'[l].pc = IF to = "releasing" THEN "compqueue" ELSE "done"
      /\ saga'[l].row = IF to = "releasing" THEN row ELSE Nothing
      /\ saga'[l].vmid = saga[l].vmid /\ Same(l, saga, saga')
  BY <1>6, Types DEF Same, Sagas
<1>10. /\ lease'[l] = row /\ Same(l, lease, lease')
       /\ Blind(l, copy, InSaga \cup {"failed"})
  BY <1>7, UpdateDoes
<1>11. LeaseGets(l, copy, to)
  BY <1>5, <1>10 DEF LeaseGets
<1> QED
  BY <1>1, <1>3, <1>4, <1>5, <1>8, <1>9, <1>10, <1>11 DEF copy

LEMMA CompensateQueueDoes ==
    ASSUME TypeOK, NEW l \in Leases, CompensateQueue(l)
    PROVE  /\ SagaGoes(l, "compqueue", "done")
           /\ Queue(l, saga[l].row.attempts)
           /\ UNCHANGED <<lease, overtaken, record, guest, task, call, sweep, lapsed>>
BY AtDoes, Types DEF CompensateQueue, rows

LEMMA CloneLandsDoes ==
    ASSUME TypeOK, NEW l \in Leases, CloneLands(l)
    PROVE  /\ task[l] # Nothing /\ guest[task[l]] = Nothing /\ task[l] \in Vmids
           /\ guest'[task[l]] = l /\ \A v \in Vmids : v # task[l] => guest'[v] = guest[v]
           /\ task'[l] = Nothing /\ Same(l, task, task')
           /\ UNCHANGED <<lease, overtaken, record, saga, cleaner, call, sweep,
                          lapsed>>
BY Types DEF CloneLands, rows, Same

LEMMA CloneFailsDoes ==
    ASSUME TypeOK, NEW l \in Leases, CloneFails(l)
    PROVE  /\ task[l] # Nothing /\ task'[l] = Nothing /\ Same(l, task, task')
           /\ UNCHANGED <<lease, overtaken, record, guest, saga, cleaner, call,
                          sweep, lapsed>>
BY Types DEF CloneFails, rows, Same

LEMMA CleanStartDoes ==
    ASSUME TypeOK, NEW l \in Leases, NEW a \in Attempts, CleanStart(l, a)
    PROVE  /\ \/ lease[l].state # "releasing" /\ CleanerGoes(l, a, "queued", "done")
              \/ CleanerGoes(l, a, "queued", "not_pooled")
              \/ /\ CleanerGoes(l, a, "queued", "release") /\ cleaner'[l][a].row = lease[l]
                 /\ cleaner'[l][a].sure => record[l].upid
              \/ /\ CleanerGoes(l, a, "queued", "identify") /\ cleaner'[l][a].row = lease[l]
                 /\ cleaner'[l][a].sure => record[l].upid
                 /\ record[l].vmid \in Vmids
           /\ ~CleanerGoes(l, a, "queued", "done") => lease[l].state = "releasing"
           /\ UNCHANGED <<lease, overtaken, record, guest, task, saga, call, sweep,
                          lapsed>>
<1>1. \/ lease[l].state # "releasing" /\ Clean(l, a, "queued", "done")
      \/ lease[l].state = "releasing" /\ Clean(l, a, "queued", "not_pooled")
      \/ /\ lease[l].state = "releasing" /\ cleaner[l][a].pc = "queued"
         /\ \E pc \in {"release", "identify"} :
                /\ pc = "identify" => Allocated(lease[l], record[l].vmid)
                /\ cleaner' = [cleaner EXCEPT ![l][a] =
                       [pc |-> pc, row |-> lease[l],
                        sure |-> record[l].upid /\ ~record[l].cloneFailed]]
  BY DEF CleanStart
<1>2. UNCHANGED <<lease, overtaken, record, guest, task, saga, call, sweep, lapsed>>
  BY DEF CleanStart, OnlyCleaner, rows
<1>3. CASE lease[l].state # "releasing" /\ Clean(l, a, "queued", "done")
  BY <1>2, <1>3, CleanDoes
<1>4. CASE lease[l].state = "releasing" /\ Clean(l, a, "queued", "not_pooled")
  BY <1>2, <1>4, CleanDoes
<1>5. ASSUME NEW pc \in {"release", "identify"}, cleaner[l][a].pc = "queued",
             lease[l].state = "releasing",
             pc = "identify" => Allocated(lease[l], record[l].vmid),
             cleaner' = [cleaner EXCEPT ![l][a] =
                 [pc |-> pc, row |-> lease[l],
                  sure |-> record[l].upid /\ ~record[l].cloneFailed]]
      PROVE  /\ CleanerGoes(l, a, "queued", pc) /\ cleaner'[l][a].row = lease[l]
             /\ cleaner'[l][a].sure => record[l].upid
             /\ pc = "identify" => record[l].vmid \in Vmids
  <2> DEFINE d == [pc |-> pc, row |-> lease[l],
                   sure |-> record[l].upid /\ ~record[l].cloneFailed]
  <2>1. d.pc = pc /\ d.row = lease[l] /\ (d.sure => record[l].upid)
    OBVIOUS
  <2>2. cleaner' = [cleaner EXCEPT ![l] = [cleaner[l] EXCEPT ![a] = d]]
    BY <1>5
  <2>3. pc = "identify" => record[l].vmid \in Vmids
    BY <1>5, Types, RecordFields DEF Allocated
  <2> HIDE DEF d
  <2> QED
    BY <1>5, <2>1, <2>2, <2>3, Types DEF CleanerGoes, Same
<1> QED
  BY <1>1, <1>2, <1>3, <1>4, <1>5

LEMMA CleanIdentifyDoes ==
    ASSUME TypeOK, NEW l \in Leases, NEW a \in Attempts, CleanIdentify(l, a)
    PROVE  /\ \E next \in {"delete", "release", "fail"} :
                  /\ CleanerGoes(l, a, "identify", next)
                  /\ next = "delete" => guest[record[l].vmid] = l \/ cleaner[l][a].sure
           /\ cleaner'[l][a].row = cleaner[l][a].row /\ cleaner'[l][a].sure = cleaner[l][a].sure
           /\ UNCHANGED <<lease, overtaken, record, guest, task, saga, call, sweep,
                          lapsed>>
<1>1. \E next \in {"delete", "release", "fail"} :
          /\ Clean(l, a, "identify", next)
          /\ next = "delete" => guest[record[l].vmid] = l \/ cleaner[l][a].sure
  BY DEF CleanIdentify
<1>2. UNCHANGED <<lease, overtaken, record, guest, task, saga, call, sweep, lapsed>>
  BY DEF CleanIdentify, OnlyCleaner, rows
<1> QED
  BY <1>1, <1>2, CleanDoes

LEMMA CleanDeleteDoes ==
    ASSUME TypeOK, NEW l \in Leases, NEW a \in Attempts, CleanDelete(l, a)
    PROVE  /\ CleanerGoes(l, a, "delete", "release")
           /\ cleaner'[l][a].row = cleaner[l][a].row /\ cleaner'[l][a].sure = cleaner[l][a].sure
           /\ \A v \in Vmids : IF v = record[l].vmid THEN guest'[v] = Nothing ELSE guest'[v] = guest[v]
           /\ UNCHANGED <<lease, overtaken, record, task, saga, call, sweep, lapsed>>
BY CleanDoes, Types DEF CleanDelete, rows

LEMMA CleanErrsDoes ==
    ASSUME TypeOK, NEW l \in Leases, NEW a \in Attempts, CleanErrs(l, a)
    PROVE  /\ CleanerGoes(l, a, "identify", "fail") \/ CleanerGoes(l, a, "delete", "fail")
           /\ cleaner'[l][a].row = cleaner[l][a].row /\ cleaner'[l][a].sure = cleaner[l][a].sure
           /\ UNCHANGED <<lease, overtaken, record, guest, task, saga, call, sweep,
                          lapsed>>
BY CleanDoes, Types, SMTT(20) DEF CleanErrs, OnlyCleaner, rows

LEMMA CleanReleaseDoes ==
    ASSUME TypeOK, CopyInv, NEW l \in Leases, NEW a \in Attempts, CleanRelease(l, a)
    PROVE  /\ CleanerGoes(l, a, "release", "done")
           /\ LeaseGets(l, cleaner[l][a].row, "released")
           /\ Blind(l, cleaner[l][a].row, {"releasing"})
           /\ UNCHANGED <<record, guest, task, saga, call, sweep, lapsed>>
BY CleanDoes, UpdateDoes, Types DEF CleanRelease, CleanerAndLease, CopyInv,
       CleanerCopies, CleanerHolds, CleanerGoes, LeaseGets, Rows

LEMMA CleanFailDoes ==
    ASSUME TypeOK, CopyInv, NEW l \in Leases, NEW a \in Attempts, CleanFail(l, a)
    PROVE  /\ CleanerGoes(l, a, "fail", "done")
           /\ lease'[l].state \in {"releasing", "cleanup_failed"}
           /\ lease'[l].attempts >= cleaner[l][a].row.attempts
           /\ lease'[l].attempts <= cleaner[l][a].row.attempts + 1
           /\ Same(l, lease, lease')
           /\ Blind(l, cleaner[l][a].row, {"releasing"})
           /\ UNCHANGED <<record, guest, task, saga, call, sweep, lapsed>>
BY CleanDoes, UpdateDoes, FailedRow, Types DEF CleanFail, CleanerAndLease, CopyInv,
       CleanerCopies, CleanerHolds, CleanerGoes

LEMMA AskReleaseDoes ==
    ASSUME TypeOK, NEW c \in Callers, NEW l \in Leases, AskRelease(c, l)
    PROVE  /\ \E kind \in {"release", "keep"} : CallGoes(c, "ready", kind)
           /\ call'[c].lease = l /\ call'[c].row = lease[l]
           /\ UNCHANGED <<lease, overtaken, record, guest, task, saga, cleaner,
                          sweep, lapsed>>
BY Types DEF AskRelease, Asked, rows, CallGoes

LEMMA AskRetryDoes ==
    ASSUME TypeOK, NEW c \in Callers, NEW l \in Leases, AskRetry(c, l)
    PROVE  /\ CallGoes(c, "ready", "retry") /\ call'[c].lease = l /\ call'[c].row = lease[l]
           /\ UNCHANGED <<lease, overtaken, record, guest, task, saga, cleaner,
                          sweep, lapsed>>
BY Types DEF AskRetry, Asked, rows, CallGoes

LEMMA AskExtendDoes ==
    ASSUME TypeOK, NEW c \in Callers, NEW l \in Leases, AskExtend(c, l)
    PROVE  /\ CallGoes(c, "ready", "extend") /\ call'[c].lease = l /\ call'[c].row = lease[l]
           /\ lease[l].expires <= MaxExtensions
           /\ UNCHANGED <<lease, overtaken, record, guest, task, saga, cleaner,
                          sweep, lapsed>>
BY Types DEF AskExtend, Asked, rows, CallGoes

LEMMA ReleaseWriteDoes ==
    ASSUME TypeOK, CopyInv, NEW c \in Callers, ReleaseWrite(c)
    PROVE  /\ call[c].pc \in CallHolds /\ CallGoes(c, call[c].pc, "queue")
           /\ call'[c].lease = call[c].lease /\ call[c].lease \in Leases
           /\ call'[c].row \in Rows /\ call'[c].row.attempts = call[c].row.attempts
           /\ LeaseGets(call[c].lease, call[c].row, "releasing")
           /\ Blind(call[c].lease, call[c].row, LeaseStates \ Terminal)
           /\ lapsed' = lapsed \ {call[c].lease}
           /\ UNCHANGED <<record, guest, task, saga, cleaner, sweep>>
<1> DEFINE l == call[c].lease
           how == IF call[c].pc = "keep" THEN "keep" ELSE call[c].row.cleanup
           row == [call[c].row EXCEPT !.state = "releasing", !.cleanup = how]
<1>1. l \in Leases /\ call[c].row \in Rows /\ call[c].pc \in CallHolds
  BY DEF ReleaseWrite, CopyInv, CallCopies, CallHolds
<1>2. row \in Rows
  BY <1>1, RowFields, RowStates DEF Rows
<1>3. /\ row.state = "releasing" /\ row.attempts = call[c].row.attempts
      /\ row.expires = call[c].row.expires /\ row.link = call[c].row.link
  BY <1>1 DEF Rows
<1>4. /\ Update(l, call[c].row, row, LeaseStates \ Terminal)
      /\ call' = [call EXCEPT ![c].pc = "queue", ![c].row = row]
      /\ lapsed' = lapsed \ {l}
  BY DEF ReleaseWrite
<1>5. UNCHANGED <<record, guest, task, saga, cleaner, sweep>>
  BY DEF ReleaseWrite, CallAndLease
<1> HIDE DEF l, how, row
<1>6. /\ lease'[l] = row /\ Same(l, lease, lease')
      /\ Blind(l, call[c].row, LeaseStates \ Terminal)
  BY <1>1, <1>4, UpdateDoes
<1>7. LeaseGets(l, call[c].row, "releasing")
  BY <1>3, <1>6 DEF LeaseGets
<1>8. /\ CallGoes(c, call[c].pc, "queue") /\ call'[c].lease = call[c].lease
      /\ call'[c].row = row
  BY <1>4, Types DEF CallGoes, Calls
<1> QED
  BY <1>1, <1>2, <1>3, <1>4, <1>5, <1>6, <1>7, <1>8 DEF l

LEMMA RetryWriteDoes ==
    ASSUME TypeOK, CopyInv, NEW c \in Callers, RetryWrite(c)
    PROVE  /\ call[c].pc = "retry" /\ call[c].lease \in Leases
           /\ \/ /\ CallGoes(c, "retry", "queue") /\ call'[c].lease = call[c].lease
                 /\ call'[c].row \in Rows /\ call'[c].row.attempts = call[c].row.attempts
                 /\ lease[call[c].lease].state = "cleanup_failed"
                 /\ LeaseState(call[c].lease, "releasing", lease[call[c].lease].link)
              \/ /\ CallGoes(c, "retry", "done") /\ lease' = lease
           /\ UNCHANGED <<overtaken, record, guest, task, saga, cleaner, sweep,
                          lapsed>>
<1> DEFINE l == call[c].lease
           row == [call[c].row EXCEPT !.state = "releasing"]
           new == [lease[l] EXCEPT !.state = "releasing", !.attempts = row.attempts]
<1>1. l \in Leases /\ call[c].row \in Rows /\ call[c].pc = "retry"
  BY DEF RetryWrite, CopyInv, CallCopies, CallHolds
<1>2. row \in Rows /\ row.attempts = call[c].row.attempts
  BY <1>1, RowStates DEF Rows
<1>3. /\ new.state = "releasing" /\ new.attempts = row.attempts
      /\ new.expires = lease[l].expires /\ new.link = lease[l].link
  BY <1>1, Types DEF Rows
<1>4. \/ /\ lease[l].state = "cleanup_failed" /\ lease[l].attempts = row.attempts
         /\ Move(l, new) /\ call' = [call EXCEPT ![c].pc = "queue", ![c].row = row]
      \/ /\ call' = [call EXCEPT ![c] = Answered(c)] /\ UNCHANGED <<lease, overtaken>>
  BY DEF RetryWrite, rows
<1>5. UNCHANGED <<record, guest, task, saga, cleaner, sweep, lapsed>>
  BY DEF RetryWrite, CallAndLease
<1> HIDE DEF l, row, new
<1>6. CASE /\ lease[l].state = "cleanup_failed" /\ lease[l].attempts = row.attempts
           /\ Move(l, new) /\ call' = [call EXCEPT ![c].pc = "queue", ![c].row = row]
  <2>1. lease'[l] = new /\ Same(l, lease, lease') /\ overtaken' = overtaken
    BY <1>1, <1>6, MoveDoes
  <2>2. LeaseState(l, "releasing", lease[l].link)
    BY <1>3, <1>6, <2>1 DEF LeaseState
  <2>3. /\ CallGoes(c, "retry", "queue") /\ call'[c].lease = call[c].lease
        /\ call'[c].row = row
    BY <1>1, <1>6, Types DEF CallGoes, Calls
  <2> QED
    BY <1>1, <1>2, <1>5, <1>6, <2>1, <2>2, <2>3 DEF l
<1>7. CASE call' = [call EXCEPT ![c] = Answered(c)] /\ UNCHANGED <<lease, overtaken>>
  <2>1. CallGoes(c, "retry", "done")
    BY <1>1, <1>7, Types DEF CallGoes, Answered
  <2> QED
    BY <1>1, <1>5, <1>7, <2>1 DEF l
<1> QED
  BY <1>4, <1>6, <1>7

LEMMA ExtendWriteDoes ==
    ASSUME TypeOK, CopyInv, NEW c \in Callers, ExtendWrite(c)
    PROVE  /\ call[c].lease \in Leases /\ CallGoes(c, "extend", "done")
           /\ \/ UNCHANGED <<lease, lapsed>>
              \/ /\ lease[call[c].lease].state = "ready" /\ lease'[call[c].lease].state = "ready"
                 /\ lease'[call[c].lease].link = lease[call[c].lease].link
                 /\ lease'[call[c].lease].attempts = lease[call[c].lease].attempts
                 /\ lease'[call[c].lease].expires = lease[call[c].lease].expires + 1
                 /\ Same(call[c].lease, lease, lease')
                 /\ lapsed' = lapsed \ {call[c].lease}
           /\ UNCHANGED <<overtaken, record, guest, task, saga, cleaner, sweep>>
<1> DEFINE l == call[c].lease
           new == [lease[l] EXCEPT !.expires = @ + 1]
<1>1. l \in Leases /\ call[c].pc = "extend" /\ call' = [call EXCEPT ![c] = Answered(c)]
  BY DEF ExtendWrite, CopyInv, CallCopies, CallHolds
<1>2. /\ new.state = lease[l].state /\ new.attempts = lease[l].attempts
      /\ new.expires = lease[l].expires + 1 /\ new.link = lease[l].link
  BY <1>1, Types DEF Rows
<1>3. \/ /\ lease[l].state = "ready" /\ Move(l, new) /\ lapsed' = lapsed \ {l}
      \/ UNCHANGED <<lease, overtaken, lapsed>>
  BY DEF ExtendWrite, rows, Move
<1>4. UNCHANGED <<record, guest, task, saga, cleaner, sweep>>
  BY DEF ExtendWrite, CallAndLease
<1> HIDE DEF l, new
<1>5. CallGoes(c, "extend", "done")
  BY <1>1, Types DEF CallGoes, Answered
<1>6. CASE lease[l].state = "ready" /\ Move(l, new) /\ lapsed' = lapsed \ {l}
  <2>1. lease'[l] = new /\ Same(l, lease, lease') /\ overtaken' = overtaken
    BY <1>1, <1>6, MoveDoes
  <2> QED
    BY <1>1, <1>2, <1>4, <1>5, <1>6, <2>1 DEF l
<1> QED
  BY <1>1, <1>3, <1>4, <1>5, <1>6 DEF l

LEMMA CallQueueDoes ==
    ASSUME TypeOK, CopyInv, NEW c \in Callers, CallQueue(c)
    PROVE  /\ call[c].lease \in Leases /\ CallGoes(c, "queue", "done")
           /\ cleaner' = cleaner \/ Queue(call[c].lease, call[c].row.attempts)
           /\ UNCHANGED <<lease, overtaken, record, guest, task, saga, sweep, lapsed>>
BY Types DEF CallQueue, rows, CopyInv, CallCopies, CallHolds, CallGoes, Answered

LEMMA ExpiryScanDoes ==
    ASSUME TypeOK, NEW l \in Leases, ExpiryScan(l)
    PROVE  /\ lease[l].state = "ready" /\ l \in lapsed
           /\ sweep'.pc = "claim" /\ sweep'.lease = l /\ sweep'.row = lease[l]
           /\ UNCHANGED <<lease, overtaken, record, guest, task, saga, cleaner, call,
                          lapsed>>
BY Types DEF ExpiryScan, OnlySweep, rows, Scan

LEMMA ExpiryClaimDoes ==
    ASSUME TypeOK, NEW l \in Leases, ExpiryClaim(l)
    PROVE  /\ sweep.pc = "claim" /\ sweep.lease = l /\ sweep'.pc = "idle"
           /\ \/ UNCHANGED <<lease, lapsed>>
              \/ /\ lease[l].state = "ready" /\ lease[l].expires = sweep.row.expires
                 /\ LeaseState(l, "releasing", lease[l].link) /\ lapsed' = lapsed \ {l}
           /\ UNCHANGED <<overtaken, record, guest, task, saga, cleaner, call>>
BY MoveDoes, Types DEF ExpiryClaim, Swept, SweepAndLease, rows, NoSweep, LeaseState,
       Rows

LEMMA StuckRecordsDoes ==
    ASSUME TypeOK, NEW l \in Leases, StuckRecords(l)
    PROVE  /\ sweep'.pc = "stuck" /\ sweep'.lease = l
           /\ UNCHANGED <<lease, overtaken, record, guest, task, saga, cleaner, call,
                          lapsed>>
BY Types DEF StuckRecords, OnlySweep, rows, Scan

LEMMA StuckLeasesDoes ==
    ASSUME TypeOK, NEW l \in Leases, StuckLeases(l)
    PROVE  /\ sweep.pc = "stuck"
           /\ \/ sweep'.pc = "idle"
              \/ /\ sweep'.pc = "move" /\ sweep'.lease = l /\ sweep'.row = lease[l]
                 /\ sweep'.seen \in {"releasing", "failed"}
                 /\ lease[l].state \in InSaga \cup {"failed"}
           /\ UNCHANGED <<lease, overtaken, record, guest, task, saga, cleaner, call,
                          lapsed>>
<1> DEFINE to == Compensation(lease[l].state, Allocated(lease[l], sweep.seen))
<1>1. lease[l].link \in BOOLEAN
  BY Types, RowFields
<1>2. Allocated(lease[l], sweep.seen) \in BOOLEAN
  BY <1>1 DEF Allocated
<1>3. to # "stay" => to \in {"releasing", "failed"} /\ lease[l].state \in InSaga \cup {"failed"}
  BY <1>2, CompensationTo
<1>4. /\ sweep.pc = "stuck" /\ sweep.lease = l
      /\ sweep' = IF to = "stay" THEN NoSweep
                  ELSE [sweep EXCEPT !.pc = "move", !.row = lease[l], !.seen = to]
  BY DEF StuckLeases
<1>5. UNCHANGED <<lease, overtaken, record, guest, task, saga, cleaner, call, lapsed>>
  BY DEF StuckLeases, OnlySweep, rows
<1> HIDE DEF to
<1>6. /\ to = "stay" => sweep'.pc = "idle"
      /\ to # "stay" => /\ sweep'.pc = "move" /\ sweep'.lease = l
                        /\ sweep'.row = lease[l] /\ sweep'.seen = to
  BY <1>4, Types DEF NoSweep, Sweeps
<1> QED
  BY <1>3, <1>4, <1>5, <1>6

LEMMA StuckMoveDoes ==
    ASSUME TypeOK, NEW l \in Leases, StuckMove(l)
    PROVE  /\ sweep.pc = "move" /\ sweep.lease = l /\ sweep'.pc = "idle"
           /\ \/ lease' = lease
              \/ /\ lease[l].state = sweep.row.state
                 /\ LeaseState(l, sweep.seen, lease[l].link)
           /\ UNCHANGED <<overtaken, record, guest, task, saga, cleaner, call,
                          lapsed>>
BY MoveDoes, Types DEF StuckMove, Swept, SweepAndLease, rows, NoSweep, LeaseState,
       Rows

LEMMA AbandonDoes ==
    ASSUME TypeOK, NEW l \in Leases, Abandon(l)
    PROVE  /\ lease[l].state \notin InSaga \cup {"requested", "ready"} /\ record[l].state \in InSaga
           /\ RecordGets(l, "never_ready", record[l].vmid, record[l].upid)
           /\ UNCHANGED <<lease, overtaken, guest, task, saga, cleaner, call, sweep,
                          lapsed>>
BY Types DEF Abandon, rows, Same, RecordGets, Records, ToAbandon

LEMMA CleanupQueueDoes ==
    ASSUME TypeOK, NEW l \in Leases, CleanupQueue(l)
    PROVE  /\ lease[l].state = "releasing" /\ Queue(l, lease[l].attempts)
           /\ UNCHANGED <<lease, overtaken, record, guest, task, saga, call, sweep,
                          lapsed>>
BY Types DEF CleanupQueue, rows

LEMMA CleanupScanDoes ==
    ASSUME TypeOK, NEW l \in Leases, CleanupScan(l)
    PROVE  /\ cleaner[l][lease[l].attempts].pc = "abandoned"
           /\ sweep'.pc = "count" /\ sweep'.lease = l /\ sweep'.row = lease[l]
           /\ UNCHANGED <<lease, overtaken, record, guest, task, saga, cleaner, call,
                          lapsed>>
BY Types DEF CleanupScan, OnlySweep, rows, Scan

LEMMA CleanupCountDoes ==
    ASSUME TypeOK, NEW l \in Leases, CleanupCount(l)
    PROVE  /\ sweep.pc = "count" /\ sweep.lease = l /\ sweep'.pc = "idle"
           /\ \/ lease' = lease
              \/ /\ lease[l].state = "releasing" /\ lease[l].attempts = sweep.row.attempts
                 /\ lease'[l].state \in {"releasing", "cleanup_failed"}
                 /\ lease'[l].attempts >= lease[l].attempts
                 /\ lease'[l].attempts <= lease[l].attempts + 1
                 /\ Same(l, lease, lease')
           /\ UNCHANGED <<overtaken, record, guest, task, saga, cleaner, call,
                          lapsed>>
BY MoveDoes, FailedRow, Types DEF CleanupCount, Swept, SweepAndLease, rows, NoSweep

LEMMA GuestScanDoes ==
    ASSUME TypeOK, NEW l \in Leases, GuestScan(l)
    PROVE  /\ sweep'.pc = "judge" /\ sweep'.seen \in Vmids
           /\ UNCHANGED <<lease, overtaken, record, guest, task, saga, cleaner, call,
                          lapsed>>
BY Types DEF GuestScan, OnlySweep, rows, Scan

LEMMA JudgeDoes ==
    ASSUME TypeOK, NEW l \in Leases, Judge(l)
    PROVE  /\ sweep.pc = "judge" /\ sweep'.pc = "idle"
           /\ UNCHANGED <<lease, overtaken, record, guest, task, saga, cleaner, call,
                          lapsed>>
BY Types DEF Judge, Swept, rows, NoSweep

LEMMA TtlPassesDoes ==
    ASSUME TypeOK, NEW l \in Leases, TtlPasses(l)
    PROVE  /\ lapsed' = lapsed \cup {l}
           /\ UNCHANGED <<lease, overtaken, record, guest, task, saga, cleaner, call,
                          sweep>>
BY Types DEF TtlPasses, rows

LEMMA CrashDoes ==
    ASSUME TypeOK, Crash
    PROVE  /\ \A l \in Leases :
                  \/ saga'[l] = saga[l]
                  \/ /\ saga[l].pc \notin {"none", "attached", "queued", "done"}
                     /\ saga'[l].pc = "done" /\ saga'[l].vmid = Nothing
           /\ \A l \in Leases, a \in Attempts :
                  \/ /\ cleaner[l][a].pc \in {"absent", "queued", "not_pooled", "done"}
                     /\ cleaner'[l][a] = cleaner[l][a]
                  \/ /\ cleaner[l][a].pc \notin {"absent", "queued", "not_pooled", "done"}
                     /\ cleaner'[l][a].pc = "abandoned" /\ ~cleaner'[l][a].sure
           /\ \A c \in Callers :
                  (call'[c] = call[c] /\ call[c].pc = "ready") \/ call'[c].pc = "done"
           /\ sweep'.pc = "idle"
           /\ UNCHANGED <<lease, overtaken, record, guest, task, lapsed>>
BY Types DEF Crash, rows, NoSaga, NoCleaner, NoSweep, Answered

-----------------------------------------------------------------------------
\* What a saga keeps to write stays a row, and its write has somewhere to go.
LEMMA SagaCopiesStep == Ground /\ [Next]_vars => SagaCopies'
<1> SUFFICES ASSUME Ground, [Next]_vars PROVE SagaCopies' OBVIOUS
<1>0. /\ TypeOK /\ CopyInv /\ SagaCopies
  BY DEF Ground, CopyInv
<1>1. CASE UNCHANGED <<saga, record>>
  BY <1>0, <1>1 DEF SagaCopies, SagaHolds
<1>2. ASSUME NEW l \in Leases, Provision(l)
      PROVE  SagaCopies'
  BY <1>0, <1>2, ProvisionDoes, RowTypes DEF Same, SagaGoes, RecordGets, SagaCopies,
         SagaHolds
<1>3. ASSUME NEW l \in Leases, QueueProvision(l)
      PROVE  SagaCopies'
  BY <1>0, <1>3, QueueProvisionDoes, RowTypes DEF Same, SagaGoes, SagaCopies,
         SagaHolds
<1>4. ASSUME NEW l \in Leases, Begin(l)
      PROVE  SagaCopies'
  BY <1>0, <1>4, BeginDoes, RowTypes DEF Same, SagaGoes, SagaCopies, SagaHolds
<1>5. ASSUME NEW l \in Leases, Reserve(l)
      PROVE  SagaCopies'
  BY <1>0, <1>5, ReserveDoes, RowTypes DEF Same, SagaGoes, RecordGets, SagaCopies,
         SagaHolds
<1>6. ASSUME NEW l \in Leases, CloneCall(l)
      PROVE  SagaCopies'
  BY <1>0, <1>6, CloneCallDoes, RowTypes DEF Same, SagaGoes, SagaCopies, SagaHolds
<1>7. ASSUME NEW l \in Leases, Mark(l)
      PROVE  SagaCopies'
  BY <1>0, <1>7, MarkDoes, RowTypes DEF Same, SagaGoes, RecordGets, SagaCopies,
         SagaHolds
<1>8. ASSUME NEW l \in Leases, BootRecord(l)
      PROVE  SagaCopies'
  BY <1>0, <1>8, BootRecordDoes, RowTypes DEF Same, SagaGoes, RecordGets,
         SagaCopies, SagaHolds
<1>9. ASSUME NEW l \in Leases, BootLease(l)
      PROVE  SagaCopies'
  BY <1>0, <1>9, BootLeaseDoes, RowTypes DEF Same, SagaGoes, SagaCopies, SagaHolds
<1>10. ASSUME NEW l \in Leases, Wait(l)
      PROVE  SagaCopies'
  BY <1>0, <1>10, WaitDoes, RowTypes DEF Same, SagaGoes, RecordGets, SagaCopies,
         SagaHolds
<1>11. ASSUME NEW l \in Leases, StrapRead(l)
      PROVE  SagaCopies'
  BY <1>0, <1>11, StrapReadDoes, RowTypes DEF Same, SagaGoes, SagaCopies, SagaHolds
<1>12. ASSUME NEW l \in Leases, StrapWrite(l)
      PROVE  SagaCopies'
  BY <1>0, <1>12, StrapWriteDoes, RowTypes DEF Same, SagaGoes, SagaCopies, SagaHolds
<1>13. ASSUME NEW l \in Leases, Strap(l)
      PROVE  SagaCopies'
  BY <1>0, <1>13, StrapDoes, RowTypes DEF Same, SagaGoes, RecordGets, SagaCopies,
         SagaHolds
<1>14. ASSUME NEW l \in Leases, Ready(l)
      PROVE  SagaCopies'
  BY <1>0, <1>14, ReadyDoes, RowTypes DEF Same, SagaGoes, RecordGets, SagaCopies,
         SagaHolds
<1>15. ASSUME NEW l \in Leases, SagaErrs(l)
      PROVE  SagaCopies'
  BY <1>0, <1>15, SagaErrsDoes, RowTypes DEF Same, SagaGoes, SagaCopies, SagaHolds
<1>16. ASSUME NEW l \in Leases, FailRecord(l)
      PROVE  SagaCopies'
  BY <1>0, <1>16, FailRecordDoes, RowTypes DEF Same, SagaGoes, RecordGets,
         SagaCopies, SagaHolds
<1>17. ASSUME NEW l \in Leases, FailWrite(l)
      PROVE  SagaCopies'
  BY <1>0, <1>17, FailWriteDoes, RowTypes DEF Same, SagaGoes, SagaCopies, SagaHolds
<1>18. ASSUME NEW l \in Leases, CompensateRead(l)
      PROVE  SagaCopies'
  BY <1>0, <1>18, CompensateReadDoes, RowTypes DEF Same, SagaGoes, SagaCopies,
         SagaHolds
<1>19. ASSUME NEW l \in Leases, CompensateWrite(l)
      PROVE  SagaCopies'
  BY <1>0, <1>19, CompensateWriteDoes, RowTypes DEF Same, SagaCopies, SagaHolds
<1>20. ASSUME NEW l \in Leases, CompensateQueue(l)
      PROVE  SagaCopies'
  BY <1>0, <1>20, CompensateQueueDoes, RowTypes DEF Same, SagaGoes, SagaCopies,
         SagaHolds
<1>21. ASSUME NEW l \in Leases, Abandon(l)
      PROVE  SagaCopies'
  BY <1>0, <1>21, AbandonDoes, RowTypes DEF Same, RecordGets, SagaCopies, SagaHolds
<1>22. CASE Crash
  BY <1>0, <1>22, CrashDoes, RowTypes DEF SagaCopies, SagaHolds
<1>23. ASSUME NEW l \in Leases, SagaStep(l)
      PROVE  SagaCopies'
  BY <1>23, <1>4, <1>5, <1>6, <1>7, <1>8, <1>9, <1>10, <1>11, <1>12, <1>13, <1>14,
     <1>15, <1>16, <1>17, <1>18, <1>19, <1>20
  DEF SagaStep
<1>24. ASSUME NEW l \in Leases, NEW a \in Attempts, CleanerStep(l, a)
      PROVE  SagaCopies'
  BY <1>24, <1>1
  DEF CleanerStep, CleanStart, CleanIdentify, CleanDelete, CleanErrs, CleanRelease,
       CleanFail, Clean, OnlyCleaner, rows, Update, CleanerAndLease
<1>25. ASSUME NEW c \in Callers, CallStep(c)
      PROVE  SagaCopies'
  BY <1>25, <1>1
  DEF CallStep, ReleaseWrite, RetryWrite, ExtendWrite, CallQueue, Update,
       CallAndLease, Move, rows, Queue
<1>26. ASSUME NEW l \in Leases, SweepStep(l)
      PROVE  SagaCopies'
  BY <1>26, <1>1, <1>21
  DEF SweepStep, ExpiryScan, ExpiryClaim, StuckRecords, StuckLeases, StuckMove,
       CleanupQueue, CleanupScan, CleanupCount, GuestScan, Judge, Scan, OnlySweep,
       rows, Swept, Move, SweepAndLease, Queue
<1> QED
  BY <1>1, <1>2, <1>3, <1>22, <1>23, <1>24, <1>25, <1>26
  DEF Next, Progress, Requests, vars, CloneLands, CloneFails, AskRelease, AskRetry,
       AskExtend, TtlPasses, rows, Asked

\* What a cleanup keeps to write stays a row.
LEMMA CleanerCopiesStep == Ground /\ [Next]_vars => CleanerCopies'
<1> SUFFICES ASSUME Ground, [Next]_vars PROVE CleanerCopies' OBVIOUS
<1>0. /\ TypeOK /\ CopyInv /\ CleanerCopies
  BY DEF Ground, CopyInv
<1>1. CASE UNCHANGED <<cleaner>>
  BY <1>0, <1>1 DEF CleanerCopies, CleanerHolds
<1>2. ASSUME NEW l \in Leases, CompensateQueue(l)
      PROVE  CleanerCopies'
  BY <1>0, <1>2, CompensateQueueDoes, RowTypes, QueueDoes, RowFields DEF CopyInv,
         SagaCopies, SagaHolds, SagaGoes, Same, CleanerCopies, CleanerHolds
<1>3. ASSUME NEW l \in Leases, NEW a \in Attempts, CleanStart(l, a)
      PROVE  CleanerCopies'
  BY <1>0, <1>3, CleanStartDoes, RowTypes DEF Same, CleanerGoes, CleanerCopies,
         CleanerHolds
<1>4. ASSUME NEW l \in Leases, NEW a \in Attempts, CleanIdentify(l, a)
      PROVE  CleanerCopies'
  BY <1>0, <1>4, CleanIdentifyDoes, RowTypes DEF Same, CleanerGoes, CleanerCopies,
         CleanerHolds
<1>5. ASSUME NEW l \in Leases, NEW a \in Attempts, CleanDelete(l, a)
      PROVE  CleanerCopies'
  BY <1>0, <1>5, CleanDeleteDoes, RowTypes DEF Same, CleanerGoes, CleanerCopies,
         CleanerHolds
<1>6. ASSUME NEW l \in Leases, NEW a \in Attempts, CleanErrs(l, a)
      PROVE  CleanerCopies'
  BY <1>0, <1>6, CleanErrsDoes, RowTypes DEF Same, CleanerGoes, CleanerCopies,
         CleanerHolds
<1>7. ASSUME NEW l \in Leases, NEW a \in Attempts, CleanRelease(l, a)
      PROVE  CleanerCopies'
  BY <1>0, <1>7, CleanReleaseDoes, RowTypes DEF Same, CleanerGoes, CleanerCopies,
         CleanerHolds
<1>8. ASSUME NEW l \in Leases, NEW a \in Attempts, CleanFail(l, a)
      PROVE  CleanerCopies'
  BY <1>0, <1>8, CleanFailDoes, RowTypes DEF Same, CleanerGoes, CleanerCopies,
         CleanerHolds
<1>9. ASSUME NEW c \in Callers, CallQueue(c)
      PROVE  CleanerCopies'
  BY <1>0, <1>9, CallQueueDoes, RowTypes, QueueDoes, RowFields DEF CopyInv,
         CallCopies, CallHolds, CallGoes, Same, CleanerCopies, CleanerHolds
<1>10. ASSUME NEW l \in Leases, CleanupQueue(l)
      PROVE  CleanerCopies'
  BY <1>0, <1>10, CleanupQueueDoes, RowTypes, QueueDoes, RowFields DEF Same,
         CleanerCopies, CleanerHolds
<1>11. CASE Crash
  BY <1>0, <1>11, CrashDoes, RowTypes DEF CleanerCopies, CleanerHolds
<1>12. ASSUME NEW l \in Leases, SagaStep(l)
      PROVE  CleanerCopies'
  BY <1>12, <1>1, <1>2
  DEF SagaStep, Begin, Reserve, CloneCall, Mark, BootRecord, BootLease, Wait,
       StrapRead, StrapWrite, Strap, Ready, SagaErrs, FailRecord, FailWrite,
       CompensateRead, CompensateWrite, At, OnlySaga, rows, SagaAndRecord, Boot,
       Reading, Update, SagaAndLease, Written, Move
<1>13. ASSUME NEW l \in Leases, NEW a \in Attempts, CleanerStep(l, a)
      PROVE  CleanerCopies'
  BY <1>13, <1>3, <1>4, <1>5, <1>6, <1>7, <1>8
  DEF CleanerStep
<1>14. ASSUME NEW c \in Callers, CallStep(c)
      PROVE  CleanerCopies'
  BY <1>14, <1>1, <1>9
  DEF CallStep, ReleaseWrite, RetryWrite, ExtendWrite, Update, CallAndLease, Move,
       rows
<1>15. ASSUME NEW l \in Leases, SweepStep(l)
      PROVE  CleanerCopies'
  BY <1>15, <1>1, <1>10
  DEF SweepStep, ExpiryScan, ExpiryClaim, StuckRecords, StuckLeases, StuckMove,
       Abandon, CleanupScan, CleanupCount, GuestScan, Judge, Scan, OnlySweep, rows,
       Swept, Move, SweepAndLease
<1> QED
  BY <1>1, <1>11, <1>12, <1>13, <1>14, <1>15
  DEF Next, Progress, Requests, vars, Provision, QueueProvision, CloneLands,
       CloneFails, AskRelease, AskRetry, AskExtend, TtlPasses, Move, rows, Asked

\* What a request keeps to write stays a row.
LEMMA CallCopiesStep == Ground /\ [Next]_vars => CallCopies'
<1> SUFFICES ASSUME Ground, [Next]_vars PROVE CallCopies' OBVIOUS
<1>0. /\ TypeOK /\ CopyInv /\ CallCopies
  BY DEF Ground, CopyInv
<1>1. CASE UNCHANGED <<call>>
  BY <1>0, <1>1 DEF CallCopies, CallHolds
<1>2. ASSUME NEW c \in Callers, NEW l \in Leases, AskRelease(c, l)
      PROVE  CallCopies'
  BY <1>0, <1>2, AskReleaseDoes, RowTypes DEF CallGoes, CallCopies, CallHolds
<1>3. ASSUME NEW c \in Callers, NEW l \in Leases, AskRetry(c, l)
      PROVE  CallCopies'
  BY <1>0, <1>3, AskRetryDoes, RowTypes DEF CallGoes, CallCopies, CallHolds
<1>4. ASSUME NEW c \in Callers, NEW l \in Leases, AskExtend(c, l)
      PROVE  CallCopies'
  BY <1>0, <1>4, AskExtendDoes, RowTypes DEF CallGoes, CallCopies, CallHolds
<1>5. ASSUME NEW c \in Callers, ReleaseWrite(c)
      PROVE  CallCopies'
  BY <1>0, <1>5, ReleaseWriteDoes, RowTypes DEF CallGoes, CallCopies, CallHolds
<1>6. ASSUME NEW c \in Callers, RetryWrite(c)
      PROVE  CallCopies'
  BY <1>0, <1>6, RetryWriteDoes, RowTypes DEF CallGoes, CallCopies, CallHolds
<1>7. ASSUME NEW c \in Callers, ExtendWrite(c)
      PROVE  CallCopies'
  BY <1>0, <1>7, ExtendWriteDoes, RowTypes DEF CallGoes, CallCopies, CallHolds
<1>8. ASSUME NEW c \in Callers, CallQueue(c)
      PROVE  CallCopies'
  BY <1>0, <1>8, CallQueueDoes, RowTypes DEF CallGoes, CallCopies, CallHolds
<1>9. CASE Crash
  BY <1>0, <1>9, CrashDoes, RowTypes DEF CallCopies, CallHolds
<1>10. ASSUME NEW l \in Leases, SagaStep(l)
      PROVE  CallCopies'
  BY <1>10, <1>1
  DEF SagaStep, Begin, Reserve, CloneCall, Mark, BootRecord, BootLease, Wait,
       StrapRead, StrapWrite, Strap, Ready, SagaErrs, FailRecord, FailWrite,
       CompensateRead, CompensateWrite, CompensateQueue, At, OnlySaga, rows,
       SagaAndRecord, Boot, Reading, Update, SagaAndLease, Written, Move, Queue
<1>11. ASSUME NEW l \in Leases, NEW a \in Attempts, CleanerStep(l, a)
      PROVE  CallCopies'
  BY <1>11, <1>1
  DEF CleanerStep, CleanStart, CleanIdentify, CleanDelete, CleanErrs, CleanRelease,
       CleanFail, Clean, OnlyCleaner, rows, Update, CleanerAndLease
<1>12. ASSUME NEW c \in Callers, CallStep(c)
      PROVE  CallCopies'
  BY <1>12, <1>5, <1>6, <1>7, <1>8
  DEF CallStep
<1>13. ASSUME NEW l \in Leases, SweepStep(l)
      PROVE  CallCopies'
  BY <1>13, <1>1
  DEF SweepStep, ExpiryScan, ExpiryClaim, StuckRecords, StuckLeases, StuckMove,
       Abandon, CleanupQueue, CleanupScan, CleanupCount, GuestScan, Judge, Scan,
       OnlySweep, rows, Swept, Move, SweepAndLease, Queue
<1> QED
  BY <1>1, <1>2, <1>3, <1>4, <1>9, <1>10, <1>11, <1>12, <1>13
  DEF Next, Progress, Requests, vars, Provision, QueueProvision, CloneLands,
       CloneFails, TtlPasses, Move, rows

\* What the sweeper keeps to write stays a row.
LEMMA SweepCopiesStep == Ground /\ [Next]_vars => SweepCopies'
<1> SUFFICES ASSUME Ground, [Next]_vars PROVE SweepCopies' OBVIOUS
<1>0. /\ TypeOK /\ CopyInv /\ SweepCopies
  BY DEF Ground, CopyInv
<1>1. CASE UNCHANGED <<sweep>>
  BY <1>0, <1>1 DEF SweepCopies, SweepHolds
<1>2. ASSUME NEW l \in Leases, ExpiryScan(l)
      PROVE  SweepCopies'
  BY <1>0, <1>2, ExpiryScanDoes, RowTypes DEF SweepCopies, SweepHolds
<1>3. ASSUME NEW l \in Leases, ExpiryClaim(l)
      PROVE  SweepCopies'
  BY <1>0, <1>3, ExpiryClaimDoes, RowTypes DEF SweepCopies, SweepHolds
<1>4. ASSUME NEW l \in Leases, StuckRecords(l)
      PROVE  SweepCopies'
  BY <1>0, <1>4, StuckRecordsDoes, RowTypes DEF SweepCopies, SweepHolds
<1>5. ASSUME NEW l \in Leases, StuckLeases(l)
      PROVE  SweepCopies'
  BY <1>0, <1>5, StuckLeasesDoes, RowTypes DEF SweepCopies, SweepHolds
<1>6. ASSUME NEW l \in Leases, StuckMove(l)
      PROVE  SweepCopies'
  BY <1>0, <1>6, StuckMoveDoes, RowTypes DEF SweepCopies, SweepHolds
<1>7. ASSUME NEW l \in Leases, CleanupScan(l)
      PROVE  SweepCopies'
  BY <1>0, <1>7, CleanupScanDoes, RowTypes DEF SweepCopies, SweepHolds
<1>8. ASSUME NEW l \in Leases, CleanupCount(l)
      PROVE  SweepCopies'
  BY <1>0, <1>8, CleanupCountDoes, RowTypes DEF SweepCopies, SweepHolds
<1>9. ASSUME NEW l \in Leases, GuestScan(l)
      PROVE  SweepCopies'
  BY <1>0, <1>9, GuestScanDoes, RowTypes DEF SweepCopies, SweepHolds
<1>10. ASSUME NEW l \in Leases, Judge(l)
      PROVE  SweepCopies'
  BY <1>0, <1>10, JudgeDoes, RowTypes DEF SweepCopies, SweepHolds
<1>11. CASE Crash
  BY <1>0, <1>11, CrashDoes, RowTypes DEF SweepCopies, SweepHolds
<1>12. ASSUME NEW l \in Leases, SagaStep(l)
      PROVE  SweepCopies'
  BY <1>12, <1>1
  DEF SagaStep, Begin, Reserve, CloneCall, Mark, BootRecord, BootLease, Wait,
       StrapRead, StrapWrite, Strap, Ready, SagaErrs, FailRecord, FailWrite,
       CompensateRead, CompensateWrite, CompensateQueue, At, OnlySaga, rows,
       SagaAndRecord, Boot, Reading, Update, SagaAndLease, Written, Move, Queue
<1>13. ASSUME NEW l \in Leases, NEW a \in Attempts, CleanerStep(l, a)
      PROVE  SweepCopies'
  BY <1>13, <1>1
  DEF CleanerStep, CleanStart, CleanIdentify, CleanDelete, CleanErrs, CleanRelease,
       CleanFail, Clean, OnlyCleaner, rows, Update, CleanerAndLease
<1>14. ASSUME NEW c \in Callers, CallStep(c)
      PROVE  SweepCopies'
  BY <1>14, <1>1
  DEF CallStep, ReleaseWrite, RetryWrite, ExtendWrite, CallQueue, Update,
       CallAndLease, Move, rows, Queue
<1>15. ASSUME NEW l \in Leases, SweepStep(l)
      PROVE  SweepCopies'
  BY <1>15, <1>1, <1>2, <1>3, <1>4, <1>5, <1>6, <1>7, <1>8, <1>9, <1>10
  DEF SweepStep, Abandon, CleanupQueue, rows, Queue
<1> QED
  BY <1>1, <1>11, <1>12, <1>13, <1>14, <1>15
  DEF Next, Progress, Requests, vars, Provision, QueueProvision, CloneLands,
       CloneFails, AskRelease, AskRetry, AskExtend, TtlPasses, Move, rows, Asked

LEMMA CopiesStep == Ground /\ [Next]_vars => CopyInv'
BY SagaCopiesStep, CleanerCopiesStep, CallCopiesStep, SweepCopiesStep DEF CopyInv

\* A saga and its record stay in step with the clone.
LEMMA SagaInvStep == IInv /\ [Next]_vars => SagaInv'
<1> SUFFICES ASSUME IInv, [Next]_vars PROVE SagaInv' OBVIOUS
<1>0. /\ TypeOK /\ CopyInv /\ SagaInv
  BY DEF IInv, CopyInv, KeyInv
<1>1. CASE UNCHANGED <<saga, record, task, guest>>
  BY <1>0, <1>1 DEF SagaInv, SagaPlace, Waiting, Cloned, Booted, Named
<1>2. ASSUME NEW l \in Leases, Provision(l)
      PROVE  SagaInv'
  <2>1. ASSUME NEW m \in Leases, m # l
        PROVE  SagaPlace(m)'
    <3>1. SagaPlace(m)
      BY <1>0 DEF SagaInv
    <3>2. /\ record'[m] = record[m] /\ saga'[m] = saga[m]
          /\ task'[m] = task[m] /\ guest' = guest
      BY <1>0, <2>1, <1>2, ProvisionDoes DEF Same, SagaGoes, RecordGets
    <3> QED
      BY <3>1, <3>2 DEF SagaPlace, Named
  <2>2. SagaPlace(l)
    BY <1>0, <1>2 DEF SagaInv
  <2>3. SagaPlace(l)'
    BY <1>0, <2>2, <1>2, ProvisionDoes, Apart, RecordTypes
       DEF SagaPlace, SagaGoes, RecordGets, Named, Waiting, Cloned, Booted, InSaga
  <2>4. \A m \in Leases : record'[m].vmid = record[m].vmid
    BY <1>0, <1>2, ProvisionDoes DEF Same, RecordGets
  <2> QED
    BY <1>0, <2>1, <2>3, <2>4, <1>2, ProvisionDoes DEF SagaInv
<1>3. ASSUME NEW l \in Leases, QueueProvision(l)
      PROVE  SagaInv'
  BY <1>0, <1>3, QueueProvisionDoes, Apart, RecordTypes, GuestTypes DEF Same,
         SagaGoes, InSaga, SagaInv, SagaPlace, Waiting, Cloned, Booted, Named
<1>4. ASSUME NEW l \in Leases, Begin(l)
      PROVE  SagaInv'
  BY <1>0, <1>4, BeginDoes, Apart, RecordTypes, GuestTypes DEF Same, SagaGoes,
         InSaga, SagaInv, SagaPlace, Waiting, Cloned, Booted, Named
<1>5. ASSUME NEW l \in Leases, Reserve(l)
      PROVE  SagaInv'
  BY <1>0, <1>5, ReserveDoes, Apart, RecordTypes, GuestTypes DEF Same, SagaGoes,
         RecordGets, InSaga, SagaInv, SagaPlace, Waiting, Cloned, Booted, Named
<1>6. ASSUME NEW l \in Leases, CloneCall(l)
      PROVE  SagaInv'
  BY <1>0, <1>6, CloneCallDoes, Apart, RecordTypes, GuestTypes DEF Same, SagaGoes,
         InSaga, SagaInv, SagaPlace, Waiting, Cloned, Booted, Named
<1>7. ASSUME NEW l \in Leases, Mark(l)
      PROVE  SagaInv'
  <2>1. ASSUME NEW m \in Leases, m # l
        PROVE  SagaPlace(m)'
    <3>1. SagaPlace(m)
      BY <1>0 DEF SagaInv
    <3>2. /\ record'[m] = record[m] /\ saga'[m] = saga[m]
          /\ task'[m] = task[m] /\ guest' = guest
      BY <1>0, <2>1, <1>7, MarkDoes DEF Same, SagaGoes, RecordGets
    <3> QED
      BY <3>1, <3>2 DEF SagaPlace, Named
  <2>2. SagaPlace(l)
    BY <1>0, <1>7 DEF SagaInv
  <2>3. SagaPlace(l)'
    <3>0. task'[l] = task[l] /\ guest' = guest /\ l \in Leases
      BY <1>0, <1>7, MarkDoes
    <3>1. CASE SagaGoes(l, "mark", "fail") /\ record' = record
      BY <3>0, <2>2, <3>1, Apart
         DEF SagaPlace, SagaGoes, RecordGets, Named, Waiting, Cloned, Booted, InSaga
    <3>2. CASE ~(SagaGoes(l, "mark", "fail") /\ record' = record)
      <4>1. /\ saga[l].pc = "mark" /\ saga'[l].pc \in {"settle", "ready", "done"}
            /\ saga'[l].vmid = saga[l].vmid /\ record[l].state # "never_ready"
            /\ record'[l].state \in InSaga \cup {"ready"} /\ record'[l].vmid = record[l].vmid
            /\ record[l].state \in InSaga \cup {"ready"}
            /\ saga[l].pc # "mark" => record'[l].upid = record[l].upid
            /\ saga[l].pc = "mark" => record'[l].state = record[l].state
        BY <1>0, <2>2, <3>2, <1>7, MarkDoes, RecordTypes
           DEF SagaGoes, RecordGets, InSaga, SagaPlace, Waiting, RecordStates
      <4>2. \/ saga[l].pc = "mark" /\ saga'[l].pc = "settle"
            \/ saga[l].pc # "mark"
        BY <1>0, <3>2, <1>7, MarkDoes DEF SagaGoes
      <4>3. CASE saga[l].pc = "mark" /\ saga'[l].pc = "settle"
        BY <3>0, <2>2, <4>1, <4>3, Apart
           DEF SagaPlace, Named, Waiting, Cloned, Booted, InSaga
      <4>4. CASE saga[l].pc # "mark"
        BY <3>0, <2>2, <4>1, <4>4, Apart
           DEF SagaPlace, Named, Waiting, Cloned, Booted, InSaga
      <4> QED
        BY <4>2, <4>3, <4>4
    <3> QED
      BY <3>1, <3>2
  <2>4. \A m \in Leases : record'[m].vmid = record[m].vmid
    BY <1>0, <1>7, MarkDoes DEF Same, RecordGets
  <2> QED
    BY <1>0, <2>1, <2>3, <2>4, <1>7, MarkDoes DEF SagaInv
<1>8. ASSUME NEW l \in Leases, BootRecord(l)
      PROVE  SagaInv'
  BY <1>0, <1>8, BootRecordDoes, Apart, RecordTypes, GuestTypes DEF Same, SagaGoes,
         RecordGets, InSaga, SagaInv, SagaPlace, Waiting, Cloned, Booted, Named
<1>9. ASSUME NEW l \in Leases, BootLease(l)
      PROVE  SagaInv'
  BY <1>0, <1>9, BootLeaseDoes, Apart, RecordTypes, GuestTypes DEF Same, SagaGoes,
         InSaga, SagaInv, SagaPlace, Waiting, Cloned, Booted, Named
<1>10. ASSUME NEW l \in Leases, Wait(l)
      PROVE  SagaInv'
  BY <1>0, <1>10, WaitDoes, Apart, RecordTypes, GuestTypes DEF Same, SagaGoes,
         RecordGets, InSaga, SagaInv, SagaPlace, Waiting, Cloned, Booted, Named
<1>11. ASSUME NEW l \in Leases, StrapRead(l)
      PROVE  SagaInv'
  BY <1>0, <1>11, StrapReadDoes, Apart, RecordTypes, GuestTypes DEF Same, SagaGoes,
         InSaga, SagaInv, SagaPlace, Waiting, Cloned, Booted, Named
<1>12. ASSUME NEW l \in Leases, StrapWrite(l)
      PROVE  SagaInv'
  BY <1>0, <1>12, StrapWriteDoes, Apart, RecordTypes, GuestTypes DEF Same, SagaGoes,
         InSaga, SagaInv, SagaPlace, Waiting, Cloned, Booted, Named
<1>13. ASSUME NEW l \in Leases, Strap(l)
      PROVE  SagaInv'
  <2>1. ASSUME NEW m \in Leases, m # l
        PROVE  SagaPlace(m)'
    <3>1. SagaPlace(m)
      BY <1>0 DEF SagaInv
    <3>2. /\ record'[m] = record[m] /\ saga'[m] = saga[m]
          /\ task'[m] = task[m] /\ guest' = guest
      BY <1>0, <2>1, <1>13, StrapDoes DEF Same, SagaGoes, RecordGets
    <3> QED
      BY <3>1, <3>2 DEF SagaPlace, Named
  <2>2. SagaPlace(l)
    BY <1>0, <1>13 DEF SagaInv
  <2>3. SagaPlace(l)'
    <3>0. task'[l] = task[l] /\ guest' = guest /\ l \in Leases
      BY <1>0, <1>13, StrapDoes
    <3>1. CASE SagaGoes(l, "strap", "fail") /\ record' = record
      BY <3>0, <2>2, <3>1, Apart
         DEF SagaPlace, SagaGoes, RecordGets, Named, Waiting, Cloned, Booted, InSaga
    <3>2. CASE ~(SagaGoes(l, "strap", "fail") /\ record' = record)
      <4>1. /\ saga[l].pc = "strap" /\ saga'[l].pc \in {"settle", "ready", "done"}
            /\ saga'[l].vmid = saga[l].vmid /\ record[l].state # "never_ready"
            /\ record'[l].state \in InSaga \cup {"ready"} /\ record'[l].vmid = record[l].vmid
            /\ record[l].state \in InSaga \cup {"ready"}
            /\ saga[l].pc # "mark" => record'[l].upid = record[l].upid
            /\ saga[l].pc = "mark" => record'[l].state = record[l].state
        BY <1>0, <2>2, <3>2, <1>13, StrapDoes, RecordTypes
           DEF SagaGoes, RecordGets, InSaga, SagaPlace, Waiting, RecordStates
      <4>2. \/ saga[l].pc = "mark" /\ saga'[l].pc = "settle"
            \/ saga[l].pc # "mark"
        BY <1>0, <3>2, <1>13, StrapDoes DEF SagaGoes
      <4>3. CASE saga[l].pc = "mark" /\ saga'[l].pc = "settle"
        BY <3>0, <2>2, <4>1, <4>3, Apart
           DEF SagaPlace, Named, Waiting, Cloned, Booted, InSaga
      <4>4. CASE saga[l].pc # "mark"
        BY <3>0, <2>2, <4>1, <4>4, Apart
           DEF SagaPlace, Named, Waiting, Cloned, Booted, InSaga
      <4> QED
        BY <4>2, <4>3, <4>4
    <3> QED
      BY <3>1, <3>2
  <2>4. \A m \in Leases : record'[m].vmid = record[m].vmid
    BY <1>0, <1>13, StrapDoes DEF Same, RecordGets
  <2> QED
    BY <1>0, <2>1, <2>3, <2>4, <1>13, StrapDoes DEF SagaInv
<1>14. ASSUME NEW l \in Leases, Ready(l)
      PROVE  SagaInv'
  <2>1. ASSUME NEW m \in Leases, m # l
        PROVE  SagaPlace(m)'
    <3>1. SagaPlace(m)
      BY <1>0 DEF SagaInv
    <3>2. /\ record'[m] = record[m] /\ saga'[m] = saga[m]
          /\ task'[m] = task[m] /\ guest' = guest
      BY <1>0, <2>1, <1>14, ReadyDoes DEF Same, SagaGoes, RecordGets
    <3> QED
      BY <3>1, <3>2 DEF SagaPlace, Named
  <2>2. SagaPlace(l)
    BY <1>0, <1>14 DEF SagaInv
  <2>3. SagaPlace(l)'
    <3>0. task'[l] = task[l] /\ guest' = guest /\ l \in Leases
      BY <1>0, <1>14, ReadyDoes
    <3>1. CASE SagaGoes(l, "ready", "fail") /\ record' = record
      BY <3>0, <2>2, <3>1, Apart
         DEF SagaPlace, SagaGoes, RecordGets, Named, Waiting, Cloned, Booted, InSaga
    <3>2. CASE ~(SagaGoes(l, "ready", "fail") /\ record' = record)
      <4>1. /\ saga[l].pc = "ready" /\ saga'[l].pc \in {"settle", "ready", "done"}
            /\ saga'[l].vmid = saga[l].vmid /\ record[l].state # "never_ready"
            /\ record'[l].state \in InSaga \cup {"ready"} /\ record'[l].vmid = record[l].vmid
            /\ record[l].state \in InSaga \cup {"ready"}
            /\ saga[l].pc # "mark" => record'[l].upid = record[l].upid
            /\ saga[l].pc = "mark" => record'[l].state = record[l].state
        BY <1>0, <2>2, <3>2, <1>14, ReadyDoes, RecordTypes
           DEF SagaGoes, RecordGets, InSaga, SagaPlace, Waiting, RecordStates
      <4>2. \/ saga[l].pc = "mark" /\ saga'[l].pc = "settle"
            \/ saga[l].pc # "mark"
        BY <1>0, <3>2, <1>14, ReadyDoes DEF SagaGoes
      <4>3. CASE saga[l].pc = "mark" /\ saga'[l].pc = "settle"
        BY <3>0, <2>2, <4>1, <4>3, Apart
           DEF SagaPlace, Named, Waiting, Cloned, Booted, InSaga
      <4>4. CASE saga[l].pc # "mark"
        BY <3>0, <2>2, <4>1, <4>4, Apart
           DEF SagaPlace, Named, Waiting, Cloned, Booted, InSaga
      <4> QED
        BY <4>2, <4>3, <4>4
    <3> QED
      BY <3>1, <3>2
  <2>4. \A m \in Leases : record'[m].vmid = record[m].vmid
    BY <1>0, <1>14, ReadyDoes DEF Same, RecordGets
  <2> QED
    BY <1>0, <2>1, <2>3, <2>4, <1>14, ReadyDoes DEF SagaInv
<1>15. ASSUME NEW l \in Leases, SagaErrs(l)
      PROVE  SagaInv'
  BY <1>0, <1>15, SagaErrsDoes, Apart, RecordTypes, GuestTypes DEF Same, SagaGoes,
         InSaga, SagaInv, SagaPlace, Waiting, Cloned, Booted, Named
<1>16. ASSUME NEW l \in Leases, FailRecord(l)
      PROVE  SagaInv'
  BY <1>0, <1>16, FailRecordDoes, Apart, RecordTypes, GuestTypes DEF Same, SagaGoes,
         RecordGets, InSaga, SagaInv, SagaPlace, Waiting, Cloned, Booted, Named
<1>17. ASSUME NEW l \in Leases, FailWrite(l)
      PROVE  SagaInv'
  BY <1>0, <1>17, FailWriteDoes, Apart, RecordTypes, GuestTypes DEF Same, SagaGoes,
         InSaga, SagaInv, SagaPlace, Waiting, Cloned, Booted, Named
<1>18. ASSUME NEW l \in Leases, CompensateRead(l)
      PROVE  SagaInv'
  BY <1>0, <1>18, CompensateReadDoes, Apart, RecordTypes, GuestTypes DEF Same,
         SagaGoes, InSaga, SagaInv, SagaPlace, Waiting, Cloned, Booted, Named
<1>19. ASSUME NEW l \in Leases, CompensateWrite(l)
      PROVE  SagaInv'
  BY <1>0, <1>19, CompensateWriteDoes, Apart, RecordTypes, GuestTypes DEF Same,
         InSaga, SagaInv, SagaPlace, Waiting, Cloned, Booted, Named
<1>20. ASSUME NEW l \in Leases, CompensateQueue(l)
      PROVE  SagaInv'
  BY <1>0, <1>20, CompensateQueueDoes, Apart, RecordTypes, GuestTypes DEF Same,
         SagaGoes, InSaga, SagaInv, SagaPlace, Waiting, Cloned, Booted, Named
<1>21. ASSUME NEW l \in Leases, CloneLands(l)
      PROVE  SagaInv'
  BY <1>0, <1>21, CloneLandsDoes, Apart, RecordTypes, GuestTypes DEF Same, InSaga,
         SagaInv, SagaPlace, Waiting, Cloned, Booted, Named
<1>22. ASSUME NEW l \in Leases, CloneFails(l)
      PROVE  SagaInv'
  BY <1>0, <1>22, CloneFailsDoes, Apart, RecordTypes, GuestTypes DEF Same, InSaga,
         SagaInv, SagaPlace, Waiting, Cloned, Booted, Named
<1>23. ASSUME NEW l \in Leases, NEW a \in Attempts, CleanDelete(l, a)
      PROVE  SagaInv'
  <2>1. /\ \A v \in Vmids : guest'[v] = guest[v] \/ guest'[v] = Nothing
        /\ UNCHANGED <<saga, record, task>>
    BY <1>0, <1>23, CleanDeleteDoes
  <2>2. \A m \in Leases : SagaPlace(m)'
    BY <1>0, <2>1, Apart DEF SagaInv, SagaPlace, Named
  <2>3. Nothing # Stranger
    BY BoundsAssumption
  <2> QED
    BY <1>0, <2>1, <2>2, <2>3, Apart DEF SagaInv
<1>24. ASSUME NEW l \in Leases, Abandon(l)
      PROVE  SagaInv'
  BY <1>0, <1>24, AbandonDoes, Apart, RecordTypes, GuestTypes DEF Same, RecordGets,
         InSaga, SagaInv, SagaPlace, Waiting, Cloned, Booted, Named
<1>25. CASE Crash
  BY <1>0, <1>25, CrashDoes, Apart, RecordTypes, GuestTypes DEF InSaga, SagaInv,
         SagaPlace, Waiting, Cloned, Booted, Named
<1>26. ASSUME NEW l \in Leases, SagaStep(l)
      PROVE  SagaInv'
  BY <1>26, <1>4, <1>5, <1>6, <1>7, <1>8, <1>9, <1>10, <1>11, <1>12, <1>13, <1>14,
     <1>15, <1>16, <1>17, <1>18, <1>19, <1>20
  DEF SagaStep
<1>27. ASSUME NEW l \in Leases, NEW a \in Attempts, CleanerStep(l, a)
      PROVE  SagaInv'
  BY <1>27, <1>1, <1>23
  DEF CleanerStep, CleanStart, CleanIdentify, CleanErrs, CleanRelease, CleanFail,
       Clean, OnlyCleaner, rows, Update, CleanerAndLease
<1>28. ASSUME NEW c \in Callers, CallStep(c)
      PROVE  SagaInv'
  BY <1>28, <1>1
  DEF CallStep, ReleaseWrite, RetryWrite, ExtendWrite, CallQueue, Update,
       CallAndLease, Move, rows, Queue
<1>29. ASSUME NEW l \in Leases, SweepStep(l)
      PROVE  SagaInv'
  BY <1>29, <1>1, <1>24
  DEF SweepStep, ExpiryScan, ExpiryClaim, StuckRecords, StuckLeases, StuckMove,
       CleanupQueue, CleanupScan, CleanupCount, GuestScan, Judge, Scan, OnlySweep,
       rows, Swept, Move, SweepAndLease, Queue
<1> QED
  BY <1>1, <1>2, <1>3, <1>21, <1>22, <1>25, <1>26, <1>27, <1>28, <1>29
  DEF Next, Progress, Requests, vars, AskRelease, AskRetry, AskExtend, TtlPasses,
       Asked, rows

\* A ready lease keeps its ready record.
LEMMA ReadyStep == Ground /\ ReadyInv /\ [Next]_vars => ReadyInv'
<1> SUFFICES ASSUME Ground, ReadyInv, [Next]_vars PROVE ReadyInv' OBVIOUS
<1>0. /\ TypeOK /\ CopyInv /\ ReadyInv
  BY DEF Ground, CopyInv
<1>1. CASE UNCHANGED <<lease, record, saga>>
  BY <1>0, <1>1 DEF ReadyInv
<1>2. ASSUME NEW l \in Leases, Provision(l)
      PROVE  ReadyInv'
  <2>1. ASSUME NEW m \in Leases
        PROVE  /\ lease'[m].state = "ready" => record'[m].state = "ready" /\ lease'[m].link
               /\ record'[m].state = "ready" => saga'[m].pc = "done"
    <3>1. CASE m = l
      BY <1>0, <1>2, <3>1, ProvisionDoes DEF ReadyInv, SagaGoes, RecordGets,
         LeaseState
    <3>2. CASE m # l
      <4>1. lease'[m] = lease[m] /\ record'[m] = record[m] /\ saga'[m] = saga[m]
        BY <3>2, <1>0, <1>2, ProvisionDoes DEF Same, SagaGoes, RecordGets, LeaseState
      <4> QED
        BY <1>0, <4>1 DEF ReadyInv
    <3> QED
      BY <3>1, <3>2
  <2> QED
    BY <2>1 DEF ReadyInv
<1>3. ASSUME NEW l \in Leases, QueueProvision(l)
      PROVE  ReadyInv'
  BY <1>0, <1>3, QueueProvisionDoes DEF Same, SagaGoes, InSaga, ReadyInv
<1>4. ASSUME NEW l \in Leases, Begin(l)
      PROVE  ReadyInv'
  BY <1>0, <1>4, BeginDoes DEF Same, SagaGoes, InSaga, ReadyInv
<1>5. ASSUME NEW l \in Leases, Reserve(l)
      PROVE  ReadyInv'
  BY <1>0, <1>5, ReserveDoes DEF Same, SagaGoes, RecordGets, InSaga, ReadyInv
<1>6. ASSUME NEW l \in Leases, CloneCall(l)
      PROVE  ReadyInv'
  BY <1>0, <1>6, CloneCallDoes DEF Same, SagaGoes, InSaga, ReadyInv
<1>7. ASSUME NEW l \in Leases, Mark(l)
      PROVE  ReadyInv'
  <2>1. ASSUME NEW m \in Leases
        PROVE  /\ lease'[m].state = "ready" => record'[m].state = "ready" /\ lease'[m].link
               /\ record'[m].state = "ready" => saga'[m].pc = "done"
    <3>1. CASE m = l
      BY <1>0, <1>7, <3>1, MarkDoes DEF ReadyInv, SagaGoes, RecordGets, LeaseState
    <3>2. CASE m # l
      <4>1. lease'[m] = lease[m] /\ record'[m] = record[m] /\ saga'[m] = saga[m]
        BY <3>2, <1>0, <1>7, MarkDoes DEF Same, SagaGoes, RecordGets, LeaseState
      <4> QED
        BY <1>0, <4>1 DEF ReadyInv
    <3> QED
      BY <3>1, <3>2
  <2> QED
    BY <2>1 DEF ReadyInv
<1>8. ASSUME NEW l \in Leases, BootRecord(l)
      PROVE  ReadyInv'
  BY <1>0, <1>8, BootRecordDoes DEF Same, SagaGoes, RecordGets, InSaga, ReadyInv
<1>9. ASSUME NEW l \in Leases, BootLease(l)
      PROVE  ReadyInv'
  BY <1>0, <1>9, BootLeaseDoes DEF Same, SagaGoes, LeaseGets, InSaga, ReadyInv
<1>10. ASSUME NEW l \in Leases, Wait(l)
      PROVE  ReadyInv'
  BY <1>0, <1>10, WaitDoes DEF Same, SagaGoes, RecordGets, InSaga, ReadyInv
<1>11. ASSUME NEW l \in Leases, StrapRead(l)
      PROVE  ReadyInv'
  BY <1>0, <1>11, StrapReadDoes DEF Same, SagaGoes, InSaga, ReadyInv
<1>12. ASSUME NEW l \in Leases, StrapWrite(l)
      PROVE  ReadyInv'
  BY <1>0, <1>12, StrapWriteDoes DEF Same, SagaGoes, LeaseGets, InSaga, ReadyInv
<1>13. ASSUME NEW l \in Leases, Strap(l)
      PROVE  ReadyInv'
  BY <1>0, <1>13, StrapDoes DEF Same, SagaGoes, RecordGets, InSaga, ReadyInv
<1>14. ASSUME NEW l \in Leases, Ready(l)
      PROVE  ReadyInv'
  BY <1>0, <1>14, ReadyDoes DEF Same, SagaGoes, RecordGets, InSaga, ReadyInv
<1>15. ASSUME NEW l \in Leases, SagaErrs(l)
      PROVE  ReadyInv'
  BY <1>0, <1>15, SagaErrsDoes DEF Same, SagaGoes, InSaga, ReadyInv
<1>16. ASSUME NEW l \in Leases, FailRecord(l)
      PROVE  ReadyInv'
  BY <1>0, <1>16, FailRecordDoes DEF Same, SagaGoes, RecordGets, InSaga, ReadyInv
<1>17. ASSUME NEW l \in Leases, FailWrite(l)
      PROVE  ReadyInv'
  BY <1>0, <1>17, FailWriteDoes DEF Same, SagaGoes, LeaseGets, InSaga, ReadyInv
<1>18. ASSUME NEW l \in Leases, CompensateRead(l)
      PROVE  ReadyInv'
  BY <1>0, <1>18, CompensateReadDoes DEF Same, SagaGoes, InSaga, ReadyInv
<1>19. ASSUME NEW l \in Leases, CompensateWrite(l)
      PROVE  ReadyInv'
  BY <1>0, <1>19, CompensateWriteDoes DEF Same, LeaseGets, InSaga, ReadyInv
<1>20. ASSUME NEW l \in Leases, CompensateQueue(l)
      PROVE  ReadyInv'
  BY <1>0, <1>20, CompensateQueueDoes DEF Same, SagaGoes, InSaga, ReadyInv
<1>21. ASSUME NEW l \in Leases, NEW a \in Attempts, CleanRelease(l, a)
      PROVE  ReadyInv'
  BY <1>0, <1>21, CleanReleaseDoes DEF Same, LeaseGets, InSaga, ReadyInv
<1>22. ASSUME NEW l \in Leases, NEW a \in Attempts, CleanFail(l, a)
      PROVE  ReadyInv'
  BY <1>0, <1>22, CleanFailDoes DEF Same, InSaga, ReadyInv
<1>23. ASSUME NEW c \in Callers, ReleaseWrite(c)
      PROVE  ReadyInv'
  BY <1>0, <1>23, ReleaseWriteDoes DEF Same, LeaseGets, InSaga, ReadyInv
<1>24. ASSUME NEW c \in Callers, RetryWrite(c)
      PROVE  ReadyInv'
  BY <1>0, <1>24, RetryWriteDoes DEF Same, LeaseState, InSaga, ReadyInv
<1>25. ASSUME NEW c \in Callers, ExtendWrite(c)
      PROVE  ReadyInv'
  BY <1>0, <1>25, ExtendWriteDoes DEF Same, InSaga, ReadyInv
<1>26. ASSUME NEW l \in Leases, ExpiryClaim(l)
      PROVE  ReadyInv'
  BY <1>0, <1>26, ExpiryClaimDoes DEF Same, LeaseState, InSaga, ReadyInv
<1>27. ASSUME NEW l \in Leases, StuckMove(l)
      PROVE  ReadyInv'
  BY <1>0, <1>27, StuckMoveDoes DEF CopyInv, SweepCopies, Same, LeaseState, InSaga,
         ReadyInv
<1>28. ASSUME NEW l \in Leases, Abandon(l)
      PROVE  ReadyInv'
  BY <1>0, <1>28, AbandonDoes DEF Same, RecordGets, InSaga, ReadyInv
<1>29. ASSUME NEW l \in Leases, CleanupCount(l)
      PROVE  ReadyInv'
  BY <1>0, <1>29, CleanupCountDoes DEF Same, InSaga, ReadyInv
<1>30. CASE Crash
  BY <1>0, <1>30, CrashDoes DEF InSaga, ReadyInv
<1>31. ASSUME NEW l \in Leases, SagaStep(l)
      PROVE  ReadyInv'
  BY <1>31, <1>4, <1>5, <1>6, <1>7, <1>8, <1>9, <1>10, <1>11, <1>12, <1>13, <1>14,
     <1>15, <1>16, <1>17, <1>18, <1>19, <1>20
  DEF SagaStep
<1>32. ASSUME NEW l \in Leases, NEW a \in Attempts, CleanerStep(l, a)
      PROVE  ReadyInv'
  BY <1>32, <1>1, <1>21, <1>22
  DEF CleanerStep, CleanStart, CleanIdentify, CleanDelete, CleanErrs, Clean,
       OnlyCleaner, rows
<1>33. ASSUME NEW c \in Callers, CallStep(c)
      PROVE  ReadyInv'
  BY <1>33, <1>1, <1>23, <1>24, <1>25
  DEF CallStep, CallQueue, Queue, rows
<1>34. ASSUME NEW l \in Leases, SweepStep(l)
      PROVE  ReadyInv'
  BY <1>34, <1>1, <1>26, <1>27, <1>28, <1>29
  DEF SweepStep, ExpiryScan, StuckRecords, StuckLeases, CleanupQueue, CleanupScan,
       GuestScan, Judge, Scan, OnlySweep, rows, Queue, Swept
<1> QED
  BY <1>1, <1>2, <1>3, <1>30, <1>31, <1>32, <1>33, <1>34
  DEF Next, Progress, Requests, vars, CloneLands, CloneFails, AskRelease, AskRetry,
       AskExtend, TtlPasses, rows, Asked

\* A saga's copy counts no further than the row it was taken from.
LEMMA SagaUpToStep ==
    ASSUME NEW k \in Leases, NEW h \in Attempts, Last(k, h), IInv, [Next]_vars
    PROVE  SagaUpTo(k, h)'
<1>0. /\ TypeOK /\ CopyInv /\ SagaInv /\ KeyInv
  BY DEF IInv, CopyInv, KeyInv
<1>1. CASE UNCHANGED <<saga>>
  BY <1>0, <1>1 DEF Last, SagaUpTo, SagaHolds
<1>2. ASSUME NEW l \in Leases, Provision(l)
      PROVE  SagaUpTo(k, h)'
  BY <1>0, <1>2, ProvisionDoes DEF SagaGoes, Same, Last, SagaUpTo, SagaHolds
<1>3. ASSUME NEW l \in Leases, QueueProvision(l)
      PROVE  SagaUpTo(k, h)'
  BY <1>0, <1>3, QueueProvisionDoes DEF SagaGoes, Same, Last, SagaUpTo, SagaHolds
<1>4. ASSUME NEW l \in Leases, Begin(l)
      PROVE  SagaUpTo(k, h)'
  BY <1>0, <1>4, BeginDoes DEF SagaGoes, Same, Last, SagaUpTo, SagaHolds
<1>5. ASSUME NEW l \in Leases, Reserve(l)
      PROVE  SagaUpTo(k, h)'
  BY <1>0, <1>5, ReserveDoes DEF SagaGoes, Same, Last, SagaUpTo, SagaHolds
<1>6. ASSUME NEW l \in Leases, CloneCall(l)
      PROVE  SagaUpTo(k, h)'
  BY <1>0, <1>6, CloneCallDoes DEF SagaGoes, Same, Last, SagaUpTo, SagaHolds
<1>7. ASSUME NEW l \in Leases, Mark(l)
      PROVE  SagaUpTo(k, h)'
  BY <1>0, <1>7, MarkDoes DEF SagaGoes, Same, Last, SagaUpTo, SagaHolds
<1>8. ASSUME NEW l \in Leases, BootRecord(l)
      PROVE  SagaUpTo(k, h)'
  BY <1>0, <1>8, BootRecordDoes DEF SagaGoes, Same, Last, SagaUpTo, SagaHolds
<1>9. ASSUME NEW l \in Leases, BootLease(l)
      PROVE  SagaUpTo(k, h)'
  BY <1>0, <1>9, BootLeaseDoes DEF SagaGoes, Same, Last, SagaUpTo, SagaHolds
<1>10. ASSUME NEW l \in Leases, Wait(l)
      PROVE  SagaUpTo(k, h)'
  BY <1>0, <1>10, WaitDoes DEF SagaGoes, Same, Last, SagaUpTo, SagaHolds
<1>11. ASSUME NEW l \in Leases, StrapRead(l)
      PROVE  SagaUpTo(k, h)'
  BY <1>0, <1>11, StrapReadDoes DEF SagaGoes, Same, Last, SagaUpTo, SagaHolds
<1>12. ASSUME NEW l \in Leases, StrapWrite(l)
      PROVE  SagaUpTo(k, h)'
  BY <1>0, <1>12, StrapWriteDoes DEF SagaGoes, Same, Last, SagaUpTo, SagaHolds
<1>13. ASSUME NEW l \in Leases, Strap(l)
      PROVE  SagaUpTo(k, h)'
  BY <1>0, <1>13, StrapDoes DEF SagaGoes, Same, Last, SagaUpTo, SagaHolds
<1>14. ASSUME NEW l \in Leases, Ready(l)
      PROVE  SagaUpTo(k, h)'
  BY <1>0, <1>14, ReadyDoes DEF SagaGoes, Same, Last, SagaUpTo, SagaHolds
<1>15. ASSUME NEW l \in Leases, SagaErrs(l)
      PROVE  SagaUpTo(k, h)'
  BY <1>0, <1>15, SagaErrsDoes DEF SagaGoes, Same, Last, SagaUpTo, SagaHolds
<1>16. ASSUME NEW l \in Leases, FailRecord(l)
      PROVE  SagaUpTo(k, h)'
  BY <1>0, <1>16, FailRecordDoes DEF SagaGoes, Same, Last, SagaUpTo, SagaHolds
<1>17. ASSUME NEW l \in Leases, FailWrite(l)
      PROVE  SagaUpTo(k, h)'
  BY <1>0, <1>17, FailWriteDoes DEF SagaGoes, Same, Last, SagaUpTo, SagaHolds
<1>18. ASSUME NEW l \in Leases, CompensateRead(l)
      PROVE  SagaUpTo(k, h)'
  BY <1>0, <1>18, CompensateReadDoes DEF SagaGoes, Same, Last, SagaUpTo, SagaHolds
<1>19. ASSUME NEW l \in Leases, CompensateWrite(l)
      PROVE  SagaUpTo(k, h)'
  BY <1>0, <1>19, CompensateWriteDoes DEF Same, Last, SagaUpTo, SagaHolds
<1>20. ASSUME NEW l \in Leases, CompensateQueue(l)
      PROVE  SagaUpTo(k, h)'
  BY <1>0, <1>20, CompensateQueueDoes DEF SagaGoes, Same, Last, SagaUpTo, SagaHolds
<1>21. CASE Crash
  BY <1>0, <1>21, CrashDoes DEF Last, SagaUpTo, SagaHolds
<1>22. ASSUME NEW l \in Leases, SagaStep(l)
      PROVE  SagaUpTo(k, h)'
  BY <1>22, <1>4, <1>5, <1>6, <1>7, <1>8, <1>9, <1>10, <1>11, <1>12, <1>13, <1>14,
     <1>15, <1>16, <1>17, <1>18, <1>19, <1>20
  DEF SagaStep
<1>23. ASSUME NEW l \in Leases, NEW a \in Attempts, CleanerStep(l, a)
      PROVE  SagaUpTo(k, h)'
  BY <1>23, <1>1
  DEF CleanerStep, CleanStart, CleanIdentify, CleanDelete, CleanErrs, CleanRelease,
       CleanFail, Clean, OnlyCleaner, rows, Update, CleanerAndLease
<1>24. ASSUME NEW c \in Callers, CallStep(c)
      PROVE  SagaUpTo(k, h)'
  BY <1>24, <1>1
  DEF CallStep, ReleaseWrite, RetryWrite, ExtendWrite, CallQueue, Update,
       CallAndLease, Move, rows, Queue
<1>25. ASSUME NEW l \in Leases, SweepStep(l)
      PROVE  SagaUpTo(k, h)'
  BY <1>25, <1>1
  DEF SweepStep, ExpiryScan, ExpiryClaim, StuckRecords, StuckLeases, StuckMove,
       Abandon, CleanupQueue, CleanupScan, CleanupCount, GuestScan, Judge, Scan,
       OnlySweep, rows, Swept, Move, SweepAndLease, Queue
<1> QED
  BY <1>1, <1>2, <1>3, <1>21, <1>22, <1>23, <1>24, <1>25
  DEF Next, Progress, Requests, vars, CloneLands, CloneFails, AskRelease, AskRetry,
       AskExtend, TtlPasses, rows, Asked

\* Nor does the copy of a cleanup.
LEMMA CleanerUpToStep ==
    ASSUME NEW k \in Leases, NEW h \in Attempts, Last(k, h), IInv, [Next]_vars
    PROVE  CleanerUpTo(k, h)'
<1>0. /\ TypeOK /\ CopyInv /\ SagaInv /\ KeyInv
  BY DEF IInv, CopyInv, KeyInv
<1>1. CASE UNCHANGED <<cleaner>>
  BY <1>0, <1>1 DEF Last, CleanerUpTo, CleanerHolds
<1>2. ASSUME NEW l \in Leases, CompensateQueue(l)
      PROVE  CleanerUpTo(k, h)'
  BY <1>0, <1>2, CompensateQueueDoes, QueueDoes, RowFields DEF CopyInv, SagaCopies,
         SagaHolds, SagaGoes, Same, Last, CleanerUpTo, CleanerHolds
<1>3. ASSUME NEW l \in Leases, NEW a \in Attempts, CleanStart(l, a)
      PROVE  CleanerUpTo(k, h)'
  BY <1>0, <1>3, CleanStartDoes DEF CleanerGoes, Same, Last, CleanerUpTo,
         CleanerHolds
<1>4. ASSUME NEW l \in Leases, NEW a \in Attempts, CleanIdentify(l, a)
      PROVE  CleanerUpTo(k, h)'
  BY <1>0, <1>4, CleanIdentifyDoes DEF CleanerGoes, Same, Last, CleanerUpTo,
         CleanerHolds
<1>5. ASSUME NEW l \in Leases, NEW a \in Attempts, CleanDelete(l, a)
      PROVE  CleanerUpTo(k, h)'
  BY <1>0, <1>5, CleanDeleteDoes DEF CleanerGoes, Same, Last, CleanerUpTo,
         CleanerHolds
<1>6. ASSUME NEW l \in Leases, NEW a \in Attempts, CleanErrs(l, a)
      PROVE  CleanerUpTo(k, h)'
  BY <1>0, <1>6, CleanErrsDoes DEF CleanerGoes, Same, Last, CleanerUpTo,
         CleanerHolds
<1>7. ASSUME NEW l \in Leases, NEW a \in Attempts, CleanRelease(l, a)
      PROVE  CleanerUpTo(k, h)'
  BY <1>0, <1>7, CleanReleaseDoes DEF CleanerGoes, Same, Last, CleanerUpTo,
         CleanerHolds
<1>8. ASSUME NEW l \in Leases, NEW a \in Attempts, CleanFail(l, a)
      PROVE  CleanerUpTo(k, h)'
  BY <1>0, <1>8, CleanFailDoes DEF CleanerGoes, Same, Last, CleanerUpTo,
         CleanerHolds
<1>9. ASSUME NEW c \in Callers, CallQueue(c)
      PROVE  CleanerUpTo(k, h)'
  BY <1>0, <1>9, CallQueueDoes, QueueDoes, RowFields DEF CopyInv, CallCopies,
         CallHolds, CallGoes, Same, Last, CleanerUpTo, CleanerHolds
<1>10. ASSUME NEW l \in Leases, CleanupQueue(l)
      PROVE  CleanerUpTo(k, h)'
  BY <1>0, <1>10, CleanupQueueDoes, QueueDoes, RowFields, RowTypes DEF Same, Last,
         CleanerUpTo, CleanerHolds
<1>11. CASE Crash
  BY <1>0, <1>11, CrashDoes DEF Last, CleanerUpTo, CleanerHolds
<1>12. ASSUME NEW l \in Leases, SagaStep(l)
      PROVE  CleanerUpTo(k, h)'
  BY <1>12, <1>1, <1>2
  DEF SagaStep, Begin, Reserve, CloneCall, Mark, BootRecord, BootLease, Wait,
       StrapRead, StrapWrite, Strap, Ready, SagaErrs, FailRecord, FailWrite,
       CompensateRead, CompensateWrite, At, OnlySaga, rows, SagaAndRecord, Boot,
       Reading, Update, SagaAndLease, Written, Move
<1>13. ASSUME NEW l \in Leases, NEW a \in Attempts, CleanerStep(l, a)
      PROVE  CleanerUpTo(k, h)'
  BY <1>13, <1>3, <1>4, <1>5, <1>6, <1>7, <1>8
  DEF CleanerStep
<1>14. ASSUME NEW c \in Callers, CallStep(c)
      PROVE  CleanerUpTo(k, h)'
  BY <1>14, <1>1, <1>9
  DEF CallStep, ReleaseWrite, RetryWrite, ExtendWrite, Update, CallAndLease, Move,
       rows
<1>15. ASSUME NEW l \in Leases, SweepStep(l)
      PROVE  CleanerUpTo(k, h)'
  BY <1>15, <1>1, <1>10
  DEF SweepStep, ExpiryScan, ExpiryClaim, StuckRecords, StuckLeases, StuckMove,
       Abandon, CleanupScan, CleanupCount, GuestScan, Judge, Scan, OnlySweep, rows,
       Swept, Move, SweepAndLease
<1> QED
  BY <1>1, <1>11, <1>12, <1>13, <1>14, <1>15
  DEF Next, Progress, Requests, vars, Provision, QueueProvision, CloneLands,
       CloneFails, AskRelease, AskRetry, AskExtend, TtlPasses, Move, rows, Asked

\* Nor does the copy of a request.
LEMMA CallUpToStep ==
    ASSUME NEW k \in Leases, NEW h \in Attempts, Last(k, h), IInv, [Next]_vars
    PROVE  CallUpTo(k, h)'
<1>0. /\ TypeOK /\ CopyInv /\ SagaInv /\ KeyInv
  BY DEF IInv, CopyInv, KeyInv
<1>1. CASE UNCHANGED <<call>>
  BY <1>0, <1>1 DEF Last, CallUpTo, CallHolds
<1>2. ASSUME NEW c \in Callers, NEW l \in Leases, AskRelease(c, l)
      PROVE  CallUpTo(k, h)'
  BY <1>0, <1>2, AskReleaseDoes DEF CallGoes, Last, CallUpTo, CallHolds
<1>3. ASSUME NEW c \in Callers, NEW l \in Leases, AskRetry(c, l)
      PROVE  CallUpTo(k, h)'
  BY <1>0, <1>3, AskRetryDoes DEF CallGoes, Last, CallUpTo, CallHolds
<1>4. ASSUME NEW c \in Callers, NEW l \in Leases, AskExtend(c, l)
      PROVE  CallUpTo(k, h)'
  BY <1>0, <1>4, AskExtendDoes DEF CallGoes, Last, CallUpTo, CallHolds
<1>5. ASSUME NEW c \in Callers, ReleaseWrite(c)
      PROVE  CallUpTo(k, h)'
  BY <1>0, <1>5, ReleaseWriteDoes DEF CallGoes, Last, CallUpTo, CallHolds
<1>6. ASSUME NEW c \in Callers, RetryWrite(c)
      PROVE  CallUpTo(k, h)'
  BY <1>0, <1>6, RetryWriteDoes DEF CallGoes, Last, CallUpTo, CallHolds
<1>7. ASSUME NEW c \in Callers, ExtendWrite(c)
      PROVE  CallUpTo(k, h)'
  BY <1>0, <1>7, ExtendWriteDoes DEF CallGoes, Last, CallUpTo, CallHolds
<1>8. ASSUME NEW c \in Callers, CallQueue(c)
      PROVE  CallUpTo(k, h)'
  BY <1>0, <1>8, CallQueueDoes DEF CallGoes, Last, CallUpTo, CallHolds
<1>9. CASE Crash
  BY <1>0, <1>9, CrashDoes DEF Last, CallUpTo, CallHolds
<1>10. ASSUME NEW l \in Leases, SagaStep(l)
      PROVE  CallUpTo(k, h)'
  BY <1>10, <1>1
  DEF SagaStep, Begin, Reserve, CloneCall, Mark, BootRecord, BootLease, Wait,
       StrapRead, StrapWrite, Strap, Ready, SagaErrs, FailRecord, FailWrite,
       CompensateRead, CompensateWrite, CompensateQueue, At, OnlySaga, rows,
       SagaAndRecord, Boot, Reading, Update, SagaAndLease, Written, Move, Queue
<1>11. ASSUME NEW l \in Leases, NEW a \in Attempts, CleanerStep(l, a)
      PROVE  CallUpTo(k, h)'
  BY <1>11, <1>1
  DEF CleanerStep, CleanStart, CleanIdentify, CleanDelete, CleanErrs, CleanRelease,
       CleanFail, Clean, OnlyCleaner, rows, Update, CleanerAndLease
<1>12. ASSUME NEW c \in Callers, CallStep(c)
      PROVE  CallUpTo(k, h)'
  BY <1>12, <1>5, <1>6, <1>7, <1>8
  DEF CallStep
<1>13. ASSUME NEW l \in Leases, SweepStep(l)
      PROVE  CallUpTo(k, h)'
  BY <1>13, <1>1
  DEF SweepStep, ExpiryScan, ExpiryClaim, StuckRecords, StuckLeases, StuckMove,
       Abandon, CleanupQueue, CleanupScan, CleanupCount, GuestScan, Judge, Scan,
       OnlySweep, rows, Swept, Move, SweepAndLease, Queue
<1> QED
  BY <1>1, <1>2, <1>3, <1>4, <1>9, <1>10, <1>11, <1>12, <1>13
  DEF Next, Progress, Requests, vars, Provision, QueueProvision, CloneLands,
       CloneFails, TtlPasses, Move, rows

\* Nor does the copy of the sweeper.
LEMMA SweepUpToStep ==
    ASSUME NEW k \in Leases, NEW h \in Attempts, Last(k, h), IInv, [Next]_vars
    PROVE  SweepUpTo(k, h)'
<1>0. /\ TypeOK /\ CopyInv /\ SagaInv /\ KeyInv
  BY DEF IInv, CopyInv, KeyInv
<1>1. CASE UNCHANGED <<sweep>>
  BY <1>0, <1>1 DEF Last, SweepUpTo, SweepHolds
<1>2. ASSUME NEW l \in Leases, ExpiryScan(l)
      PROVE  SweepUpTo(k, h)'
  BY <1>0, <1>2, ExpiryScanDoes DEF Last, SweepUpTo, SweepHolds
<1>3. ASSUME NEW l \in Leases, ExpiryClaim(l)
      PROVE  SweepUpTo(k, h)'
  BY <1>0, <1>3, ExpiryClaimDoes DEF Last, SweepUpTo, SweepHolds
<1>4. ASSUME NEW l \in Leases, StuckRecords(l)
      PROVE  SweepUpTo(k, h)'
  BY <1>0, <1>4, StuckRecordsDoes DEF Last, SweepUpTo, SweepHolds
<1>5. ASSUME NEW l \in Leases, StuckLeases(l)
      PROVE  SweepUpTo(k, h)'
  BY <1>0, <1>5, StuckLeasesDoes DEF Last, SweepUpTo, SweepHolds
<1>6. ASSUME NEW l \in Leases, StuckMove(l)
      PROVE  SweepUpTo(k, h)'
  BY <1>0, <1>6, StuckMoveDoes DEF Last, SweepUpTo, SweepHolds
<1>7. ASSUME NEW l \in Leases, CleanupScan(l)
      PROVE  SweepUpTo(k, h)'
  BY <1>0, <1>7, CleanupScanDoes DEF Last, SweepUpTo, SweepHolds
<1>8. ASSUME NEW l \in Leases, CleanupCount(l)
      PROVE  SweepUpTo(k, h)'
  BY <1>0, <1>8, CleanupCountDoes DEF Last, SweepUpTo, SweepHolds
<1>9. ASSUME NEW l \in Leases, GuestScan(l)
      PROVE  SweepUpTo(k, h)'
  BY <1>0, <1>9, GuestScanDoes DEF Last, SweepUpTo, SweepHolds
<1>10. ASSUME NEW l \in Leases, Judge(l)
      PROVE  SweepUpTo(k, h)'
  BY <1>0, <1>10, JudgeDoes DEF Last, SweepUpTo, SweepHolds
<1>11. CASE Crash
  BY <1>0, <1>11, CrashDoes DEF Last, SweepUpTo, SweepHolds
<1>12. ASSUME NEW l \in Leases, SagaStep(l)
      PROVE  SweepUpTo(k, h)'
  BY <1>12, <1>1
  DEF SagaStep, Begin, Reserve, CloneCall, Mark, BootRecord, BootLease, Wait,
       StrapRead, StrapWrite, Strap, Ready, SagaErrs, FailRecord, FailWrite,
       CompensateRead, CompensateWrite, CompensateQueue, At, OnlySaga, rows,
       SagaAndRecord, Boot, Reading, Update, SagaAndLease, Written, Move, Queue
<1>13. ASSUME NEW l \in Leases, NEW a \in Attempts, CleanerStep(l, a)
      PROVE  SweepUpTo(k, h)'
  BY <1>13, <1>1
  DEF CleanerStep, CleanStart, CleanIdentify, CleanDelete, CleanErrs, CleanRelease,
       CleanFail, Clean, OnlyCleaner, rows, Update, CleanerAndLease
<1>14. ASSUME NEW c \in Callers, CallStep(c)
      PROVE  SweepUpTo(k, h)'
  BY <1>14, <1>1
  DEF CallStep, ReleaseWrite, RetryWrite, ExtendWrite, CallQueue, Update,
       CallAndLease, Move, rows, Queue
<1>15. ASSUME NEW l \in Leases, SweepStep(l)
      PROVE  SweepUpTo(k, h)'
  BY <1>15, <1>1, <1>2, <1>3, <1>4, <1>5, <1>6, <1>7, <1>8, <1>9, <1>10
  DEF SweepStep, Abandon, CleanupQueue, rows, Queue
<1> QED
  BY <1>1, <1>11, <1>12, <1>13, <1>14, <1>15
  DEF Next, Progress, Requests, vars, Provision, QueueProvision, CloneLands,
       CloneFails, AskRelease, AskRetry, AskExtend, TtlPasses, Move, rows, Asked

\* Arithmetic of the attempts.
LEMMA AttemptsOrder ==
    /\ \A a, h \in Attempts : (a < h \/ a = h \/ a > h) /\ ~(a < h /\ a > h)
    /\ \A a, h \in Attempts : a <= h => ~(a > h)
    /\ \A a, h \in Attempts : a <= h + 1 /\ ~(a <= h) => a = h + 1
    /\ \A a, b, h \in Attempts : a <= b /\ b <= h => a <= h
    /\ \A a, b, h \in Attempts : a <= b + 1 /\ b < h => a <= h
BY BoundsAssumption DEF Attempts

\* What a step leaves of the last cleanup, of the count and of a record.
CleanersKept(l, h) ==
    /\ LastCleaner(l, h)'
    /\ cleaner[l][h].pc \in Finished => cleaner'[l][h].pc \in Finished
Counted(l, h) ==
    \/ lease'[l].attempts <= h
    \/ /\ lease'[l].attempts = h + 1 /\ cleaner'[l][h].pc \in Ended
       /\ cleaner[l][h].pc \notin Finished
RecordKept(l) ==
    /\ record[l].vmid # Nothing => record'[l].vmid = record[l].vmid
    /\ record[l].upid => record'[l].upid
    /\ record[l].state = "never_ready" => record'[l].state = "never_ready"
    /\ record[l].state \notin {"none", "provisioning"} =>
           record'[l].state \notin {"none", "provisioning"}

\* The last cleanup stays the last, and finished, unless its failure is counted.
LEMMA LastCleanerStep ==
    ASSUME NEW k \in Leases, NEW h \in Attempts, Last(k, h), IInv, [Next]_vars
    PROVE  CleanersKept(k, h)
<1>0. /\ TypeOK /\ CopyInv /\ SagaInv /\ KeyInv
  BY DEF IInv, CopyInv, KeyInv
<1>1. CASE UNCHANGED <<cleaner>>
  BY <1>0, <1>1 DEF CleanersKept, Last, LastCleaner, Ended, Finished
<1>2. ASSUME NEW l \in Leases, CompensateQueue(l)
      PROVE  CleanersKept(k, h)
  BY <1>0, <1>2, CompensateQueueDoes, AttemptsOrder, QueueDoes, RowFields DEF
         CopyInv, SagaCopies, SagaHolds, SagaGoes, SagaUpTo, Same, CleanersKept,
         Last, LastCleaner, Ended, Finished
<1>3. ASSUME NEW l \in Leases, NEW a \in Attempts, CleanStart(l, a)
      PROVE  CleanersKept(k, h)
  BY <1>0, <1>3, CleanStartDoes, AttemptsOrder DEF CleanerGoes, Same, CleanersKept,
         Last, LastCleaner, Ended, Finished
<1>4. ASSUME NEW l \in Leases, NEW a \in Attempts, CleanIdentify(l, a)
      PROVE  CleanersKept(k, h)
  BY <1>0, <1>4, CleanIdentifyDoes, AttemptsOrder DEF CleanerGoes, Same,
         CleanersKept, Last, LastCleaner, Ended, Finished
<1>5. ASSUME NEW l \in Leases, NEW a \in Attempts, CleanDelete(l, a)
      PROVE  CleanersKept(k, h)
  BY <1>0, <1>5, CleanDeleteDoes, AttemptsOrder DEF CleanerGoes, Same, CleanersKept,
         Last, LastCleaner, Ended, Finished
<1>6. ASSUME NEW l \in Leases, NEW a \in Attempts, CleanErrs(l, a)
      PROVE  CleanersKept(k, h)
  BY <1>0, <1>6, CleanErrsDoes, AttemptsOrder DEF CleanerGoes, Same, CleanersKept,
         Last, LastCleaner, Ended, Finished
<1>7. ASSUME NEW l \in Leases, NEW a \in Attempts, CleanRelease(l, a)
      PROVE  CleanersKept(k, h)
  BY <1>0, <1>7, CleanReleaseDoes, AttemptsOrder DEF CleanerGoes, Same,
         CleanersKept, Last, LastCleaner, Ended, Finished
<1>8. ASSUME NEW l \in Leases, NEW a \in Attempts, CleanFail(l, a)
      PROVE  CleanersKept(k, h)
  BY <1>0, <1>8, CleanFailDoes, AttemptsOrder DEF CleanerGoes, Same, CleanersKept,
         Last, LastCleaner, Ended, Finished
<1>9. ASSUME NEW c \in Callers, CallQueue(c)
      PROVE  CleanersKept(k, h)
  BY <1>0, <1>9, CallQueueDoes, AttemptsOrder, QueueDoes, RowFields DEF CopyInv,
         CallCopies, CallHolds, CallGoes, CallUpTo, Same, CleanersKept, Last,
         LastCleaner, Ended, Finished
<1>10. ASSUME NEW l \in Leases, CleanupQueue(l)
      PROVE  CleanersKept(k, h)
  BY <1>0, <1>10, CleanupQueueDoes, AttemptsOrder, QueueDoes, RowFields, RowTypes DEF
         Same, CleanersKept, Last, LastCleaner, Ended, Finished
<1>11. CASE Crash
  BY <1>0, <1>11, CrashDoes, AttemptsOrder DEF CleanersKept, Last, LastCleaner,
         Ended, Finished
<1>12. ASSUME NEW l \in Leases, SagaStep(l)
      PROVE  CleanersKept(k, h)
  BY <1>12, <1>1, <1>2
  DEF SagaStep, Begin, Reserve, CloneCall, Mark, BootRecord, BootLease, Wait,
       StrapRead, StrapWrite, Strap, Ready, SagaErrs, FailRecord, FailWrite,
       CompensateRead, CompensateWrite, At, OnlySaga, rows, SagaAndRecord, Boot,
       Reading, Update, SagaAndLease, Written, Move
<1>13. ASSUME NEW l \in Leases, NEW a \in Attempts, CleanerStep(l, a)
      PROVE  CleanersKept(k, h)
  BY <1>13, <1>3, <1>4, <1>5, <1>6, <1>7, <1>8
  DEF CleanerStep
<1>14. ASSUME NEW c \in Callers, CallStep(c)
      PROVE  CleanersKept(k, h)
  BY <1>14, <1>1, <1>9
  DEF CallStep, ReleaseWrite, RetryWrite, ExtendWrite, Update, CallAndLease, Move,
       rows
<1>15. ASSUME NEW l \in Leases, SweepStep(l)
      PROVE  CleanersKept(k, h)
  BY <1>15, <1>1, <1>10
  DEF SweepStep, ExpiryScan, ExpiryClaim, StuckRecords, StuckLeases, StuckMove,
       Abandon, CleanupScan, CleanupCount, GuestScan, Judge, Scan, OnlySweep, rows,
       Swept, Move, SweepAndLease
<1> QED
  BY <1>1, <1>11, <1>12, <1>13, <1>14, <1>15
  DEF Next, Progress, Requests, vars, Provision, QueueProvision, CloneLands,
       CloneFails, AskRelease, AskRetry, AskExtend, TtlPasses, Move, rows, Asked

\* A row counts beyond the last cleanup only when that one has ended unfinished.
LEMMA LeaseUpToStep ==
    ASSUME NEW k \in Leases, NEW h \in Attempts, Last(k, h), IInv, [Next]_vars
    PROVE  Counted(k, h)
<1>0. /\ TypeOK /\ CopyInv /\ SagaInv /\ KeyInv
  BY DEF IInv, CopyInv, KeyInv
<1>1. CASE UNCHANGED <<lease>>
  BY <1>0, <1>1 DEF Counted, Last, LastCleaner, Ended, Finished
<1>2. ASSUME NEW l \in Leases, Provision(l)
      PROVE  Counted(k, h)
  BY <1>0, <1>2, ProvisionDoes DEF LeaseState, Same, Counted, Last, LastCleaner,
         Ended, Finished
<1>3. ASSUME NEW l \in Leases, BootLease(l)
      PROVE  Counted(k, h)
  BY <1>0, <1>3, BootLeaseDoes DEF SagaUpTo, SagaHolds, SagaGoes, LeaseGets, Same,
         Counted, Last, LastCleaner, Ended, Finished
<1>4. ASSUME NEW l \in Leases, StrapWrite(l)
      PROVE  Counted(k, h)
  BY <1>0, <1>4, StrapWriteDoes DEF SagaUpTo, SagaHolds, SagaGoes, LeaseGets, Same,
         Counted, Last, LastCleaner, Ended, Finished
<1>5. ASSUME NEW l \in Leases, Ready(l)
      PROVE  Counted(k, h)
  BY <1>0, <1>5, ReadyDoes DEF Same, Counted, Last, LastCleaner, Ended, Finished
<1>6. ASSUME NEW l \in Leases, FailWrite(l)
      PROVE  Counted(k, h)
  BY <1>0, <1>6, FailWriteDoes DEF SagaUpTo, SagaHolds, SagaGoes, LeaseGets, Same,
         Counted, Last, LastCleaner, Ended, Finished
<1>7. ASSUME NEW l \in Leases, CompensateWrite(l)
      PROVE  Counted(k, h)
  BY <1>0, <1>7, CompensateWriteDoes DEF SagaUpTo, SagaHolds, LeaseGets, Same,
         Counted, Last, LastCleaner, Ended, Finished
<1>8. ASSUME NEW l \in Leases, NEW a \in Attempts, CleanRelease(l, a)
      PROVE  Counted(k, h)
  BY <1>0, <1>8, CleanReleaseDoes DEF CleanerUpTo, CleanerHolds, CleanerGoes,
         LeaseGets, Same, Counted, Last, LastCleaner, Ended, Finished
<1>9. ASSUME NEW l \in Leases, NEW a \in Attempts, CleanFail(l, a)
      PROVE  Counted(k, h)
  <2>1. CASE k # l \/ lease' = lease
    BY <1>0, <1>9, <2>1, CleanFailDoes DEF Counted, Last, Same
  <2>2. CASE k = l /\ lease' # lease
    <3> DEFINE n == lease'[k].attempts
    <3>1. n \in Attempts /\ lease[k].attempts \in Attempts
      <4>1. lease' \in [Leases -> Rows]
        BY <1>0, Grounded, TypeStep DEF TypeOK
      <4> QED
        BY <4>1, <1>0, RowTypes, RowFields
    <3>2. /\ a = h /\ cleaner[k][h].pc = "fail" /\ cleaner'[k][h].pc = "done"
          /\ cleaner[l][a].row.attempts <= h
      BY <1>0, <1>9, <2>2, CleanFailDoes, AttemptsOrder
         DEF Last, LastCleaner, Ended, CleanerUpTo, CleanerHolds, CleanerGoes
    <3>3. n <= h \/ n = h + 1
      <4>1. /\ cleaner[l][a].row.attempts \in Attempts
            /\ n <= cleaner[l][a].row.attempts + 1
        BY <1>0, <1>9, <2>2, CleanFailDoes, RowFields
           DEF CopyInv, CleanerCopies, CleanerHolds, CleanerGoes
      <4> QED
        BY <3>1, <3>2, <4>1, BoundsAssumption DEF Attempts
    <3> QED
      BY <3>2, <3>3 DEF Counted, Ended, Finished
  <2> QED
    BY <2>1, <2>2
<1>10. ASSUME NEW c \in Callers, ReleaseWrite(c)
      PROVE  Counted(k, h)
  BY <1>0, <1>10, ReleaseWriteDoes DEF CallUpTo, LeaseGets, Same, Counted, Last,
         LastCleaner, Ended, Finished
<1>11. ASSUME NEW c \in Callers, RetryWrite(c)
      PROVE  Counted(k, h)
  BY <1>0, <1>11, RetryWriteDoes DEF LeaseState, Same, Counted, Last, LastCleaner,
         Ended, Finished
<1>12. ASSUME NEW c \in Callers, ExtendWrite(c)
      PROVE  Counted(k, h)
  BY <1>0, <1>12, ExtendWriteDoes DEF Same, Counted, Last, LastCleaner, Ended,
         Finished
<1>13. ASSUME NEW l \in Leases, ExpiryClaim(l)
      PROVE  Counted(k, h)
  BY <1>0, <1>13, ExpiryClaimDoes DEF LeaseState, Same, Counted, Last, LastCleaner,
         Ended, Finished
<1>14. ASSUME NEW l \in Leases, StuckMove(l)
      PROVE  Counted(k, h)
  BY <1>0, <1>14, StuckMoveDoes DEF LeaseState, Same, Counted, Last, LastCleaner,
         Ended, Finished
<1>15. ASSUME NEW l \in Leases, CleanupCount(l)
      PROVE  Counted(k, h)
  <2>1. CASE k # l \/ lease' = lease
    BY <1>0, <1>15, <2>1, CleanupCountDoes DEF Counted, Last, Same
  <2>2. CASE k = l /\ lease' # lease
    <3> DEFINE n == lease'[k].attempts
    <3>1. n \in Attempts /\ lease[k].attempts \in Attempts
      <4>1. lease' \in [Leases -> Rows]
        BY <1>0, Grounded, TypeStep DEF TypeOK
      <4> QED
        BY <4>1, <1>0, RowTypes, RowFields
    <3>2. /\ cleaner[k][lease[k].attempts].pc = "abandoned" /\ n <= lease[k].attempts + 1
          /\ cleaner' = cleaner /\ lease[k].attempts <= h
      BY <1>0, <1>15, <2>2, <3>1, CleanupCountDoes DEF KeyInv, CountInv, Last
    <3>3. n <= h \/ (n = h + 1 /\ lease[k].attempts = h)
      BY <3>1, <3>2, BoundsAssumption DEF Attempts
    <3> QED
      BY <3>2, <3>3 DEF Counted, Ended, Finished
  <2> QED
    BY <2>1, <2>2
<1>16. ASSUME NEW l \in Leases, SagaStep(l)
      PROVE  Counted(k, h)
  BY <1>16, <1>1, <1>3, <1>4, <1>5, <1>6, <1>7
  DEF SagaStep, Begin, Reserve, CloneCall, Mark, BootRecord, Wait, StrapRead, Strap,
       SagaErrs, FailRecord, CompensateRead, CompensateQueue, At, OnlySaga, rows,
       SagaAndRecord, Boot, Reading, Written, Queue
<1>17. ASSUME NEW l \in Leases, NEW a \in Attempts, CleanerStep(l, a)
      PROVE  Counted(k, h)
  BY <1>17, <1>1, <1>8, <1>9
  DEF CleanerStep, CleanStart, CleanIdentify, CleanDelete, CleanErrs, Clean,
       OnlyCleaner, rows
<1>18. ASSUME NEW c \in Callers, CallStep(c)
      PROVE  Counted(k, h)
  BY <1>18, <1>1, <1>10, <1>11, <1>12
  DEF CallStep, CallQueue, Queue, rows
<1>19. ASSUME NEW l \in Leases, SweepStep(l)
      PROVE  Counted(k, h)
  BY <1>19, <1>1, <1>13, <1>14, <1>15
  DEF SweepStep, ExpiryScan, StuckRecords, StuckLeases, Abandon, CleanupQueue,
       CleanupScan, GuestScan, Judge, Scan, OnlySweep, rows, Queue, Swept
<1> QED
  BY <1>1, <1>2, <1>16, <1>17, <1>18, <1>19
  DEF Next, Progress, Requests, vars, QueueProvision, CloneLands, CloneFails,
       AskRelease, AskRetry, AskExtend, TtlPasses, Crash, rows, Asked

\* The last cleanup of a lease stays the last, or its failure is counted and
\* the next one is.  What is finished stays the last.
LEMMA LastStep ==
    ASSUME NEW k \in Leases, NEW h \in Attempts, Last(k, h), IInv, [Next]_vars
    PROVE  \/ /\ Last(k, h)'
              /\ cleaner[k][h].pc \in Finished => cleaner'[k][h].pc \in Finished
           \/ /\ cleaner[k][h].pc \notin Finished
              /\ \E i \in Attempts : Last(k, i)'
<1>1. /\ SagaUpTo(k, h)' /\ CleanerUpTo(k, h)' /\ CallUpTo(k, h)' /\ SweepUpTo(k, h)'
      /\ LastCleaner(k, h)'
      /\ cleaner[k][h].pc \in Finished => cleaner'[k][h].pc \in Finished
  BY SagaUpToStep, CleanerUpToStep, CallUpToStep, SweepUpToStep, LastCleanerStep
     DEF CleanersKept
<1>2. CASE lease'[k].attempts <= h
  BY <1>1, <1>2 DEF Last
<1>3. CASE /\ lease'[k].attempts = h + 1 /\ cleaner'[k][h].pc \in Ended
           /\ cleaner[k][h].pc \notin Finished
  <2>1. TypeOK'
    BY Grounded, TypeStep
  <2>2. h + 1 \in Attempts
    <3>1. lease' \in [Leases -> Rows]
      BY <2>1 DEF TypeOK
    <3> QED
      BY <1>3, <3>1, RowFields
  <2>3. LastCleaner(k, h + 1)'
    BY <1>1, <1>3, BoundsAssumption DEF LastCleaner, Attempts
  <2>4. /\ \A l \in Leases : saga'[l].row \in Rows => saga'[l].row.attempts \in Attempts
        /\ \A l \in Leases, a \in Attempts :
               cleaner'[l][a].row \in Rows => cleaner'[l][a].row.attempts \in Attempts
        /\ \A c \in Callers : call'[c].row \in Rows => call'[c].row.attempts \in Attempts
        /\ sweep'.row \in Rows => sweep'.row.attempts \in Attempts
    BY RowFields
  <2>5. CopyInv'
    BY Grounded, CopiesStep
  <2>6. \A i \in Attempts : i <= h => i <= h + 1
    BY BoundsAssumption DEF Attempts
  <2>7. SagaUpTo(k, h + 1)'
    BY <1>1, <2>4, <2>5, <2>6 DEF SagaUpTo, CopyInv, SagaCopies
  <2>8. CleanerUpTo(k, h + 1)'
    BY <1>1, <2>4, <2>5, <2>6 DEF CleanerUpTo, CopyInv, CleanerCopies
  <2>9. CallUpTo(k, h + 1)'
    BY <1>1, <2>4, <2>5, <2>6 DEF CallUpTo, CopyInv, CallCopies
  <2>10. SweepUpTo(k, h + 1)'
    BY <1>1, <2>4, <2>5, <2>6 DEF SweepUpTo, CopyInv, SweepCopies
  <2>11. lease'[k].attempts <= h + 1
    BY <1>3, BoundsAssumption DEF Attempts
  <2> QED
    BY <1>3, <2>2, <2>3, <2>7, <2>8, <2>9, <2>10, <2>11 DEF Last
<1> QED
  BY <1>2, <1>3, LeaseUpToStep DEF Counted

\* No cleanup of a spent lease ever acts again.
LEMMA SpentStable ==
    ASSUME NEW k \in Leases, Spent(k), IInv, [Next]_vars
    PROVE  Spent(k)'
BY LastStep DEF Spent

\* Each lease has a last cleanup.
LEMMA LastInvStep == IInv /\ [Next]_vars => LastInv'
BY LastStep DEF IInv, KeyInv, LastInv

\* An attempt the sweeper counts stays abandoned until then.
LEMMA CountInvStep == IInv /\ [Next]_vars => CountInv'
<1> SUFFICES ASSUME IInv, [Next]_vars PROVE CountInv' OBVIOUS
<1>0. /\ TypeOK /\ CopyInv /\ SagaInv /\ KeyInv /\ CountInv
  BY DEF IInv, CopyInv, KeyInv
<1>1. CASE UNCHANGED <<cleaner, sweep>>
  BY <1>0, <1>1 DEF CountInv
<1>2. ASSUME NEW l \in Leases, CompensateQueue(l)
      PROVE  CountInv'
  BY <1>0, <1>2, CompensateQueueDoes, RowTypes, RowFields, QueueDoes DEF CopyInv,
         SagaCopies, SagaHolds, SagaGoes, SagaUpTo, Same, CountInv
<1>3. ASSUME NEW l \in Leases, NEW a \in Attempts, CleanStart(l, a)
      PROVE  CountInv'
  BY <1>0, <1>3, CleanStartDoes, RowTypes, RowFields DEF CleanerGoes, Same, CountInv
<1>4. ASSUME NEW l \in Leases, NEW a \in Attempts, CleanIdentify(l, a)
      PROVE  CountInv'
  BY <1>0, <1>4, CleanIdentifyDoes, RowTypes, RowFields DEF CleanerGoes, Same,
         CountInv
<1>5. ASSUME NEW l \in Leases, NEW a \in Attempts, CleanDelete(l, a)
      PROVE  CountInv'
  BY <1>0, <1>5, CleanDeleteDoes, RowTypes, RowFields DEF CleanerGoes, Same,
         CountInv
<1>6. ASSUME NEW l \in Leases, NEW a \in Attempts, CleanErrs(l, a)
      PROVE  CountInv'
  BY <1>0, <1>6, CleanErrsDoes, RowTypes, RowFields DEF CleanerGoes, Same, CountInv
<1>7. ASSUME NEW l \in Leases, NEW a \in Attempts, CleanRelease(l, a)
      PROVE  CountInv'
  BY <1>0, <1>7, CleanReleaseDoes, RowTypes, RowFields DEF CleanerGoes, Same,
         CountInv
<1>8. ASSUME NEW l \in Leases, NEW a \in Attempts, CleanFail(l, a)
      PROVE  CountInv'
  BY <1>0, <1>8, CleanFailDoes, RowTypes, RowFields DEF CleanerGoes, Same, CountInv
<1>9. ASSUME NEW c \in Callers, CallQueue(c)
      PROVE  CountInv'
  BY <1>0, <1>9, CallQueueDoes, RowTypes, RowFields, QueueDoes DEF CopyInv,
         CallCopies, CallHolds, CallGoes, CallUpTo, Same, CountInv
<1>10. ASSUME NEW l \in Leases, ExpiryScan(l)
      PROVE  CountInv'
  BY <1>0, <1>10, ExpiryScanDoes, RowTypes, RowFields DEF CountInv
<1>11. ASSUME NEW l \in Leases, ExpiryClaim(l)
      PROVE  CountInv'
  BY <1>0, <1>11, ExpiryClaimDoes, RowTypes, RowFields DEF Same, CountInv
<1>12. ASSUME NEW l \in Leases, StuckRecords(l)
      PROVE  CountInv'
  BY <1>0, <1>12, StuckRecordsDoes, RowTypes, RowFields DEF CountInv
<1>13. ASSUME NEW l \in Leases, StuckLeases(l)
      PROVE  CountInv'
  BY <1>0, <1>13, StuckLeasesDoes, RowTypes, RowFields DEF CountInv
<1>14. ASSUME NEW l \in Leases, StuckMove(l)
      PROVE  CountInv'
  BY <1>0, <1>14, StuckMoveDoes, RowTypes, RowFields DEF Same, CountInv
<1>15. ASSUME NEW l \in Leases, CleanupQueue(l)
      PROVE  CountInv'
  BY <1>0, <1>15, CleanupQueueDoes, RowTypes, RowFields, QueueDoes DEF Same,
         CountInv
<1>16. ASSUME NEW l \in Leases, CleanupScan(l)
      PROVE  CountInv'
  BY <1>0, <1>16, CleanupScanDoes, RowTypes, RowFields DEF CountInv
<1>17. ASSUME NEW l \in Leases, CleanupCount(l)
      PROVE  CountInv'
  BY <1>0, <1>17, CleanupCountDoes, RowTypes, RowFields DEF Same, CountInv
<1>18. ASSUME NEW l \in Leases, GuestScan(l)
      PROVE  CountInv'
  BY <1>0, <1>18, GuestScanDoes, RowTypes, RowFields DEF CountInv
<1>19. ASSUME NEW l \in Leases, Judge(l)
      PROVE  CountInv'
  BY <1>0, <1>19, JudgeDoes, RowTypes, RowFields DEF CountInv
<1>20. CASE Crash
  BY <1>0, <1>20, CrashDoes, RowTypes, RowFields DEF CountInv
<1>21. ASSUME NEW l \in Leases, SagaStep(l)
      PROVE  CountInv'
  BY <1>21, <1>1, <1>2
  DEF SagaStep, Begin, Reserve, CloneCall, Mark, BootRecord, BootLease, Wait,
       StrapRead, StrapWrite, Strap, Ready, SagaErrs, FailRecord, FailWrite,
       CompensateRead, CompensateWrite, At, OnlySaga, rows, SagaAndRecord, Boot,
       Reading, Update, SagaAndLease, Written, Move
<1>22. ASSUME NEW l \in Leases, NEW a \in Attempts, CleanerStep(l, a)
      PROVE  CountInv'
  BY <1>22, <1>3, <1>4, <1>5, <1>6, <1>7, <1>8
  DEF CleanerStep
<1>23. ASSUME NEW c \in Callers, CallStep(c)
      PROVE  CountInv'
  BY <1>23, <1>1, <1>9
  DEF CallStep, ReleaseWrite, RetryWrite, ExtendWrite, Update, CallAndLease, Move,
       rows
<1>24. ASSUME NEW l \in Leases, SweepStep(l)
      PROVE  CountInv'
  BY <1>24, <1>1, <1>10, <1>11, <1>12, <1>13, <1>14, <1>15, <1>16, <1>17, <1>18,
     <1>19
  DEF SweepStep, Abandon, rows
<1> QED
  BY <1>1, <1>20, <1>21, <1>22, <1>23, <1>24
  DEF Next, Progress, Requests, vars, Provision, QueueProvision, CloneLands,
       CloneFails, AskRelease, AskRetry, AskExtend, TtlPasses, Move, rows, Asked

\* Only a cleanup releases a lease.
LEMMA ReleasedByCleanup ==
    ASSUME NEW k \in Leases, lease'[k].state = "released", Ground, [Next]_vars
    PROVE  lease[k].state = "released" \/ \E b \in Attempts : CleanRelease(k, b)
<1>0. /\ TypeOK /\ CopyInv
  BY DEF Ground, CopyInv
<1>1. CASE UNCHANGED <<lease>>
  BY <1>0, <1>1
<1>2. ASSUME NEW l \in Leases, Provision(l)
      PROVE  lease[k].state = "released" \/ \E b \in Attempts : CleanRelease(k, b)
  BY <1>0, <1>2, ProvisionDoes DEF LeaseState, Same
<1>3. ASSUME NEW l \in Leases, BootLease(l)
      PROVE  lease[k].state = "released" \/ \E b \in Attempts : CleanRelease(k, b)
  BY <1>0, <1>3, BootLeaseDoes DEF LeaseGets, Same
<1>4. ASSUME NEW l \in Leases, StrapWrite(l)
      PROVE  lease[k].state = "released" \/ \E b \in Attempts : CleanRelease(k, b)
  BY <1>0, <1>4, StrapWriteDoes DEF LeaseGets, Same
<1>5. ASSUME NEW l \in Leases, Ready(l)
      PROVE  lease[k].state = "released" \/ \E b \in Attempts : CleanRelease(k, b)
  BY <1>0, <1>5, ReadyDoes DEF Same
<1>6. ASSUME NEW l \in Leases, FailWrite(l)
      PROVE  lease[k].state = "released" \/ \E b \in Attempts : CleanRelease(k, b)
  BY <1>0, <1>6, FailWriteDoes DEF LeaseGets, Same
<1>7. ASSUME NEW l \in Leases, CompensateWrite(l)
      PROVE  lease[k].state = "released" \/ \E b \in Attempts : CleanRelease(k, b)
  BY <1>0, <1>7, CompensateWriteDoes DEF LeaseGets, Same
<1>8. ASSUME NEW l \in Leases, NEW a \in Attempts, CleanRelease(l, a)
      PROVE  lease[k].state = "released" \/ \E b \in Attempts : CleanRelease(k, b)
  BY <1>0, <1>8, CleanReleaseDoes DEF LeaseGets, Same
<1>9. ASSUME NEW l \in Leases, NEW a \in Attempts, CleanFail(l, a)
      PROVE  lease[k].state = "released" \/ \E b \in Attempts : CleanRelease(k, b)
  BY <1>0, <1>9, CleanFailDoes DEF Same
<1>10. ASSUME NEW c \in Callers, ReleaseWrite(c)
      PROVE  lease[k].state = "released" \/ \E b \in Attempts : CleanRelease(k, b)
  BY <1>0, <1>10, ReleaseWriteDoes DEF LeaseGets, Same
<1>11. ASSUME NEW c \in Callers, RetryWrite(c)
      PROVE  lease[k].state = "released" \/ \E b \in Attempts : CleanRelease(k, b)
  BY <1>0, <1>11, RetryWriteDoes DEF LeaseState, Same
<1>12. ASSUME NEW c \in Callers, ExtendWrite(c)
      PROVE  lease[k].state = "released" \/ \E b \in Attempts : CleanRelease(k, b)
  BY <1>0, <1>12, ExtendWriteDoes DEF Same
<1>13. ASSUME NEW l \in Leases, ExpiryClaim(l)
      PROVE  lease[k].state = "released" \/ \E b \in Attempts : CleanRelease(k, b)
  BY <1>0, <1>13, ExpiryClaimDoes DEF LeaseState, Same
<1>14. ASSUME NEW l \in Leases, StuckMove(l)
      PROVE  lease[k].state = "released" \/ \E b \in Attempts : CleanRelease(k, b)
  BY <1>0, <1>14, StuckMoveDoes DEF CopyInv, SweepCopies, LeaseState, Same
<1>15. ASSUME NEW l \in Leases, CleanupCount(l)
      PROVE  lease[k].state = "released" \/ \E b \in Attempts : CleanRelease(k, b)
  BY <1>0, <1>15, CleanupCountDoes DEF Same
<1>16. ASSUME NEW l \in Leases, SagaStep(l)
      PROVE  lease[k].state = "released" \/ \E b \in Attempts : CleanRelease(k, b)
  BY <1>16, <1>1, <1>3, <1>4, <1>5, <1>6, <1>7
  DEF SagaStep, Begin, Reserve, CloneCall, Mark, BootRecord, Wait, StrapRead, Strap,
       SagaErrs, FailRecord, CompensateRead, CompensateQueue, At, OnlySaga, rows,
       SagaAndRecord, Boot, Reading, Written, Queue
<1>17. ASSUME NEW l \in Leases, NEW a \in Attempts, CleanerStep(l, a)
      PROVE  lease[k].state = "released" \/ \E b \in Attempts : CleanRelease(k, b)
  BY <1>17, <1>1, <1>8, <1>9
  DEF CleanerStep, CleanStart, CleanIdentify, CleanDelete, CleanErrs, Clean,
       OnlyCleaner, rows
<1>18. ASSUME NEW c \in Callers, CallStep(c)
      PROVE  lease[k].state = "released" \/ \E b \in Attempts : CleanRelease(k, b)
  BY <1>18, <1>1, <1>10, <1>11, <1>12
  DEF CallStep, CallQueue, Queue, rows
<1>19. ASSUME NEW l \in Leases, SweepStep(l)
      PROVE  lease[k].state = "released" \/ \E b \in Attempts : CleanRelease(k, b)
  BY <1>19, <1>1, <1>13, <1>14, <1>15
  DEF SweepStep, ExpiryScan, StuckRecords, StuckLeases, Abandon, CleanupQueue,
       CleanupScan, GuestScan, Judge, Scan, OnlySweep, rows, Queue, Swept
<1> QED
  BY <1>1, <1>2, <1>16, <1>17, <1>18, <1>19
  DEF Next, Progress, Requests, vars, QueueProvision, CloneLands, CloneFails,
       AskRelease, AskRetry, AskExtend, TtlPasses, Crash, rows, Asked

\* A released lease is spent.
LEMMA SpentInvStep == IInv /\ [Next]_vars => SpentInv'
<1> SUFFICES ASSUME IInv, [Next]_vars, NEW k \in Leases, lease'[k].state = "released"
             PROVE  Spent(k)'
  BY DEF SpentInv
<1>1. CASE lease[k].state = "released"
  BY <1>1, SpentStable DEF IInv, KeyInv, SpentInv
<1>2. ASSUME NEW a \in Attempts, CleanRelease(k, a)
      PROVE  Spent(k)'
  <2>1. PICK h \in Attempts : Last(k, h)
    BY DEF IInv, KeyInv, LastInv
  <2>2. TypeOK /\ CopyInv
    BY DEF IInv
  <2>3. /\ SagaUpTo(k, h)' /\ CleanerUpTo(k, h)' /\ CallUpTo(k, h)' /\ SweepUpTo(k, h)'
        /\ LastCleaner(k, h)'
    BY <2>1, SagaUpToStep, CleanerUpToStep, CallUpToStep, SweepUpToStep,
       LastCleanerStep
       DEF CleanersKept
  <2>4. a = h /\ cleaner[k][a].row.attempts <= h
    BY <1>2, <2>1, <2>2, CleanReleaseDoes, AttemptsOrder
       DEF Last, LastCleaner, Ended, CleanerUpTo, CleanerHolds, CleanerGoes
  <2>5. lease'[k].attempts <= h /\ cleaner'[k][h].pc = "done"
    BY <1>2, <2>2, <2>4, CleanReleaseDoes DEF LeaseGets, CleanerGoes
  <2> QED
    BY <2>3, <2>5 DEF Last, Spent, Finished
<1> QED
  BY <1>1, <1>2, Grounded, ReleasedByCleanup

\* The cleanups of a lease follow one another.
LEMMA KeyStep == IInv /\ [Next]_vars => KeyInv'
BY LastInvStep, SpentInvStep, CountInvStep DEF KeyInv

\* A record keeps its VMID, its clone and its failure, and is provisioned once.
LEMMA RecordStays ==
    ASSUME NEW k \in Leases, IInv, [Next]_vars
    PROVE  RecordKept(k)
<1>0. /\ TypeOK /\ CopyInv /\ SagaInv
  BY DEF IInv, CopyInv, KeyInv
<1>1. CASE UNCHANGED <<record>>
  BY <1>0, <1>1 DEF RecordKept, SagaPlace, InSaga
<1>2. ASSUME NEW l \in Leases, Provision(l)
      PROVE  RecordKept(k)
  BY <1>0, <1>2, ProvisionDoes, ZenonT(30) DEF RecordGets, SagaGoes, Same, SagaInv, RecordKept,
         SagaPlace, InSaga
<1>3. ASSUME NEW l \in Leases, Reserve(l)
      PROVE  RecordKept(k)
  BY <1>0, <1>3, ReserveDoes DEF Waiting, RecordGets, SagaGoes, Same, SagaInv,
         RecordKept, SagaPlace, InSaga
<1>4. ASSUME NEW l \in Leases, Mark(l)
      PROVE  RecordKept(k)
  BY <1>0, <1>4, MarkDoes, ZenonT(30) DEF RecordGets, SagaGoes, Same, SagaInv, RecordKept,
         SagaPlace, InSaga
<1>5. ASSUME NEW l \in Leases, BootRecord(l)
      PROVE  RecordKept(k)
  BY <1>0, <1>5, BootRecordDoes DEF RecordGets, SagaGoes, Same, SagaInv, RecordKept,
         SagaPlace, InSaga
<1>6. ASSUME NEW l \in Leases, Wait(l)
      PROVE  RecordKept(k)
  BY <1>0, <1>6, WaitDoes DEF RecordGets, SagaGoes, Same, SagaInv, RecordKept,
         SagaPlace, InSaga
<1>7. ASSUME NEW l \in Leases, Strap(l)
      PROVE  RecordKept(k)
  BY <1>0, <1>7, StrapDoes DEF RecordGets, SagaGoes, Same, SagaInv, RecordKept,
         SagaPlace, InSaga
<1>8. ASSUME NEW l \in Leases, Ready(l)
      PROVE  RecordKept(k)
  BY <1>0, <1>8, ReadyDoes DEF RecordGets, SagaGoes, Same, SagaInv, RecordKept,
         SagaPlace, InSaga
<1>9. ASSUME NEW l \in Leases, FailRecord(l)
      PROVE  RecordKept(k)
  BY <1>0, <1>9, FailRecordDoes DEF RecordGets, SagaGoes, Same, SagaInv, RecordKept,
         SagaPlace, InSaga
<1>10. ASSUME NEW l \in Leases, Abandon(l)
      PROVE  RecordKept(k)
  BY <1>0, <1>10, AbandonDoes DEF RecordGets, Same, SagaInv, RecordKept, SagaPlace,
         InSaga
<1>11. ASSUME NEW l \in Leases, SagaStep(l)
      PROVE  RecordKept(k)
  BY <1>11, <1>1, <1>3, <1>4, <1>5, <1>6, <1>7, <1>8, <1>9
  DEF SagaStep, Begin, CloneCall, BootLease, StrapRead, StrapWrite, SagaErrs,
       FailWrite, CompensateRead, CompensateWrite, CompensateQueue, At, OnlySaga,
       rows, Update, SagaAndLease, Reading, Queue
<1>12. ASSUME NEW l \in Leases, NEW a \in Attempts, CleanerStep(l, a)
      PROVE  RecordKept(k)
  BY <1>12, <1>1
  DEF CleanerStep, CleanStart, CleanIdentify, CleanDelete, CleanErrs, CleanRelease,
       CleanFail, Clean, OnlyCleaner, rows, Update, CleanerAndLease
<1>13. ASSUME NEW c \in Callers, CallStep(c)
      PROVE  RecordKept(k)
  BY <1>13, <1>1
  DEF CallStep, ReleaseWrite, RetryWrite, ExtendWrite, CallQueue, Update,
       CallAndLease, Move, rows, Queue
<1>14. ASSUME NEW l \in Leases, SweepStep(l)
      PROVE  RecordKept(k)
  BY <1>14, <1>1, <1>10
  DEF SweepStep, ExpiryScan, ExpiryClaim, StuckRecords, StuckLeases, StuckMove,
       CleanupQueue, CleanupScan, CleanupCount, GuestScan, Judge, Scan, OnlySweep,
       rows, Swept, Move, SweepAndLease, Queue
<1> QED
  BY <1>1, <1>2, <1>11, <1>12, <1>13, <1>14
  DEF Next, Progress, Requests, vars, QueueProvision, CloneLands, CloneFails,
       AskRelease, AskRetry, AskExtend, TtlPasses, Crash, rows, Asked

\* A released lease stays released, or a blind write has hit it.
LEMMA ReleasedStays ==
    ASSUME NEW k \in Leases, lease[k].state = "released" \/ k \in overtaken, IInv,
           [Next]_vars
    PROVE  lease'[k].state = "released" \/ k \in overtaken'
<1>0. /\ TypeOK /\ CopyInv /\ SagaInv
  BY DEF IInv, CopyInv, KeyInv
<1>1. CASE UNCHANGED <<lease, overtaken>>
  BY <1>0, <1>1
<1>2. ASSUME NEW l \in Leases, Provision(l)
      PROVE  lease'[k].state = "released" \/ k \in overtaken'
  BY <1>0, <1>2, ProvisionDoes DEF LeaseState, Same, InSaga
<1>3. ASSUME NEW l \in Leases, BootLease(l)
      PROVE  lease'[k].state = "released" \/ k \in overtaken'
  BY <1>0, <1>3, BootLeaseDoes DEF LeaseGets, Same, Blind, InSaga
<1>4. ASSUME NEW l \in Leases, StrapWrite(l)
      PROVE  lease'[k].state = "released" \/ k \in overtaken'
  BY <1>0, <1>4, StrapWriteDoes DEF LeaseGets, Same, Blind, InSaga
<1>5. ASSUME NEW l \in Leases, Ready(l)
      PROVE  lease'[k].state = "released" \/ k \in overtaken'
  BY <1>0, <1>5, ReadyDoes DEF Same, InSaga
<1>6. ASSUME NEW l \in Leases, FailWrite(l)
      PROVE  lease'[k].state = "released" \/ k \in overtaken'
  BY <1>0, <1>6, FailWriteDoes DEF LeaseGets, Same, Blind, InSaga
<1>7. ASSUME NEW l \in Leases, CompensateWrite(l)
      PROVE  lease'[k].state = "released" \/ k \in overtaken'
  BY <1>0, <1>7, CompensateWriteDoes DEF LeaseGets, Same, Blind, InSaga
<1>8. ASSUME NEW l \in Leases, NEW a \in Attempts, CleanRelease(l, a)
      PROVE  lease'[k].state = "released" \/ k \in overtaken'
  BY <1>0, <1>8, CleanReleaseDoes DEF LeaseGets, Same, Blind, InSaga
<1>9. ASSUME NEW l \in Leases, NEW a \in Attempts, CleanFail(l, a)
      PROVE  lease'[k].state = "released" \/ k \in overtaken'
  BY <1>0, <1>9, CleanFailDoes DEF Same, Blind, InSaga
<1>10. ASSUME NEW c \in Callers, ReleaseWrite(c)
      PROVE  lease'[k].state = "released" \/ k \in overtaken'
  BY <1>0, <1>10, ReleaseWriteDoes DEF Terminal, LeaseGets, Same, Blind, InSaga
<1>11. ASSUME NEW c \in Callers, RetryWrite(c)
      PROVE  lease'[k].state = "released" \/ k \in overtaken'
  BY <1>0, <1>11, RetryWriteDoes DEF LeaseState, Same, InSaga
<1>12. ASSUME NEW c \in Callers, ExtendWrite(c)
      PROVE  lease'[k].state = "released" \/ k \in overtaken'
  BY <1>0, <1>12, ExtendWriteDoes DEF Same, InSaga
<1>13. ASSUME NEW l \in Leases, ExpiryClaim(l)
      PROVE  lease'[k].state = "released" \/ k \in overtaken'
  BY <1>0, <1>13, ExpiryClaimDoes DEF LeaseState, Same, InSaga
<1>14. ASSUME NEW l \in Leases, StuckMove(l)
      PROVE  lease'[k].state = "released" \/ k \in overtaken'
  BY <1>0, <1>14, StuckMoveDoes DEF CopyInv, SweepCopies, LeaseState, Same, InSaga
<1>15. ASSUME NEW l \in Leases, CleanupCount(l)
      PROVE  lease'[k].state = "released" \/ k \in overtaken'
  BY <1>0, <1>15, CleanupCountDoes DEF Same, InSaga
<1>16. ASSUME NEW l \in Leases, SagaStep(l)
      PROVE  lease'[k].state = "released" \/ k \in overtaken'
  BY <1>16, <1>1, <1>3, <1>4, <1>5, <1>6, <1>7
  DEF SagaStep, Begin, Reserve, CloneCall, Mark, BootRecord, Wait, StrapRead, Strap,
       SagaErrs, FailRecord, CompensateRead, CompensateQueue, At, OnlySaga, rows,
       SagaAndRecord, Boot, Reading, Written, Queue
<1>17. ASSUME NEW l \in Leases, NEW a \in Attempts, CleanerStep(l, a)
      PROVE  lease'[k].state = "released" \/ k \in overtaken'
  BY <1>17, <1>1, <1>8, <1>9
  DEF CleanerStep, CleanStart, CleanIdentify, CleanDelete, CleanErrs, Clean,
       OnlyCleaner, rows
<1>18. ASSUME NEW c \in Callers, CallStep(c)
      PROVE  lease'[k].state = "released" \/ k \in overtaken'
  BY <1>18, <1>1, <1>10, <1>11, <1>12
  DEF CallStep, CallQueue, Queue, rows
<1>19. ASSUME NEW l \in Leases, SweepStep(l)
      PROVE  lease'[k].state = "released" \/ k \in overtaken'
  BY <1>19, <1>1, <1>13, <1>14, <1>15
  DEF SweepStep, ExpiryScan, StuckRecords, StuckLeases, Abandon, CleanupQueue,
       CleanupScan, GuestScan, Judge, Scan, OnlySweep, rows, Queue, Swept
<1> QED
  BY <1>1, <1>2, <1>16, <1>17, <1>18, <1>19
  DEF Next, Progress, Requests, vars, QueueProvision, CloneLands, CloneFails,
       AskRelease, AskRetry, AskExtend, TtlPasses, Crash, rows, Asked

\* A claim that is lost stays lost.
LEMMA OverStable ==
    ASSUME NEW k \in Leases, Over(k), IInv, [Next]_vars
    PROVE  Over(k)'
BY SpentStable, RecordStays, ReleasedStays DEF Over, RecordKept

\* Only a reservation gives a record its VMID.
LEMMA VmidByReserve ==
    ASSUME NEW k \in Leases, Ground, [Next]_vars
    PROVE  record'[k].vmid = record[k].vmid \/ Reserve(k)
<1>0. /\ TypeOK /\ CopyInv
  BY DEF Ground, CopyInv
<1>1. CASE UNCHANGED <<record>>
  BY <1>0, <1>1
<1>2. ASSUME NEW l \in Leases, Provision(l)
      PROVE  record'[k].vmid = record[k].vmid \/ Reserve(k)
  BY <1>0, <1>2, ProvisionDoes DEF RecordGets, Same
<1>3. ASSUME NEW l \in Leases, Reserve(l)
      PROVE  record'[k].vmid = record[k].vmid \/ Reserve(k)
  BY <1>0, <1>3, ReserveDoes DEF RecordGets, Same
<1>4. ASSUME NEW l \in Leases, Mark(l)
      PROVE  record'[k].vmid = record[k].vmid \/ Reserve(k)
  BY <1>0, <1>4, MarkDoes DEF RecordGets, Same
<1>5. ASSUME NEW l \in Leases, BootRecord(l)
      PROVE  record'[k].vmid = record[k].vmid \/ Reserve(k)
  BY <1>0, <1>5, BootRecordDoes DEF RecordGets, Same
<1>6. ASSUME NEW l \in Leases, Wait(l)
      PROVE  record'[k].vmid = record[k].vmid \/ Reserve(k)
  BY <1>0, <1>6, WaitDoes DEF RecordGets, Same
<1>7. ASSUME NEW l \in Leases, Strap(l)
      PROVE  record'[k].vmid = record[k].vmid \/ Reserve(k)
  BY <1>0, <1>7, StrapDoes DEF RecordGets, Same
<1>8. ASSUME NEW l \in Leases, Ready(l)
      PROVE  record'[k].vmid = record[k].vmid \/ Reserve(k)
  BY <1>0, <1>8, ReadyDoes DEF RecordGets, Same
<1>9. ASSUME NEW l \in Leases, FailRecord(l)
      PROVE  record'[k].vmid = record[k].vmid \/ Reserve(k)
  BY <1>0, <1>9, FailRecordDoes DEF RecordGets, Same
<1>10. ASSUME NEW l \in Leases, Abandon(l)
      PROVE  record'[k].vmid = record[k].vmid \/ Reserve(k)
  BY <1>0, <1>10, AbandonDoes DEF RecordGets, Same
<1>11. ASSUME NEW l \in Leases, SagaStep(l)
      PROVE  record'[k].vmid = record[k].vmid \/ Reserve(k)
  BY <1>11, <1>1, <1>3, <1>4, <1>5, <1>6, <1>7, <1>8, <1>9
  DEF SagaStep, Begin, CloneCall, BootLease, StrapRead, StrapWrite, SagaErrs,
       FailWrite, CompensateRead, CompensateWrite, CompensateQueue, At, OnlySaga,
       rows, Update, SagaAndLease, Reading, Queue
<1>12. ASSUME NEW l \in Leases, NEW a \in Attempts, CleanerStep(l, a)
      PROVE  record'[k].vmid = record[k].vmid \/ Reserve(k)
  BY <1>12, <1>1
  DEF CleanerStep, CleanStart, CleanIdentify, CleanDelete, CleanErrs, CleanRelease,
       CleanFail, Clean, OnlyCleaner, rows, Update, CleanerAndLease
<1>13. ASSUME NEW c \in Callers, CallStep(c)
      PROVE  record'[k].vmid = record[k].vmid \/ Reserve(k)
  BY <1>13, <1>1
  DEF CallStep, ReleaseWrite, RetryWrite, ExtendWrite, CallQueue, Update,
       CallAndLease, Move, rows, Queue
<1>14. ASSUME NEW l \in Leases, SweepStep(l)
      PROVE  record'[k].vmid = record[k].vmid \/ Reserve(k)
  BY <1>14, <1>1, <1>10
  DEF SweepStep, ExpiryScan, ExpiryClaim, StuckRecords, StuckLeases, StuckMove,
       CleanupQueue, CleanupScan, CleanupCount, GuestScan, Judge, Scan, OnlySweep,
       rows, Swept, Move, SweepAndLease, Queue
<1> QED
  BY <1>1, <1>2, <1>11, <1>12, <1>13, <1>14
  DEF Next, Progress, Requests, vars, QueueProvision, CloneLands, CloneFails,
       AskRelease, AskRetry, AskExtend, TtlPasses, Crash, rows, Asked

\* Two records have one VMID only where one of them has lost its claim.
LEMMA ExclStep == IInv /\ [Next]_vars => Excl'
<1> SUFFICES ASSUME IInv, [Next]_vars, NEW l \in Leases, NEW m \in Leases, Share(l, m)'
             PROVE  Over(l)' \/ Over(m)'
  BY DEF Excl
<1>1. /\ TypeOK /\ CopyInv /\ SagaInv /\ SpentInv /\ Excl
  BY DEF IInv, KeyInv
<1>2. CASE Share(l, m)
  BY <1>1, <1>2, OverStable DEF Excl
<1>3. ASSUME NEW x \in Leases, NEW y \in Leases, Reserve(x), Share(x, y)', ~Share(x, y)
      PROVE  Over(y)'
  <2>1. /\ ~Held(x, saga[x].vmid) /\ record'[x].vmid = saga[x].vmid
        /\ record'[y] = record[y] /\ x # y /\ record[y].vmid = saga[x].vmid
        /\ record[y].vmid # Nothing
    BY <1>1, <1>3, ReserveDoes DEF RecordGets, Same, Share
  <2>2. record[y].state # "provisioning" /\ lease[y].state = "released"
    BY <2>1 DEF Held
  <2>3. record[y].state # "none"
    BY <1>1, <2>1 DEF SagaInv, SagaPlace, Waiting
  <2>4. Over(y)
    BY <1>1, <2>2, <2>3 DEF SpentInv, Over
  <2> QED
    BY <2>4, OverStable
<1>4. CASE ~Share(l, m)
  <2>1. record'[l].vmid # record[l].vmid \/ record'[m].vmid # record[m].vmid
    BY <1>4 DEF Share
  <2>2. Reserve(l) \/ Reserve(m)
    BY <2>1, Grounded, VmidByReserve
  <2>3. Share(m, l)' /\ ~Share(m, l)
    BY <1>4 DEF Share
  <2> QED
    BY <1>3, <1>4, <2>2, <2>3
<1> QED
  BY <1>2, <1>4

\* What a lease that has not shown its claim can do to show it.
ShowsByClone(l) == CloneCall(l) /\ guest[record[l].vmid] = Nothing

\* A lease shows its claim by the clone call alone.
LEMMA ShownByClone ==
    ASSUME NEW k \in Leases, Shown(k)', IInv, [Next]_vars
    PROVE  Shown(k) \/ ShowsByClone(k)
<1>0. /\ TypeOK /\ CopyInv /\ SagaInv /\ DeleteInv
  BY DEF IInv, CopyInv, KeyInv
<1>1. CASE UNCHANGED <<record, task, guest, saga, cleaner>>
  BY <1>0, <1>1 DEF Shown, ShowsByClone, Named
<1>2. ASSUME NEW l \in Leases, Provision(l)
      PROVE  Shown(k) \/ ShowsByClone(k)
  BY <1>0, <1>2, ProvisionDoes, Apart, ZenonT(30) DEF Same, SagaGoes, RecordGets, Shown,
         ShowsByClone, Named
<1>3. ASSUME NEW l \in Leases, QueueProvision(l)
      PROVE  Shown(k) \/ ShowsByClone(k)
  BY <1>0, <1>3, QueueProvisionDoes, Apart DEF Same, SagaGoes, Shown, ShowsByClone,
         Named
<1>4. ASSUME NEW l \in Leases, Begin(l)
      PROVE  Shown(k) \/ ShowsByClone(k)
  BY <1>0, <1>4, BeginDoes, Apart DEF Same, SagaGoes, Shown, ShowsByClone, Named
<1>5. ASSUME NEW l \in Leases, Reserve(l)
      PROVE  Shown(k) \/ ShowsByClone(k)
  BY <1>0, <1>5, ReserveDoes, Apart DEF Same, SagaGoes, RecordGets, Shown,
         ShowsByClone, Named
<1>6. ASSUME NEW l \in Leases, CloneCall(l)
      PROVE  Shown(k) \/ ShowsByClone(k)
  BY <1>0, <1>6, CloneCallDoes, Apart DEF SagaInv, SagaPlace, Cloned, Same,
         SagaGoes, Shown, ShowsByClone, Named
<1>7. ASSUME NEW l \in Leases, Mark(l)
      PROVE  Shown(k) \/ ShowsByClone(k)
  BY <1>0, <1>7, MarkDoes, Apart DEF Same, SagaGoes, RecordGets, Shown,
         ShowsByClone, Named
<1>8. ASSUME NEW l \in Leases, BootRecord(l)
      PROVE  Shown(k) \/ ShowsByClone(k)
  BY <1>0, <1>8, BootRecordDoes, Apart DEF Same, SagaGoes, RecordGets, Shown,
         ShowsByClone, Named
<1>9. ASSUME NEW l \in Leases, BootLease(l)
      PROVE  Shown(k) \/ ShowsByClone(k)
  BY <1>0, <1>9, BootLeaseDoes, Apart DEF Same, SagaGoes, Shown, ShowsByClone, Named
<1>10. ASSUME NEW l \in Leases, Wait(l)
      PROVE  Shown(k) \/ ShowsByClone(k)
  BY <1>0, <1>10, WaitDoes, Apart DEF Same, SagaGoes, RecordGets, Shown,
         ShowsByClone, Named
<1>11. ASSUME NEW l \in Leases, StrapRead(l)
      PROVE  Shown(k) \/ ShowsByClone(k)
  BY <1>0, <1>11, StrapReadDoes, Apart DEF Same, SagaGoes, Shown, ShowsByClone,
         Named
<1>12. ASSUME NEW l \in Leases, StrapWrite(l)
      PROVE  Shown(k) \/ ShowsByClone(k)
  BY <1>0, <1>12, StrapWriteDoes, Apart DEF Same, SagaGoes, Shown, ShowsByClone,
         Named
<1>13. ASSUME NEW l \in Leases, Strap(l)
      PROVE  Shown(k) \/ ShowsByClone(k)
  BY <1>0, <1>13, StrapDoes, Apart DEF Same, SagaGoes, RecordGets, Shown,
         ShowsByClone, Named
<1>14. ASSUME NEW l \in Leases, Ready(l)
      PROVE  Shown(k) \/ ShowsByClone(k)
  BY <1>0, <1>14, ReadyDoes, Apart DEF Same, SagaGoes, RecordGets, Shown,
         ShowsByClone, Named
<1>15. ASSUME NEW l \in Leases, SagaErrs(l)
      PROVE  Shown(k) \/ ShowsByClone(k)
  BY <1>0, <1>15, SagaErrsDoes, Apart DEF Same, SagaGoes, Shown, ShowsByClone, Named
<1>16. ASSUME NEW l \in Leases, FailRecord(l)
      PROVE  Shown(k) \/ ShowsByClone(k)
  BY <1>0, <1>16, FailRecordDoes, Apart DEF Same, SagaGoes, RecordGets, Shown,
         ShowsByClone, Named
<1>17. ASSUME NEW l \in Leases, FailWrite(l)
      PROVE  Shown(k) \/ ShowsByClone(k)
  BY <1>0, <1>17, FailWriteDoes, Apart DEF Same, SagaGoes, Shown, ShowsByClone,
         Named
<1>18. ASSUME NEW l \in Leases, CompensateRead(l)
      PROVE  Shown(k) \/ ShowsByClone(k)
  BY <1>0, <1>18, CompensateReadDoes, Apart DEF Same, SagaGoes, Shown, ShowsByClone,
         Named
<1>19. ASSUME NEW l \in Leases, CompensateWrite(l)
      PROVE  Shown(k) \/ ShowsByClone(k)
  BY <1>0, <1>19, CompensateWriteDoes, Apart DEF Same, Shown, ShowsByClone, Named
<1>20. ASSUME NEW l \in Leases, CompensateQueue(l)
      PROVE  Shown(k) \/ ShowsByClone(k)
  BY <1>0, <1>20, CompensateQueueDoes, Apart, QueueDoes, RowFields, RowTypes DEF
         CopyInv, SagaCopies, SagaHolds, CallCopies, CallHolds, Same, SagaGoes,
         Shown, ShowsByClone, Named
<1>21. ASSUME NEW l \in Leases, CloneLands(l)
      PROVE  Shown(k) \/ ShowsByClone(k)
  BY <1>0, <1>21, CloneLandsDoes, Apart DEF Same, Shown, ShowsByClone, Named
<1>22. ASSUME NEW l \in Leases, CloneFails(l)
      PROVE  Shown(k) \/ ShowsByClone(k)
  BY <1>0, <1>22, CloneFailsDoes, Apart DEF Same, Shown, ShowsByClone, Named
<1>23. ASSUME NEW l \in Leases, NEW a \in Attempts, CleanStart(l, a)
      PROVE  Shown(k) \/ ShowsByClone(k)
  BY <1>0, <1>23, CleanStartDoes, Apart DEF Same, CleanerGoes, Shown, ShowsByClone,
         Named
<1>24. ASSUME NEW l \in Leases, NEW a \in Attempts, CleanIdentify(l, a)
      PROVE  Shown(k) \/ ShowsByClone(k)
  BY <1>0, <1>24, CleanIdentifyDoes, Apart DEF DeleteInv, CleanerHolds, Same,
         CleanerGoes, Shown, ShowsByClone, Named
<1>25. ASSUME NEW l \in Leases, NEW a \in Attempts, CleanDelete(l, a)
      PROVE  Shown(k) \/ ShowsByClone(k)
  BY <1>0, <1>25, CleanDeleteDoes, Apart DEF Same, CleanerGoes, Shown, ShowsByClone,
         Named
<1>26. ASSUME NEW l \in Leases, NEW a \in Attempts, CleanErrs(l, a)
      PROVE  Shown(k) \/ ShowsByClone(k)
  BY <1>0, <1>26, CleanErrsDoes, Apart DEF Same, CleanerGoes, Shown, ShowsByClone,
         Named
<1>27. ASSUME NEW l \in Leases, NEW a \in Attempts, CleanRelease(l, a)
      PROVE  Shown(k) \/ ShowsByClone(k)
  BY <1>0, <1>27, CleanReleaseDoes, Apart DEF Same, CleanerGoes, Shown,
         ShowsByClone, Named
<1>28. ASSUME NEW l \in Leases, NEW a \in Attempts, CleanFail(l, a)
      PROVE  Shown(k) \/ ShowsByClone(k)
  BY <1>0, <1>28, CleanFailDoes, Apart DEF Same, CleanerGoes, Shown, ShowsByClone,
         Named
<1>29. ASSUME NEW c \in Callers, CallQueue(c)
      PROVE  Shown(k) \/ ShowsByClone(k)
  BY <1>0, <1>29, CallQueueDoes, Apart, QueueDoes, RowFields, RowTypes DEF CopyInv,
         SagaCopies, SagaHolds, CallCopies, CallHolds, CallGoes, Same, Shown,
         ShowsByClone, Named
<1>30. ASSUME NEW l \in Leases, Abandon(l)
      PROVE  Shown(k) \/ ShowsByClone(k)
  BY <1>0, <1>30, AbandonDoes, Apart DEF Same, RecordGets, Shown, ShowsByClone,
         Named
<1>31. ASSUME NEW l \in Leases, CleanupQueue(l)
      PROVE  Shown(k) \/ ShowsByClone(k)
  BY <1>0, <1>31, CleanupQueueDoes, Apart, QueueDoes, RowFields, RowTypes DEF
         CopyInv, SagaCopies, SagaHolds, CallCopies, CallHolds, Same, Shown,
         ShowsByClone, Named
<1>32. CASE Crash
  BY <1>0, <1>32, CrashDoes, Apart DEF Shown, ShowsByClone, Named
<1>33. ASSUME NEW l \in Leases, SagaStep(l)
      PROVE  Shown(k) \/ ShowsByClone(k)
  BY <1>33, <1>4, <1>5, <1>6, <1>7, <1>8, <1>9, <1>10, <1>11, <1>12, <1>13, <1>14,
     <1>15, <1>16, <1>17, <1>18, <1>19, <1>20
  DEF SagaStep
<1>34. ASSUME NEW l \in Leases, NEW a \in Attempts, CleanerStep(l, a)
      PROVE  Shown(k) \/ ShowsByClone(k)
  BY <1>34, <1>23, <1>24, <1>25, <1>26, <1>27, <1>28
  DEF CleanerStep
<1>35. ASSUME NEW c \in Callers, CallStep(c)
      PROVE  Shown(k) \/ ShowsByClone(k)
  BY <1>35, <1>1, <1>29
  DEF CallStep, ReleaseWrite, RetryWrite, ExtendWrite, Update, CallAndLease, Move,
       rows
<1>36. ASSUME NEW l \in Leases, SweepStep(l)
      PROVE  Shown(k) \/ ShowsByClone(k)
  BY <1>36, <1>1, <1>30, <1>31
  DEF SweepStep, ExpiryScan, ExpiryClaim, StuckRecords, StuckLeases, StuckMove,
       CleanupScan, CleanupCount, GuestScan, Judge, Scan, OnlySweep, rows, Swept,
       Move, SweepAndLease
<1> QED
  BY <1>1, <1>2, <1>3, <1>21, <1>22, <1>32, <1>33, <1>34, <1>35, <1>36
  DEF Next, Progress, Requests, vars, AskRelease, AskRetry, AskExtend, TtlPasses,
       Asked, rows

\* What a cleanup is sure of stays in its record.
LEMMA DeleteInvStep == IInv /\ [Next]_vars => DeleteInv'
<1> SUFFICES ASSUME IInv, [Next]_vars PROVE DeleteInv' OBVIOUS
<1>0. /\ TypeOK /\ CopyInv /\ SagaInv /\ DeleteInv
  BY DEF IInv, CopyInv, KeyInv
<1>1. CASE UNCHANGED <<record, cleaner>>
  BY <1>0, <1>1 DEF DeleteInv, CleanerHolds, RecordKept
<1>2. ASSUME NEW l \in Leases, Provision(l)
      PROVE  DeleteInv'
  BY <1>0, <1>2, ProvisionDoes, Apart, RecordStays DEF Same, RecordGets, DeleteInv,
         CleanerHolds, RecordKept
<1>3. ASSUME NEW l \in Leases, Reserve(l)
      PROVE  DeleteInv'
  BY <1>0, <1>3, ReserveDoes, Apart, RecordStays DEF Same, RecordGets, DeleteInv,
         CleanerHolds, RecordKept
<1>4. ASSUME NEW l \in Leases, Mark(l)
      PROVE  DeleteInv'
  BY <1>0, <1>4, MarkDoes, Apart, RecordStays DEF Same, RecordGets, DeleteInv,
         CleanerHolds, RecordKept
<1>5. ASSUME NEW l \in Leases, BootRecord(l)
      PROVE  DeleteInv'
  BY <1>0, <1>5, BootRecordDoes, Apart, RecordStays DEF Same, RecordGets, DeleteInv,
         CleanerHolds, RecordKept
<1>6. ASSUME NEW l \in Leases, Wait(l)
      PROVE  DeleteInv'
  BY <1>0, <1>6, WaitDoes, Apart, RecordStays DEF Same, RecordGets, DeleteInv,
         CleanerHolds, RecordKept
<1>7. ASSUME NEW l \in Leases, Strap(l)
      PROVE  DeleteInv'
  BY <1>0, <1>7, StrapDoes, Apart, RecordStays DEF Same, RecordGets, DeleteInv,
         CleanerHolds, RecordKept
<1>8. ASSUME NEW l \in Leases, Ready(l)
      PROVE  DeleteInv'
  BY <1>0, <1>8, ReadyDoes, Apart, RecordStays DEF Same, RecordGets, DeleteInv,
         CleanerHolds, RecordKept
<1>9. ASSUME NEW l \in Leases, FailRecord(l)
      PROVE  DeleteInv'
  BY <1>0, <1>9, FailRecordDoes, Apart, RecordStays DEF Same, RecordGets, DeleteInv,
         CleanerHolds, RecordKept
<1>10. ASSUME NEW l \in Leases, CompensateQueue(l)
      PROVE  DeleteInv'
  BY <1>0, <1>10, CompensateQueueDoes, Apart, RecordStays, QueueDoes, RowFields,
     RowTypes DEF
         CopyInv, SagaCopies, SagaHolds, SagaGoes, CallCopies, CallHolds, Same,
         DeleteInv, CleanerHolds, RecordKept
<1>11. ASSUME NEW l \in Leases, NEW a \in Attempts, CleanStart(l, a)
      PROVE  DeleteInv'
  BY <1>0, <1>11, CleanStartDoes, Apart, RecordStays DEF Same, CleanerGoes,
         DeleteInv, CleanerHolds, RecordKept
<1>12. ASSUME NEW l \in Leases, NEW a \in Attempts, CleanIdentify(l, a)
      PROVE  DeleteInv'
  BY <1>0, <1>12, CleanIdentifyDoes, Apart, RecordStays DEF Same, CleanerGoes,
         DeleteInv, CleanerHolds, RecordKept
<1>13. ASSUME NEW l \in Leases, NEW a \in Attempts, CleanDelete(l, a)
      PROVE  DeleteInv'
  BY <1>0, <1>13, CleanDeleteDoes, Apart, RecordStays DEF Same, CleanerGoes,
         DeleteInv, CleanerHolds, RecordKept
<1>14. ASSUME NEW l \in Leases, NEW a \in Attempts, CleanErrs(l, a)
      PROVE  DeleteInv'
  BY <1>0, <1>14, CleanErrsDoes, Apart, RecordStays DEF Same, CleanerGoes,
         DeleteInv, CleanerHolds, RecordKept
<1>15. ASSUME NEW l \in Leases, NEW a \in Attempts, CleanRelease(l, a)
      PROVE  DeleteInv'
  BY <1>0, <1>15, CleanReleaseDoes, Apart, RecordStays DEF Same, CleanerGoes,
         DeleteInv, CleanerHolds, RecordKept
<1>16. ASSUME NEW l \in Leases, NEW a \in Attempts, CleanFail(l, a)
      PROVE  DeleteInv'
  BY <1>0, <1>16, CleanFailDoes, Apart, RecordStays DEF Same, CleanerGoes,
         DeleteInv, CleanerHolds, RecordKept
<1>17. ASSUME NEW c \in Callers, CallQueue(c)
      PROVE  DeleteInv'
  BY <1>0, <1>17, CallQueueDoes, Apart, RecordStays, QueueDoes, RowFields,
     RowTypes DEF
         CopyInv, SagaCopies, SagaHolds, CallCopies, CallHolds, CallGoes, Same,
         DeleteInv, CleanerHolds, RecordKept
<1>18. ASSUME NEW l \in Leases, Abandon(l)
      PROVE  DeleteInv'
  BY <1>0, <1>18, AbandonDoes, Apart, RecordStays DEF Same, RecordGets, DeleteInv,
         CleanerHolds, RecordKept
<1>19. ASSUME NEW l \in Leases, CleanupQueue(l)
      PROVE  DeleteInv'
  BY <1>0, <1>19, CleanupQueueDoes, Apart, RecordStays, QueueDoes, RowFields,
     RowTypes DEF
         CopyInv, SagaCopies, SagaHolds, CallCopies, CallHolds, Same, DeleteInv,
         CleanerHolds, RecordKept
<1>20. CASE Crash
  BY <1>0, <1>20, CrashDoes, Apart, RecordStays DEF DeleteInv, CleanerHolds,
         RecordKept
<1>21. ASSUME NEW l \in Leases, SagaStep(l)
      PROVE  DeleteInv'
  BY <1>21, <1>1, <1>3, <1>4, <1>5, <1>6, <1>7, <1>8, <1>9, <1>10
  DEF SagaStep, Begin, CloneCall, BootLease, StrapRead, StrapWrite, SagaErrs,
       FailWrite, CompensateRead, CompensateWrite, At, OnlySaga, rows, Update,
       SagaAndLease, Reading
<1>22. ASSUME NEW l \in Leases, NEW a \in Attempts, CleanerStep(l, a)
      PROVE  DeleteInv'
  BY <1>22, <1>11, <1>12, <1>13, <1>14, <1>15, <1>16
  DEF CleanerStep
<1>23. ASSUME NEW c \in Callers, CallStep(c)
      PROVE  DeleteInv'
  BY <1>23, <1>1, <1>17
  DEF CallStep, ReleaseWrite, RetryWrite, ExtendWrite, Update, CallAndLease, Move,
       rows
<1>24. ASSUME NEW l \in Leases, SweepStep(l)
      PROVE  DeleteInv'
  BY <1>24, <1>1, <1>18, <1>19
  DEF SweepStep, ExpiryScan, ExpiryClaim, StuckRecords, StuckLeases, StuckMove,
       CleanupScan, CleanupCount, GuestScan, Judge, Scan, OnlySweep, rows, Swept,
       Move, SweepAndLease
<1> QED
  BY <1>1, <1>2, <1>20, <1>21, <1>22, <1>23, <1>24
  DEF Next, Progress, Requests, vars, QueueProvision, CloneLands, CloneFails,
       AskRelease, AskRetry, AskExtend, TtlPasses, rows, Asked

\* A record that is past the provisioning and has no guest gets none.
LEMMA HarmlessStays ==
    ASSUME NEW k \in Leases, Harmless(k),
           record[k].state \notin {"none", "provisioning"}, IInv, [Next]_vars
    PROVE  Harmless(k)'
<1>0. /\ TypeOK /\ CopyInv /\ SagaInv
  BY DEF IInv, CopyInv, KeyInv
<1>1. CASE UNCHANGED <<record, task, guest>>
  BY <1>0, <1>1 DEF Harmless, RecordKept, Named
<1>2. ASSUME NEW l \in Leases, Provision(l)
      PROVE  Harmless(k)'
  BY <1>0, <1>2, ProvisionDoes, Apart, RecordStays, ZenonT(30) DEF Same, RecordGets, Harmless,
         RecordKept, Named
<1>3. ASSUME NEW l \in Leases, Reserve(l)
      PROVE  Harmless(k)'
  BY <1>0, <1>3, ReserveDoes, Apart, RecordStays DEF Same, RecordGets, Harmless,
         RecordKept, Named
<1>4. ASSUME NEW l \in Leases, CloneCall(l)
      PROVE  Harmless(k)'
  BY <1>0, <1>4, CloneCallDoes, Apart, RecordStays DEF SagaInv, SagaPlace, SagaGoes,
         Waiting, Same, Harmless, RecordKept, Named
<1>5. ASSUME NEW l \in Leases, Mark(l)
      PROVE  Harmless(k)'
  BY <1>0, <1>5, MarkDoes, Apart, RecordStays DEF Same, RecordGets, Harmless,
         RecordKept, Named
<1>6. ASSUME NEW l \in Leases, BootRecord(l)
      PROVE  Harmless(k)'
  BY <1>0, <1>6, BootRecordDoes, Apart, RecordStays DEF Same, RecordGets, Harmless,
         RecordKept, Named
<1>7. ASSUME NEW l \in Leases, Wait(l)
      PROVE  Harmless(k)'
  BY <1>0, <1>7, WaitDoes, Apart, RecordStays DEF Same, RecordGets, Harmless,
         RecordKept, Named
<1>8. ASSUME NEW l \in Leases, Strap(l)
      PROVE  Harmless(k)'
  BY <1>0, <1>8, StrapDoes, Apart, RecordStays DEF Same, RecordGets, Harmless,
         RecordKept, Named
<1>9. ASSUME NEW l \in Leases, Ready(l)
      PROVE  Harmless(k)'
  BY <1>0, <1>9, ReadyDoes, Apart, RecordStays DEF Same, RecordGets, Harmless,
         RecordKept, Named
<1>10. ASSUME NEW l \in Leases, FailRecord(l)
      PROVE  Harmless(k)'
  BY <1>0, <1>10, FailRecordDoes, Apart, RecordStays DEF Same, RecordGets, Harmless,
         RecordKept, Named
<1>11. ASSUME NEW l \in Leases, CloneLands(l)
      PROVE  Harmless(k)'
  BY <1>0, <1>11, CloneLandsDoes, Apart, RecordStays DEF Same, Harmless, RecordKept,
         Named
<1>12. ASSUME NEW l \in Leases, CloneFails(l)
      PROVE  Harmless(k)'
  BY <1>0, <1>12, CloneFailsDoes, Apart, RecordStays DEF Same, Harmless, RecordKept,
         Named
<1>13. ASSUME NEW l \in Leases, NEW a \in Attempts, CleanDelete(l, a)
      PROVE  Harmless(k)'
  BY <1>0, <1>13, CleanDeleteDoes, Apart, RecordStays DEF Same, Harmless,
         RecordKept, Named
<1>14. ASSUME NEW l \in Leases, Abandon(l)
      PROVE  Harmless(k)'
  BY <1>0, <1>14, AbandonDoes, Apart, RecordStays DEF Same, RecordGets, Harmless,
         RecordKept, Named
<1>15. ASSUME NEW l \in Leases, SagaStep(l)
      PROVE  Harmless(k)'
  BY <1>15, <1>1, <1>3, <1>4, <1>5, <1>6, <1>7, <1>8, <1>9, <1>10
  DEF SagaStep, Begin, BootLease, StrapRead, StrapWrite, SagaErrs, FailWrite,
       CompensateRead, CompensateWrite, CompensateQueue, At, OnlySaga, rows, Update,
       SagaAndLease, Reading, Queue
<1>16. ASSUME NEW l \in Leases, NEW a \in Attempts, CleanerStep(l, a)
      PROVE  Harmless(k)'
  BY <1>16, <1>1, <1>13
  DEF CleanerStep, CleanStart, CleanIdentify, CleanErrs, CleanRelease, CleanFail,
       Clean, OnlyCleaner, rows, Update, CleanerAndLease
<1>17. ASSUME NEW c \in Callers, CallStep(c)
      PROVE  Harmless(k)'
  BY <1>17, <1>1
  DEF CallStep, ReleaseWrite, RetryWrite, ExtendWrite, CallQueue, Update,
       CallAndLease, Move, rows, Queue
<1>18. ASSUME NEW l \in Leases, SweepStep(l)
      PROVE  Harmless(k)'
  BY <1>18, <1>1, <1>14
  DEF SweepStep, ExpiryScan, ExpiryClaim, StuckRecords, StuckLeases, StuckMove,
       CleanupQueue, CleanupScan, CleanupCount, GuestScan, Judge, Scan, OnlySweep,
       rows, Swept, Move, SweepAndLease, Queue
<1> QED
  BY <1>1, <1>2, <1>11, <1>12, <1>15, <1>16, <1>17, <1>18
  DEF Next, Progress, Requests, vars, QueueProvision, AskRelease, AskRetry,
       AskExtend, TtlPasses, Crash, rows, Asked

\* A lease that has shown its claim shares its VMID with harmless records.
LEMMA ClearStep == IInv /\ [Next]_vars => Clear'
<1> SUFFICES ASSUME IInv, [Next]_vars, NEW l \in Leases, NEW m \in Leases,
                    Share(l, m)', ~Over(l)', Shown(l)'
             PROVE  Harmless(m)'
  BY DEF Clear
<1>1. /\ TypeOK /\ CopyInv /\ SagaInv /\ Excl /\ Clear /\ DeleteInv
  BY DEF IInv
<1>2. ~Over(l)
  BY OverStable
<1>3. CASE Share(l, m)
  <2>1. Over(m) /\ record[m].state \notin {"none", "provisioning"}
    BY <1>1, <1>2, <1>3 DEF Excl, Over
  <2>2. CASE Shown(l)
    BY <1>1, <1>2, <1>3, <2>1, <2>2, HarmlessStays DEF Clear
  <2>3. CASE ShowsByClone(l)
    <3>1. guest[record[m].vmid] = Nothing
      BY <1>3, <2>3 DEF ShowsByClone, Share
    <3>2. Harmless(m)
      BY <1>1, <2>1, <3>1, Apart DEF SagaInv, SagaPlace, Named, Harmless
    <3> QED
      BY <2>1, <3>2, HarmlessStays
  <2> QED
    BY <2>2, <2>3, ShownByClone
<1>4. CASE ~Share(l, m)
  <2>1. record'[l].vmid # record[l].vmid \/ record'[m].vmid # record[m].vmid
    BY <1>4 DEF Share
  <2>2. CASE Reserve(l)
    <3>1. saga[l].pc = "reserve" /\ saga'[l].pc = "clone" /\ UNCHANGED <<task, guest,
                                                                         cleaner>>
      BY <1>1, <1>4, <2>2, ReserveDoes DEF SagaGoes, Share
    <3>2. /\ record[l].vmid = Nothing /\ ~record[l].upid /\ task[l] = Nothing /\ ~Named(l)
      BY <1>1, <3>1 DEF SagaInv, SagaPlace, Waiting
    <3>3. ~Shown(l)
      BY <1>1, <3>1, <3>2, Apart DEF Shown, DeleteInv
    <3> QED
      BY <2>2, <3>1, <3>3, ShownByClone DEF ShowsByClone, CloneCall, At
  <2>3. CASE Reserve(m)
    <3>1. saga[m].pc = "reserve" /\ UNCHANGED <<task, guest>>
      BY <1>1, <2>3, ReserveDoes DEF SagaGoes
    <3>2. task[m] = Nothing /\ ~Named(m)
      BY <1>1, <3>1 DEF SagaInv, SagaPlace, Waiting
    <3> QED
      BY <3>1, <3>2 DEF Harmless, Named
  <2> QED
    BY <2>1, <2>2, <2>3, Grounded, VmidByReserve
<1> QED
  BY <1>3, <1>4

\* A lease that its cleanup has begun for is not early again.
LEMMA EarlyBefore ==
    ASSUME NEW k \in Leases, Early(k)', Ground, [Next]_vars
    PROVE  Early(k)
<1>0. /\ TypeOK /\ CopyInv
  BY DEF Ground, CopyInv
<1>1. CASE UNCHANGED <<lease, overtaken>>
  BY <1>0, <1>1 DEF Early
<1>2. ASSUME NEW l \in Leases, Provision(l)
      PROVE  Early(k)
  BY <1>0, <1>2, ProvisionDoes DEF LeaseState, Same, InSaga, Early
<1>3. ASSUME NEW l \in Leases, BootLease(l)
      PROVE  Early(k)
  BY <1>0, <1>3, BootLeaseDoes DEF LeaseGets, Same, Blind, InSaga, Early
<1>4. ASSUME NEW l \in Leases, StrapWrite(l)
      PROVE  Early(k)
  BY <1>0, <1>4, StrapWriteDoes DEF LeaseGets, Same, Blind, InSaga, Early
<1>5. ASSUME NEW l \in Leases, Ready(l)
      PROVE  Early(k)
  BY <1>0, <1>5, ReadyDoes DEF Same, InSaga, Early
<1>6. ASSUME NEW l \in Leases, FailWrite(l)
      PROVE  Early(k)
  BY <1>0, <1>6, FailWriteDoes DEF LeaseGets, Same, Blind, InSaga, Early
<1>7. ASSUME NEW l \in Leases, CompensateWrite(l)
      PROVE  Early(k)
  BY <1>0, <1>7, CompensateWriteDoes DEF LeaseGets, Same, Blind, InSaga, Early
<1>8. ASSUME NEW l \in Leases, NEW a \in Attempts, CleanRelease(l, a)
      PROVE  Early(k)
  BY <1>0, <1>8, CleanReleaseDoes DEF LeaseGets, Same, Blind, InSaga, Early
<1>9. ASSUME NEW l \in Leases, NEW a \in Attempts, CleanFail(l, a)
      PROVE  Early(k)
  BY <1>0, <1>9, CleanFailDoes DEF Same, Blind, InSaga, Early
<1>10. ASSUME NEW c \in Callers, ReleaseWrite(c)
      PROVE  Early(k)
  BY <1>0, <1>10, ReleaseWriteDoes DEF LeaseGets, Same, Blind, InSaga, Early
<1>11. ASSUME NEW c \in Callers, RetryWrite(c)
      PROVE  Early(k)
  BY <1>0, <1>11, RetryWriteDoes DEF LeaseState, Same, InSaga, Early
<1>12. ASSUME NEW c \in Callers, ExtendWrite(c)
      PROVE  Early(k)
  BY <1>0, <1>12, ExtendWriteDoes DEF Same, InSaga, Early
<1>13. ASSUME NEW l \in Leases, ExpiryClaim(l)
      PROVE  Early(k)
  BY <1>0, <1>13, ExpiryClaimDoes DEF LeaseState, Same, InSaga, Early
<1>14. ASSUME NEW l \in Leases, StuckMove(l)
      PROVE  Early(k)
  BY <1>0, <1>14, StuckMoveDoes DEF CopyInv, SweepCopies, LeaseState, Same, InSaga,
         Early
<1>15. ASSUME NEW l \in Leases, CleanupCount(l)
      PROVE  Early(k)
  BY <1>0, <1>15, CleanupCountDoes DEF Same, InSaga, Early
<1>16. ASSUME NEW l \in Leases, SagaStep(l)
      PROVE  Early(k)
  BY <1>16, <1>1, <1>3, <1>4, <1>5, <1>6, <1>7
  DEF SagaStep, Begin, Reserve, CloneCall, Mark, BootRecord, Wait, StrapRead, Strap,
       SagaErrs, FailRecord, CompensateRead, CompensateQueue, At, OnlySaga, rows,
       SagaAndRecord, Boot, Reading, Written, Queue
<1>17. ASSUME NEW l \in Leases, NEW a \in Attempts, CleanerStep(l, a)
      PROVE  Early(k)
  BY <1>17, <1>1, <1>8, <1>9
  DEF CleanerStep, CleanStart, CleanIdentify, CleanDelete, CleanErrs, Clean,
       OnlyCleaner, rows
<1>18. ASSUME NEW c \in Callers, CallStep(c)
      PROVE  Early(k)
  BY <1>18, <1>1, <1>10, <1>11, <1>12
  DEF CallStep, CallQueue, Queue, rows
<1>19. ASSUME NEW l \in Leases, SweepStep(l)
      PROVE  Early(k)
  BY <1>19, <1>1, <1>13, <1>14, <1>15
  DEF SweepStep, ExpiryScan, StuckRecords, StuckLeases, Abandon, CleanupQueue,
       CleanupScan, GuestScan, Judge, Scan, OnlySweep, rows, Queue, Swept
<1> QED
  BY <1>1, <1>2, <1>16, <1>17, <1>18, <1>19
  DEF Next, Progress, Requests, vars, QueueProvision, CloneLands, CloneFails,
       AskRelease, AskRetry, AskExtend, TtlPasses, Crash, rows, Asked

\* No cleanup is queued for an early lease.
LEMMA UntouchedStays ==
    ASSUME NEW k \in Leases, Untouched(k), Early(k)', Ground, [Next]_vars
    PROVE  Untouched(k)'
<1>0. /\ TypeOK /\ CopyInv
  BY DEF Ground, CopyInv
<1>1. CASE UNCHANGED <<cleaner, call, saga>>
  BY <1>0, <1>1 DEF Untouched
<1>2. ASSUME NEW l \in Leases, Provision(l)
      PROVE  Untouched(k)'
  BY <1>0, <1>2, ProvisionDoes DEF Same, SagaGoes, Untouched
<1>3. ASSUME NEW l \in Leases, QueueProvision(l)
      PROVE  Untouched(k)'
  BY <1>0, <1>3, QueueProvisionDoes DEF Same, SagaGoes, Untouched
<1>4. ASSUME NEW l \in Leases, Begin(l)
      PROVE  Untouched(k)'
  BY <1>0, <1>4, BeginDoes DEF Same, SagaGoes, Untouched
<1>5. ASSUME NEW l \in Leases, Reserve(l)
      PROVE  Untouched(k)'
  BY <1>0, <1>5, ReserveDoes DEF Same, SagaGoes, Untouched
<1>6. ASSUME NEW l \in Leases, CloneCall(l)
      PROVE  Untouched(k)'
  BY <1>0, <1>6, CloneCallDoes DEF Same, SagaGoes, Untouched
<1>7. ASSUME NEW l \in Leases, Mark(l)
      PROVE  Untouched(k)'
  BY <1>0, <1>7, MarkDoes DEF Same, SagaGoes, Untouched
<1>8. ASSUME NEW l \in Leases, BootRecord(l)
      PROVE  Untouched(k)'
  BY <1>0, <1>8, BootRecordDoes DEF Same, SagaGoes, Untouched
<1>9. ASSUME NEW l \in Leases, BootLease(l)
      PROVE  Untouched(k)'
  BY <1>0, <1>9, BootLeaseDoes DEF Same, SagaGoes, Untouched
<1>10. ASSUME NEW l \in Leases, Wait(l)
      PROVE  Untouched(k)'
  BY <1>0, <1>10, WaitDoes DEF Same, SagaGoes, Untouched
<1>11. ASSUME NEW l \in Leases, StrapRead(l)
      PROVE  Untouched(k)'
  BY <1>0, <1>11, StrapReadDoes DEF Same, SagaGoes, Untouched
<1>12. ASSUME NEW l \in Leases, StrapWrite(l)
      PROVE  Untouched(k)'
  BY <1>0, <1>12, StrapWriteDoes DEF Same, SagaGoes, Untouched
<1>13. ASSUME NEW l \in Leases, Strap(l)
      PROVE  Untouched(k)'
  BY <1>0, <1>13, StrapDoes DEF Same, SagaGoes, Untouched
<1>14. ASSUME NEW l \in Leases, Ready(l)
      PROVE  Untouched(k)'
  BY <1>0, <1>14, ReadyDoes DEF Same, SagaGoes, Untouched
<1>15. ASSUME NEW l \in Leases, SagaErrs(l)
      PROVE  Untouched(k)'
  BY <1>0, <1>15, SagaErrsDoes DEF Same, SagaGoes, Untouched
<1>16. ASSUME NEW l \in Leases, FailRecord(l)
      PROVE  Untouched(k)'
  BY <1>0, <1>16, FailRecordDoes DEF Same, SagaGoes, Untouched
<1>17. ASSUME NEW l \in Leases, FailWrite(l)
      PROVE  Untouched(k)'
  BY <1>0, <1>17, FailWriteDoes DEF Same, SagaGoes, Untouched
<1>18. ASSUME NEW l \in Leases, CompensateRead(l)
      PROVE  Untouched(k)'
  BY <1>0, <1>18, CompensateReadDoes DEF Same, SagaGoes, Untouched
<1>19. ASSUME NEW l \in Leases, CompensateWrite(l)
      PROVE  Untouched(k)'
  BY <1>0, <1>19, CompensateWriteDoes DEF Early, LeaseGets, InSaga, Same, Untouched
<1>20. ASSUME NEW l \in Leases, CompensateQueue(l)
      PROVE  Untouched(k)'
  BY <1>0, <1>20, CompensateQueueDoes, QueueDoes, RowFields, RowTypes DEF CopyInv,
         SagaCopies, SagaHolds, CallCopies, CallHolds, Same, SagaGoes, Untouched
<1>21. ASSUME NEW l \in Leases, NEW a \in Attempts, CleanStart(l, a)
      PROVE  Untouched(k)'
  BY <1>0, <1>21, CleanStartDoes DEF Same, CleanerGoes, Untouched
<1>22. ASSUME NEW l \in Leases, NEW a \in Attempts, CleanIdentify(l, a)
      PROVE  Untouched(k)'
  BY <1>0, <1>22, CleanIdentifyDoes DEF Same, CleanerGoes, Untouched
<1>23. ASSUME NEW l \in Leases, NEW a \in Attempts, CleanDelete(l, a)
      PROVE  Untouched(k)'
  BY <1>0, <1>23, CleanDeleteDoes DEF Same, CleanerGoes, Untouched
<1>24. ASSUME NEW l \in Leases, NEW a \in Attempts, CleanErrs(l, a)
      PROVE  Untouched(k)'
  BY <1>0, <1>24, CleanErrsDoes DEF Same, CleanerGoes, Untouched
<1>25. ASSUME NEW l \in Leases, NEW a \in Attempts, CleanRelease(l, a)
      PROVE  Untouched(k)'
  BY <1>0, <1>25, CleanReleaseDoes DEF Same, CleanerGoes, Untouched
<1>26. ASSUME NEW l \in Leases, NEW a \in Attempts, CleanFail(l, a)
      PROVE  Untouched(k)'
  BY <1>0, <1>26, CleanFailDoes DEF Same, CleanerGoes, Untouched
<1>27. ASSUME NEW c \in Callers, NEW l \in Leases, AskRelease(c, l)
      PROVE  Untouched(k)'
  BY <1>0, <1>27, AskReleaseDoes DEF CallGoes, Untouched
<1>28. ASSUME NEW c \in Callers, NEW l \in Leases, AskRetry(c, l)
      PROVE  Untouched(k)'
  BY <1>0, <1>28, AskRetryDoes DEF CallGoes, Untouched
<1>29. ASSUME NEW c \in Callers, NEW l \in Leases, AskExtend(c, l)
      PROVE  Untouched(k)'
  BY <1>0, <1>29, AskExtendDoes DEF CallGoes, Untouched
<1>30. ASSUME NEW c \in Callers, ReleaseWrite(c)
      PROVE  Untouched(k)'
  BY <1>0, <1>30, ReleaseWriteDoes DEF Early, LeaseGets, InSaga, Same, CallGoes,
         Untouched
<1>31. ASSUME NEW c \in Callers, RetryWrite(c)
      PROVE  Untouched(k)'
  BY <1>0, <1>31, RetryWriteDoes DEF Early, LeaseState, InSaga, Same, CallGoes,
         Untouched
<1>32. ASSUME NEW c \in Callers, ExtendWrite(c)
      PROVE  Untouched(k)'
  BY <1>0, <1>32, ExtendWriteDoes DEF Same, CallGoes, Untouched
<1>33. ASSUME NEW c \in Callers, CallQueue(c)
      PROVE  Untouched(k)'
  BY <1>0, <1>33, CallQueueDoes, QueueDoes, RowFields, RowTypes DEF CopyInv,
         SagaCopies, SagaHolds, CallCopies, CallHolds, CallGoes, Same, Untouched
<1>34. ASSUME NEW l \in Leases, CleanupQueue(l)
      PROVE  Untouched(k)'
  BY <1>0, <1>34, CleanupQueueDoes, QueueDoes, RowFields, RowTypes, EarlyBefore DEF
         Early, InSaga, Same, Untouched
<1>35. CASE Crash
  BY <1>0, <1>35, CrashDoes DEF Untouched
<1>36. ASSUME NEW l \in Leases, SagaStep(l)
      PROVE  Untouched(k)'
  BY <1>36, <1>4, <1>5, <1>6, <1>7, <1>8, <1>9, <1>10, <1>11, <1>12, <1>13, <1>14,
     <1>15, <1>16, <1>17, <1>18, <1>19, <1>20
  DEF SagaStep
<1>37. ASSUME NEW l \in Leases, NEW a \in Attempts, CleanerStep(l, a)
      PROVE  Untouched(k)'
  BY <1>37, <1>21, <1>22, <1>23, <1>24, <1>25, <1>26
  DEF CleanerStep
<1>38. ASSUME NEW c \in Callers, CallStep(c)
      PROVE  Untouched(k)'
  BY <1>38, <1>30, <1>31, <1>32, <1>33
  DEF CallStep
<1>39. ASSUME NEW l \in Leases, SweepStep(l)
      PROVE  Untouched(k)'
  BY <1>39, <1>1, <1>34
  DEF SweepStep, ExpiryScan, ExpiryClaim, StuckRecords, StuckLeases, StuckMove,
       Abandon, CleanupScan, CleanupCount, GuestScan, Judge, Scan, OnlySweep, rows,
       Swept, Move, SweepAndLease
<1> QED
  BY <1>1, <1>2, <1>3, <1>27, <1>28, <1>29, <1>35, <1>36, <1>37, <1>38, <1>39
  DEF Next, Progress, Requests, vars, CloneLands, CloneFails, TtlPasses, rows

\* An early lease has no cleanup.
LEMMA EarlyStep == IInv /\ [Next]_vars => EarlyInv'
BY Grounded, EarlyBefore, UntouchedStays DEF IInv, EarlyInv

\* A spent lease deletes nothing.
LEMMA SpentDeletesNothing ==
    ASSUME NEW k \in Leases, NEW a \in Attempts, Spent(k)
    PROVE  cleaner[k][a].pc # "delete"
<1>1. PICK h \in Attempts : Last(k, h) /\ cleaner[k][h].pc \in Finished
  BY DEF Spent
<1> QED
  BY <1>1, AttemptsOrder DEF Last, LastCleaner, Ended, Finished

\* The guest of an early lease stays.
LEMMA StandsStays ==
    ASSUME NEW k \in Leases, Stands(k), Early(k)', IInv, [Next]_vars
    PROVE  Stands(k)'
<1>0. /\ TypeOK /\ CopyInv /\ SagaInv /\ Excl /\ EarlyInv
  BY DEF IInv, CopyInv, KeyInv
<1>1. CASE UNCHANGED <<record, guest>>
  BY <1>0, <1>1 DEF Stands, RecordKept
<1>2. ASSUME NEW l \in Leases, Provision(l)
      PROVE  Stands(k)'
  BY <1>0, <1>2, ProvisionDoes, Apart, RecordStays DEF Same, Stands, RecordKept
<1>3. ASSUME NEW l \in Leases, Reserve(l)
      PROVE  Stands(k)'
  BY <1>0, <1>3, ReserveDoes, Apart, RecordStays DEF Same, Stands, RecordKept
<1>4. ASSUME NEW l \in Leases, Mark(l)
      PROVE  Stands(k)'
  BY <1>0, <1>4, MarkDoes, Apart, RecordStays DEF Same, Stands, RecordKept
<1>5. ASSUME NEW l \in Leases, BootRecord(l)
      PROVE  Stands(k)'
  BY <1>0, <1>5, BootRecordDoes, Apart, RecordStays DEF Same, Stands, RecordKept
<1>6. ASSUME NEW l \in Leases, Wait(l)
      PROVE  Stands(k)'
  BY <1>0, <1>6, WaitDoes, Apart, RecordStays DEF Same, Stands, RecordKept
<1>7. ASSUME NEW l \in Leases, Strap(l)
      PROVE  Stands(k)'
  BY <1>0, <1>7, StrapDoes, Apart, RecordStays DEF Same, Stands, RecordKept
<1>8. ASSUME NEW l \in Leases, Ready(l)
      PROVE  Stands(k)'
  BY <1>0, <1>8, ReadyDoes, Apart, RecordStays DEF Same, Stands, RecordKept
<1>9. ASSUME NEW l \in Leases, FailRecord(l)
      PROVE  Stands(k)'
  BY <1>0, <1>9, FailRecordDoes, Apart, RecordStays DEF Same, Stands, RecordKept
<1>10. ASSUME NEW l \in Leases, CloneLands(l)
      PROVE  Stands(k)'
  BY <1>0, <1>10, CloneLandsDoes, Apart, RecordStays DEF Same, Stands, RecordKept
<1>11. ASSUME NEW l \in Leases, NEW a \in Attempts, CleanDelete(l, a)
      PROVE  Stands(k)'
  <2>1. /\ cleaner[l][a].pc = "delete" /\ record' = record
        /\ \A v \in Vmids : v # record[l].vmid => guest'[v] = guest[v]
    BY <1>0, <1>11, CleanDeleteDoes DEF CleanerGoes
  <2>2. l # k
    BY <1>0, <2>1, Grounded, EarlyBefore DEF EarlyInv, Untouched
  <2>3. ~Over(k)
    BY Grounded, EarlyBefore DEF Early, Over, InSaga
  <2>4. ~Over(l)
    BY <2>1, SpentDeletesNothing DEF Over
  <2>5. record[l].vmid # record[k].vmid
    BY <1>0, <2>2, <2>3, <2>4, Apart DEF Excl, Share, Stands
  <2> QED
    BY <2>1, <2>5 DEF Stands
<1>12. ASSUME NEW l \in Leases, Abandon(l)
      PROVE  Stands(k)'
  BY <1>0, <1>12, AbandonDoes, Apart, RecordStays DEF Same, Stands, RecordKept
<1>13. ASSUME NEW l \in Leases, SagaStep(l)
      PROVE  Stands(k)'
  BY <1>13, <1>1, <1>3, <1>4, <1>5, <1>6, <1>7, <1>8, <1>9
  DEF SagaStep, Begin, CloneCall, BootLease, StrapRead, StrapWrite, SagaErrs,
       FailWrite, CompensateRead, CompensateWrite, CompensateQueue, At, OnlySaga,
       rows, Update, SagaAndLease, Reading, Queue
<1>14. ASSUME NEW l \in Leases, NEW a \in Attempts, CleanerStep(l, a)
      PROVE  Stands(k)'
  BY <1>14, <1>1, <1>11
  DEF CleanerStep, CleanStart, CleanIdentify, CleanErrs, CleanRelease, CleanFail,
       Clean, OnlyCleaner, rows, Update, CleanerAndLease
<1>15. ASSUME NEW c \in Callers, CallStep(c)
      PROVE  Stands(k)'
  BY <1>15, <1>1
  DEF CallStep, ReleaseWrite, RetryWrite, ExtendWrite, CallQueue, Update,
       CallAndLease, Move, rows, Queue
<1>16. ASSUME NEW l \in Leases, SweepStep(l)
      PROVE  Stands(k)'
  BY <1>16, <1>1, <1>12
  DEF SweepStep, ExpiryScan, ExpiryClaim, StuckRecords, StuckLeases, StuckMove,
       CleanupQueue, CleanupScan, CleanupCount, GuestScan, Judge, Scan, OnlySweep,
       rows, Swept, Move, SweepAndLease, Queue
<1> QED
  BY <1>1, <1>2, <1>10, <1>13, <1>14, <1>15, <1>16
  DEF Next, Progress, Requests, vars, QueueProvision, CloneFails, AskRelease,
       AskRetry, AskExtend, TtlPasses, Crash, rows, Asked

\* A lease is ready, and its guest boots, only where the guest was seen.
LEMMA BootedBefore ==
    ASSUME NEW k \in Leases, BootedOrReady(k)', IInv, [Next]_vars
    PROVE  Stands(k) \/ BootedOrReady(k)
<1>0. /\ TypeOK /\ CopyInv /\ SagaInv
  BY DEF IInv, CopyInv, KeyInv
<1>1. CASE UNCHANGED <<lease, saga>>
  BY <1>0, <1>1 DEF BootedOrReady, Booted
<1>2. ASSUME NEW l \in Leases, Provision(l)
      PROVE  Stands(k) \/ BootedOrReady(k)
  BY <1>0, <1>2, ProvisionDoes DEF SagaGoes, LeaseState, Same, BootedOrReady, Booted
<1>3. ASSUME NEW l \in Leases, QueueProvision(l)
      PROVE  Stands(k) \/ BootedOrReady(k)
  BY <1>0, <1>3, QueueProvisionDoes DEF SagaGoes, Same, BootedOrReady, Booted
<1>4. ASSUME NEW l \in Leases, Begin(l)
      PROVE  Stands(k) \/ BootedOrReady(k)
  BY <1>0, <1>4, BeginDoes DEF SagaGoes, Same, BootedOrReady, Booted
<1>5. ASSUME NEW l \in Leases, Reserve(l)
      PROVE  Stands(k) \/ BootedOrReady(k)
  BY <1>0, <1>5, ReserveDoes DEF SagaGoes, Same, BootedOrReady, Booted
<1>6. ASSUME NEW l \in Leases, CloneCall(l)
      PROVE  Stands(k) \/ BootedOrReady(k)
  BY <1>0, <1>6, CloneCallDoes DEF SagaGoes, Same, BootedOrReady, Booted
<1>7. ASSUME NEW l \in Leases, Mark(l)
      PROVE  Stands(k) \/ BootedOrReady(k)
  BY <1>0, <1>7, MarkDoes DEF SagaGoes, Same, BootedOrReady, Booted
<1>8. ASSUME NEW l \in Leases, BootRecord(l)
      PROVE  Stands(k) \/ BootedOrReady(k)
  BY <1>0, <1>8, BootRecordDoes DEF Stands, SagaInv, SagaPlace, Cloned, SagaGoes,
         Same, BootedOrReady, Booted
<1>9. ASSUME NEW l \in Leases, BootLease(l)
      PROVE  Stands(k) \/ BootedOrReady(k)
  BY <1>0, <1>9, BootLeaseDoes DEF SagaGoes, LeaseGets, Same, BootedOrReady, Booted
<1>10. ASSUME NEW l \in Leases, Wait(l)
      PROVE  Stands(k) \/ BootedOrReady(k)
  BY <1>0, <1>10, WaitDoes DEF SagaGoes, Same, BootedOrReady, Booted
<1>11. ASSUME NEW l \in Leases, StrapRead(l)
      PROVE  Stands(k) \/ BootedOrReady(k)
  BY <1>0, <1>11, StrapReadDoes DEF SagaGoes, Same, BootedOrReady, Booted
<1>12. ASSUME NEW l \in Leases, StrapWrite(l)
      PROVE  Stands(k) \/ BootedOrReady(k)
  BY <1>0, <1>12, StrapWriteDoes DEF SagaGoes, LeaseGets, Same, BootedOrReady,
         Booted
<1>13. ASSUME NEW l \in Leases, Strap(l)
      PROVE  Stands(k) \/ BootedOrReady(k)
  BY <1>0, <1>13, StrapDoes DEF SagaGoes, Same, BootedOrReady, Booted
<1>14. ASSUME NEW l \in Leases, Ready(l)
      PROVE  Stands(k) \/ BootedOrReady(k)
  BY <1>0, <1>14, ReadyDoes DEF SagaGoes, Same, BootedOrReady, Booted
<1>15. ASSUME NEW l \in Leases, SagaErrs(l)
      PROVE  Stands(k) \/ BootedOrReady(k)
  BY <1>0, <1>15, SagaErrsDoes DEF SagaGoes, Same, BootedOrReady, Booted
<1>16. ASSUME NEW l \in Leases, FailRecord(l)
      PROVE  Stands(k) \/ BootedOrReady(k)
  BY <1>0, <1>16, FailRecordDoes DEF SagaGoes, Same, BootedOrReady, Booted
<1>17. ASSUME NEW l \in Leases, FailWrite(l)
      PROVE  Stands(k) \/ BootedOrReady(k)
  BY <1>0, <1>17, FailWriteDoes DEF SagaGoes, LeaseGets, Same, BootedOrReady, Booted
<1>18. ASSUME NEW l \in Leases, CompensateRead(l)
      PROVE  Stands(k) \/ BootedOrReady(k)
  BY <1>0, <1>18, CompensateReadDoes DEF SagaGoes, Same, BootedOrReady, Booted
<1>19. ASSUME NEW l \in Leases, CompensateWrite(l)
      PROVE  Stands(k) \/ BootedOrReady(k)
  BY <1>0, <1>19, CompensateWriteDoes DEF LeaseGets, Same, BootedOrReady, Booted
<1>20. ASSUME NEW l \in Leases, CompensateQueue(l)
      PROVE  Stands(k) \/ BootedOrReady(k)
  BY <1>0, <1>20, CompensateQueueDoes DEF SagaGoes, Same, BootedOrReady, Booted
<1>21. ASSUME NEW l \in Leases, NEW a \in Attempts, CleanRelease(l, a)
      PROVE  Stands(k) \/ BootedOrReady(k)
  BY <1>0, <1>21, CleanReleaseDoes DEF LeaseGets, Same, BootedOrReady, Booted
<1>22. ASSUME NEW l \in Leases, NEW a \in Attempts, CleanFail(l, a)
      PROVE  Stands(k) \/ BootedOrReady(k)
  BY <1>0, <1>22, CleanFailDoes DEF Same, BootedOrReady, Booted
<1>23. ASSUME NEW c \in Callers, ReleaseWrite(c)
      PROVE  Stands(k) \/ BootedOrReady(k)
  BY <1>0, <1>23, ReleaseWriteDoes DEF LeaseGets, Same, BootedOrReady, Booted
<1>24. ASSUME NEW c \in Callers, RetryWrite(c)
      PROVE  Stands(k) \/ BootedOrReady(k)
  BY <1>0, <1>24, RetryWriteDoes DEF LeaseState, Same, BootedOrReady, Booted
<1>25. ASSUME NEW c \in Callers, ExtendWrite(c)
      PROVE  Stands(k) \/ BootedOrReady(k)
  BY <1>0, <1>25, ExtendWriteDoes DEF Same, BootedOrReady, Booted
<1>26. ASSUME NEW l \in Leases, ExpiryClaim(l)
      PROVE  Stands(k) \/ BootedOrReady(k)
  BY <1>0, <1>26, ExpiryClaimDoes DEF LeaseState, Same, BootedOrReady, Booted
<1>27. ASSUME NEW l \in Leases, StuckMove(l)
      PROVE  Stands(k) \/ BootedOrReady(k)
  BY <1>0, <1>27, StuckMoveDoes DEF CopyInv, SweepCopies, LeaseState, Same,
         BootedOrReady, Booted
<1>28. ASSUME NEW l \in Leases, CleanupCount(l)
      PROVE  Stands(k) \/ BootedOrReady(k)
  BY <1>0, <1>28, CleanupCountDoes DEF Same, BootedOrReady, Booted
<1>29. CASE Crash
  BY <1>0, <1>29, CrashDoes DEF BootedOrReady, Booted
<1>30. ASSUME NEW l \in Leases, SagaStep(l)
      PROVE  Stands(k) \/ BootedOrReady(k)
  BY <1>30, <1>4, <1>5, <1>6, <1>7, <1>8, <1>9, <1>10, <1>11, <1>12, <1>13, <1>14,
     <1>15, <1>16, <1>17, <1>18, <1>19, <1>20
  DEF SagaStep
<1>31. ASSUME NEW l \in Leases, NEW a \in Attempts, CleanerStep(l, a)
      PROVE  Stands(k) \/ BootedOrReady(k)
  BY <1>31, <1>1, <1>21, <1>22
  DEF CleanerStep, CleanStart, CleanIdentify, CleanDelete, CleanErrs, Clean,
       OnlyCleaner, rows
<1>32. ASSUME NEW c \in Callers, CallStep(c)
      PROVE  Stands(k) \/ BootedOrReady(k)
  BY <1>32, <1>1, <1>23, <1>24, <1>25
  DEF CallStep, CallQueue, Queue, rows
<1>33. ASSUME NEW l \in Leases, SweepStep(l)
      PROVE  Stands(k) \/ BootedOrReady(k)
  BY <1>33, <1>1, <1>26, <1>27, <1>28
  DEF SweepStep, ExpiryScan, StuckRecords, StuckLeases, Abandon, CleanupQueue,
       CleanupScan, GuestScan, Judge, Scan, OnlySweep, rows, Queue, Swept
<1> QED
  BY <1>1, <1>2, <1>3, <1>29, <1>30, <1>31, <1>32, <1>33
  DEF Next, Progress, Requests, vars, CloneLands, CloneFails, AskRelease, AskRetry,
       AskExtend, TtlPasses, rows, Asked

\* From the boot on, the guest of an early lease stands.
LEMMA GuestStep == IInv /\ [Next]_vars => GuestInv'
BY Grounded, EarlyBefore, StandsStays, BootedBefore DEF IInv, GuestInv

\* A claim that is wrong by now will find another deadline.
LEMMA ClaimStep == Ground /\ ReadyInv /\ ClaimInv /\ [Next]_vars => ClaimInv'
<1> SUFFICES ASSUME Ground, ReadyInv, ClaimInv, [Next]_vars PROVE ClaimInv' OBVIOUS
<1>0. /\ TypeOK /\ CopyInv /\ ReadyInv /\ ClaimInv
  BY DEF Ground, CopyInv
<1>1. CASE UNCHANGED <<sweep, saga, lease, lapsed>>
  BY <1>0, <1>1 DEF ClaimInv, RightUntilMoved
<1>2. ASSUME NEW l \in Leases, Provision(l)
      PROVE  ClaimInv'
  <2>1. /\ lease'[l].state # "ready" /\ UNCHANGED <<sweep, lapsed>>
        /\ \A m \in Leases : m # l => lease'[m] = lease[m] /\ saga'[m] = saga[m]
        /\ saga[l].pc # "done"
    BY <1>0, <1>2, ProvisionDoes DEF SagaGoes, LeaseState, Same
  <2> QED
    BY <1>0, <2>1 DEF ClaimInv, RightUntilMoved
<1>3. ASSUME NEW l \in Leases, QueueProvision(l)
      PROVE  ClaimInv'
  BY <1>0, <1>3, QueueProvisionDoes DEF SagaGoes, Same, ClaimInv, RightUntilMoved
<1>4. ASSUME NEW l \in Leases, Begin(l)
      PROVE  ClaimInv'
  BY <1>0, <1>4, BeginDoes DEF SagaGoes, Same, ClaimInv, RightUntilMoved
<1>5. ASSUME NEW l \in Leases, Reserve(l)
      PROVE  ClaimInv'
  BY <1>0, <1>5, ReserveDoes DEF SagaGoes, Same, ClaimInv, RightUntilMoved
<1>6. ASSUME NEW l \in Leases, CloneCall(l)
      PROVE  ClaimInv'
  BY <1>0, <1>6, CloneCallDoes DEF SagaGoes, Same, ClaimInv, RightUntilMoved
<1>7. ASSUME NEW l \in Leases, Mark(l)
      PROVE  ClaimInv'
  BY <1>0, <1>7, MarkDoes DEF SagaGoes, Same, ClaimInv, RightUntilMoved
<1>8. ASSUME NEW l \in Leases, BootRecord(l)
      PROVE  ClaimInv'
  BY <1>0, <1>8, BootRecordDoes DEF SagaGoes, Same, ClaimInv, RightUntilMoved
<1>9. ASSUME NEW l \in Leases, BootLease(l)
      PROVE  ClaimInv'
  BY <1>0, <1>9, BootLeaseDoes DEF SagaGoes, LeaseGets, Same, ClaimInv,
         RightUntilMoved
<1>10. ASSUME NEW l \in Leases, Wait(l)
      PROVE  ClaimInv'
  BY <1>0, <1>10, WaitDoes DEF SagaGoes, Same, ClaimInv, RightUntilMoved
<1>11. ASSUME NEW l \in Leases, StrapRead(l)
      PROVE  ClaimInv'
  BY <1>0, <1>11, StrapReadDoes DEF SagaGoes, Same, ClaimInv, RightUntilMoved
<1>12. ASSUME NEW l \in Leases, StrapWrite(l)
      PROVE  ClaimInv'
  BY <1>0, <1>12, StrapWriteDoes DEF SagaGoes, LeaseGets, Same, ClaimInv,
         RightUntilMoved
<1>13. ASSUME NEW l \in Leases, Strap(l)
      PROVE  ClaimInv'
  BY <1>0, <1>13, StrapDoes DEF SagaGoes, Same, ClaimInv, RightUntilMoved
<1>14. ASSUME NEW l \in Leases, Ready(l)
      PROVE  ClaimInv'
  BY <1>0, <1>14, ReadyDoes DEF SagaGoes, Same, ClaimInv, RightUntilMoved
<1>15. ASSUME NEW l \in Leases, SagaErrs(l)
      PROVE  ClaimInv'
  BY <1>0, <1>15, SagaErrsDoes DEF SagaGoes, Same, ClaimInv, RightUntilMoved
<1>16. ASSUME NEW l \in Leases, FailRecord(l)
      PROVE  ClaimInv'
  BY <1>0, <1>16, FailRecordDoes DEF SagaGoes, Same, ClaimInv, RightUntilMoved
<1>17. ASSUME NEW l \in Leases, FailWrite(l)
      PROVE  ClaimInv'
  BY <1>0, <1>17, FailWriteDoes DEF SagaGoes, LeaseGets, Same, ClaimInv,
         RightUntilMoved
<1>18. ASSUME NEW l \in Leases, CompensateRead(l)
      PROVE  ClaimInv'
  BY <1>0, <1>18, CompensateReadDoes DEF SagaGoes, Same, ClaimInv, RightUntilMoved
<1>19. ASSUME NEW l \in Leases, CompensateWrite(l)
      PROVE  ClaimInv'
  BY <1>0, <1>19, CompensateWriteDoes DEF LeaseGets, Same, ClaimInv, RightUntilMoved
<1>20. ASSUME NEW l \in Leases, CompensateQueue(l)
      PROVE  ClaimInv'
  BY <1>0, <1>20, CompensateQueueDoes DEF SagaGoes, Same, ClaimInv, RightUntilMoved
<1>21. ASSUME NEW l \in Leases, NEW a \in Attempts, CleanRelease(l, a)
      PROVE  ClaimInv'
  BY <1>0, <1>21, CleanReleaseDoes DEF LeaseGets, Same, ClaimInv, RightUntilMoved
<1>22. ASSUME NEW l \in Leases, NEW a \in Attempts, CleanFail(l, a)
      PROVE  ClaimInv'
  BY <1>0, <1>22, CleanFailDoes DEF Same, ClaimInv, RightUntilMoved
<1>23. ASSUME NEW c \in Callers, ReleaseWrite(c)
      PROVE  ClaimInv'
  BY <1>0, <1>23, ReleaseWriteDoes DEF LeaseGets, Same, ClaimInv, RightUntilMoved
<1>24. ASSUME NEW c \in Callers, RetryWrite(c)
      PROVE  ClaimInv'
  BY <1>0, <1>24, RetryWriteDoes DEF LeaseState, Same, ClaimInv, RightUntilMoved
<1>25. ASSUME NEW c \in Callers, ExtendWrite(c)
      PROVE  ClaimInv'
  <2>0. PICK k \in Leases : k = call[c].lease
    BY <1>0, <1>25, ExtendWriteDoes
  <2>1. /\ UNCHANGED <<saga, sweep>>
        /\ \A m \in Leases : m # k => lease'[m] = lease[m]
        /\ \A m \in Leases : m # k => (m \in lapsed' <=> m \in lapsed)
        /\ \/ UNCHANGED <<lease, lapsed>>
           \/ lease[k].state = "ready" /\ lease'[k].expires = lease[k].expires + 1
    BY <1>0, <2>0, <1>25, ExtendWriteDoes DEF Same
  <2>2. ASSUME NEW m \in Leases, sweep.pc = "claim" /\ sweep.lease = m
        PROVE  lease[m].expires \in Nat /\ sweep.row.expires \in Nat
    BY <1>0, <2>2, RowTypes, RowFields, BoundsAssumption
       DEF CopyInv, SweepCopies, SweepHolds
  <2>3. ASSUME NEW m \in Leases, sweep.pc = "claim" /\ sweep.lease = m, m # k
        PROVE  saga[m].pc = "done" /\ (lease'[m].state = "ready" => RightUntilMoved(m)')
    BY <1>0, <2>1, <2>3 DEF ClaimInv, RightUntilMoved
  <2>4. ASSUME sweep.pc = "claim" /\ sweep.lease = k
        PROVE  saga[k].pc = "done" /\ (lease'[k].state = "ready" => RightUntilMoved(k)')
    <3>1. CASE UNCHANGED <<lease, lapsed>>
      BY <1>0, <2>1, <2>4, <3>1 DEF ClaimInv, RightUntilMoved
    <3>2. CASE lease[k].state = "ready" /\ lease'[k].expires = lease[k].expires + 1
      BY <1>0, <2>1, <2>2, <2>4, <3>2 DEF ClaimInv, RightUntilMoved
    <3> QED
      BY <2>1, <3>1, <3>2
  <2> QED
    BY <2>1, <2>3, <2>4 DEF ClaimInv
<1>26. ASSUME NEW l \in Leases, ExpiryScan(l)
      PROVE  ClaimInv'
  BY <1>0, <1>26, ExpiryScanDoes, RowTypes, RowFields, BoundsAssumption DEF
         ReadyInv, ClaimInv, RightUntilMoved
<1>27. ASSUME NEW l \in Leases, ExpiryClaim(l)
      PROVE  ClaimInv'
  BY <1>0, <1>27, ExpiryClaimDoes DEF LeaseState, Same, ClaimInv, RightUntilMoved
<1>28. ASSUME NEW l \in Leases, StuckRecords(l)
      PROVE  ClaimInv'
  BY <1>0, <1>28, StuckRecordsDoes DEF ClaimInv, RightUntilMoved
<1>29. ASSUME NEW l \in Leases, StuckLeases(l)
      PROVE  ClaimInv'
  BY <1>0, <1>29, StuckLeasesDoes DEF ClaimInv, RightUntilMoved
<1>30. ASSUME NEW l \in Leases, StuckMove(l)
      PROVE  ClaimInv'
  BY <1>0, <1>30, StuckMoveDoes DEF CopyInv, SweepCopies, LeaseState, Same,
         ClaimInv, RightUntilMoved
<1>31. ASSUME NEW l \in Leases, CleanupScan(l)
      PROVE  ClaimInv'
  BY <1>0, <1>31, CleanupScanDoes DEF ClaimInv, RightUntilMoved
<1>32. ASSUME NEW l \in Leases, CleanupCount(l)
      PROVE  ClaimInv'
  BY <1>0, <1>32, CleanupCountDoes DEF Same, ClaimInv, RightUntilMoved
<1>33. ASSUME NEW l \in Leases, GuestScan(l)
      PROVE  ClaimInv'
  BY <1>0, <1>33, GuestScanDoes DEF ClaimInv, RightUntilMoved
<1>34. ASSUME NEW l \in Leases, Judge(l)
      PROVE  ClaimInv'
  BY <1>0, <1>34, JudgeDoes DEF ClaimInv, RightUntilMoved
<1>35. ASSUME NEW l \in Leases, TtlPasses(l)
      PROVE  ClaimInv'
  BY <1>0, <1>35, TtlPassesDoes DEF ClaimInv, RightUntilMoved
<1>36. CASE Crash
  BY <1>0, <1>36, CrashDoes DEF ClaimInv, RightUntilMoved
<1>37. ASSUME NEW l \in Leases, SagaStep(l)
      PROVE  ClaimInv'
  BY <1>37, <1>4, <1>5, <1>6, <1>7, <1>8, <1>9, <1>10, <1>11, <1>12, <1>13, <1>14,
     <1>15, <1>16, <1>17, <1>18, <1>19, <1>20
  DEF SagaStep
<1>38. ASSUME NEW l \in Leases, NEW a \in Attempts, CleanerStep(l, a)
      PROVE  ClaimInv'
  BY <1>38, <1>1, <1>21, <1>22
  DEF CleanerStep, CleanStart, CleanIdentify, CleanDelete, CleanErrs, Clean,
       OnlyCleaner, rows
<1>39. ASSUME NEW c \in Callers, CallStep(c)
      PROVE  ClaimInv'
  BY <1>39, <1>1, <1>23, <1>24, <1>25
  DEF CallStep, CallQueue, Queue, rows
<1>40. ASSUME NEW l \in Leases, SweepStep(l)
      PROVE  ClaimInv'
  BY <1>40, <1>1, <1>26, <1>27, <1>28, <1>29, <1>30, <1>31, <1>32, <1>33, <1>34
  DEF SweepStep, Abandon, CleanupQueue, rows, Queue
<1> QED
  BY <1>1, <1>2, <1>3, <1>35, <1>36, <1>37, <1>38, <1>39, <1>40
  DEF Next, Progress, Requests, vars, CloneLands, CloneFails, AskRelease, AskRetry,
       AskExtend, rows, Asked

-----------------------------------------------------------------------------
\* The rows a lease starts with.
LEMMA InitRows ==
    ASSUME InitialRows
    PROVE  /\ \A l \in Leases :
                  /\ lease[l] \in Rows /\ lease[l].state = "requested" /\ ~lease[l].link
                  /\ lease[l].attempts = 0
                  /\ record[l].state = "none" /\ record[l].vmid = Nothing
                  /\ ~record[l].upid /\ task[l] = Nothing /\ saga[l].pc = "none"
                  /\ \A a \in Attempts : cleaner[l][a].pc = "absent"
           /\ \A c \in Callers : call[c].pc = "ready"
           /\ sweep.pc = "idle"
<1>1. ASSUME NEW l \in Leases
      PROVE  /\ lease[l] \in Rows /\ lease[l].state = "requested" /\ ~lease[l].link
             /\ lease[l].attempts = 0
  <2>1. PICK how \in {"destroy", "revert"} :
            lease[l] = [state |-> "requested", link |-> FALSE, attempts |-> 0,
                        cleanup |-> how, expires |-> 0]
    BY DEF InitialRows
  <2> QED
    BY <2>1, BoundsAssumption DEF Rows, LeaseStates, Attempts
<1> QED
  BY <1>1 DEF InitialRows, NoSaga, NoCleaner, NoSweep

\* The state the controller starts in has its types, and nothing is copied.
LEMMA InitTypeOK ==
    ASSUME InitialRows, guest \in [Vmids -> Leases \cup {Nothing, Stranger}]
    PROVE  TypeOK
<1>1. lease \in [Leases -> Rows]
  BY InitRows DEF InitialRows
<1>2. record \in [Leases -> Records]
  BY DEF InitialRows, Records, RecordStates
<1>3. saga \in [Leases -> Sagas]
  BY DEF InitialRows, NoSaga, Sagas, SagaPcs, Copies
<1>4. cleaner \in [Leases -> [Attempts -> Cleaners]]
  BY DEF InitialRows, NoCleaner, Cleaners, CleanerPcs, Copies
<1>5. call \in [Callers -> Calls] /\ sweep \in Sweeps
  BY DEF InitialRows, NoSweep, Calls, CallPcs, Sweeps, SweepPcs, Copies
<1>6. task \in [Leases -> Vmids \cup {Nothing}]
  BY DEF InitialRows
<1>7. crashes \in 0 .. MaxCrashes
  BY BoundsAssumption DEF InitialRows
<1>8. lapsed \subseteq Leases /\ reported \subseteq Vmids /\ overtaken \subseteq Leases
  BY DEF InitialRows
<1> QED
  BY <1>1, <1>2, <1>3, <1>4, <1>5, <1>6, <1>7, <1>8 DEF TypeOK

LEMMA InitCopies == InitialRows => CopyInv /\ EarlyInv /\ Aims
<1> SUFFICES ASSUME InitialRows PROVE CopyInv /\ EarlyInv /\ Aims OBVIOUS
<1>1. CopyInv
  BY InitRows DEF CopyInv, SagaCopies, CleanerCopies, CallCopies, SweepCopies,
         SagaHolds, CleanerHolds, CallHolds, SweepHolds
<1> QED
  BY <1>1, InitRows DEF EarlyInv, Untouched, Aims

LEMMA InitIInv == Init => IInv
<1> SUFFICES ASSUME Init PROVE IInv OBVIOUS
<1>1. TypeOK
  BY InitTypeOK DEF Init
<1>2. /\ \A l \in Leases : /\ lease[l].state = "requested" /\ lease[l].attempts = 0
                           /\ record[l].state = "none" /\ record[l].vmid = Nothing
                           /\ ~record[l].upid /\ task[l] = Nothing
                           /\ saga[l].pc = "none"
                           /\ \A a \in Attempts : cleaner[l][a].pc = "absent"
      /\ \A v \in Vmids : guest[v] = Nothing
      /\ \A c \in Callers : call[c].pc = "ready"
      /\ sweep.pc = "idle"
  BY InitRows DEF Init
<1>3. CopyInv /\ EarlyInv
  BY InitCopies DEF Init
<1>4. SagaInv
  BY <1>2, Apart, BoundsAssumption
     DEF SagaInv, SagaPlace, Named, Waiting, Cloned, Booted
<1>5. ReadyInv
  BY <1>2 DEF ReadyInv
<1>6. KeyInv
  <2>1. 0 \in Attempts /\ (\A a \in Attempts : ~(a < 0)) /\ 0 <= 0
    BY BoundsAssumption DEF Attempts
  <2>2. \A l \in Leases : Last(l, 0)
    <3>1. \A l \in Leases : LastCleaner(l, 0)
      BY <1>2, <2>1 DEF LastCleaner
    <3>2. \A l \in Leases : lease[l].attempts <= 0
      BY <1>2, <2>1, Zenon
    <3>3. \A l \in Leases :
              SagaUpTo(l, 0) /\ CleanerUpTo(l, 0) /\ CallUpTo(l, 0) /\ SweepUpTo(l, 0)
      BY <1>2 DEF SagaUpTo, CleanerUpTo, CallUpTo, SweepUpTo, SagaHolds, CleanerHolds,
           CallHolds, SweepHolds
    <3> QED
      BY <3>1, <3>2, <3>3 DEF Last
  <2> QED
    BY <1>2, <2>1, <2>2 DEF KeyInv, LastInv, SpentInv, CountInv
<1>7. Excl /\ Clear
  BY <1>2 DEF Excl, Clear, Share
<1>8. DeleteInv
  BY <1>2 DEF DeleteInv, CleanerHolds
<1>9. GuestInv
  BY <1>2 DEF GuestInv, BootedOrReady, Booted
<1>10. ClaimInv
  BY <1>2 DEF ClaimInv
<1> QED
  BY <1>1, <1>3, <1>4, <1>5, <1>6, <1>7, <1>8, <1>9, <1>10 DEF IInv

\* The invariant holds in every state the controller reaches.
THEOREM Inductive == Spec => []IInv
<1>1. IInv /\ [Next]_vars => IInv'
  <2> SUFFICES ASSUME IInv, [Next]_vars PROVE IInv' OBVIOUS
  <2>1. TypeOK'
    BY Grounded, TypeStep
  <2>2. CopyInv'
    BY Grounded, CopiesStep
  <2>3. ReadyInv' /\ ClaimInv'
    BY Grounded, ReadyStep, ClaimStep DEF IInv
  <2> QED
    BY <2>1, <2>2, <2>3, SagaInvStep, KeyStep, ExclStep, ClearStep,
       DeleteInvStep,
       EarlyStep, GuestStep DEF IInv
<1> QED
  BY <1>1, InitIInv, PTL DEF Spec

-----------------------------------------------------------------------------
\* Every variable of the lease keeps its type, whatever calls, steps of the
\* saga, cleanups and ticks interleave and wherever the controller crashes.
THEOREM TypeCorrect == Spec => []TypeOK
<1>1. IInv => TypeOK
  BY DEF IInv
<1> QED
  BY <1>1, Inductive, PTL

\* A lease is ready only together with its record, although complete_ready is
\* the one step that writes both and blind writes put leases back into a saga.
THEOREM ReadyHasRecord == Spec => []ReadyLeaseHasReadyRecord
<1>1. IInv => ReadyLeaseHasReadyRecord
  BY DEF IInv, ReadyInv, ReadyLeaseHasReadyRecord
<1> QED
  BY <1>1, Inductive, PTL

\* The guest of a ready lease stands at the VMID of its record: no cleanup of
\* a lease that reserved the VMID before has deleted it.
THEOREM ReadyOwnsGuest == Spec => []ReadyLeaseOwnsItsGuest
<1>1. IInv => ReadyLeaseOwnsItsGuest
  BY DEF IInv, GuestInv, Early, BootedOrReady, Stands, ReadyLeaseOwnsItsGuest
<1> QED
  BY <1>1, Inductive, PTL

\* A count that is not written is not taken back.
LEMMA SameCount == TypeOK => \A l \in Leases : lease[l].attempts >= lease[l].attempts
<1>1. \A a \in Attempts : a >= a
  BY BoundsAssumption DEF Attempts
<1> QED
  BY <1>1, RowTypes, RowFields

\* A write that compared its row counts no attempt back.
LEMMA CountStays ==
    ASSUME NEW k \in Leases, Ground, [Next]_vars
    PROVE  k \in overtaken' \/ lease'[k].attempts >= lease[k].attempts
<1>0. /\ TypeOK /\ CopyInv
  BY DEF Ground, CopyInv
<1>1. CASE UNCHANGED <<lease, overtaken>>
  BY <1>0, <1>1, SameCount
<1>2. ASSUME NEW l \in Leases, Provision(l)
      PROVE  k \in overtaken' \/ lease'[k].attempts >= lease[k].attempts
  BY <1>0, <1>2, ProvisionDoes, SameCount DEF LeaseState, Same
<1>3. ASSUME NEW l \in Leases, BootLease(l)
      PROVE  k \in overtaken' \/ lease'[k].attempts >= lease[k].attempts
  BY <1>0, <1>3, BootLeaseDoes, SameCount DEF LeaseGets, Same, Blind
<1>4. ASSUME NEW l \in Leases, StrapWrite(l)
      PROVE  k \in overtaken' \/ lease'[k].attempts >= lease[k].attempts
  BY <1>0, <1>4, StrapWriteDoes, SameCount DEF LeaseGets, Same, Blind
<1>5. ASSUME NEW l \in Leases, Ready(l)
      PROVE  k \in overtaken' \/ lease'[k].attempts >= lease[k].attempts
  BY <1>0, <1>5, ReadyDoes, SameCount DEF Same
<1>6. ASSUME NEW l \in Leases, FailWrite(l)
      PROVE  k \in overtaken' \/ lease'[k].attempts >= lease[k].attempts
  BY <1>0, <1>6, FailWriteDoes, SameCount DEF LeaseGets, Same, Blind
<1>7. ASSUME NEW l \in Leases, CompensateWrite(l)
      PROVE  k \in overtaken' \/ lease'[k].attempts >= lease[k].attempts
  BY <1>0, <1>7, CompensateWriteDoes, SameCount DEF LeaseGets, Same, Blind
<1>8. ASSUME NEW l \in Leases, NEW a \in Attempts, CleanRelease(l, a)
      PROVE  k \in overtaken' \/ lease'[k].attempts >= lease[k].attempts
  BY <1>0, <1>8, CleanReleaseDoes, SameCount DEF LeaseGets, Same, Blind
<1>9. ASSUME NEW l \in Leases, NEW a \in Attempts, CleanFail(l, a)
      PROVE  k \in overtaken' \/ lease'[k].attempts >= lease[k].attempts
  BY <1>0, <1>9, CleanFailDoes, SameCount DEF Same, Blind
<1>10. ASSUME NEW c \in Callers, ReleaseWrite(c)
      PROVE  k \in overtaken' \/ lease'[k].attempts >= lease[k].attempts
  BY <1>0, <1>10, ReleaseWriteDoes, SameCount DEF LeaseGets, Same, Blind
<1>11. ASSUME NEW c \in Callers, RetryWrite(c)
      PROVE  k \in overtaken' \/ lease'[k].attempts >= lease[k].attempts
  BY <1>0, <1>11, RetryWriteDoes, SameCount DEF LeaseState, Same
<1>12. ASSUME NEW c \in Callers, ExtendWrite(c)
      PROVE  k \in overtaken' \/ lease'[k].attempts >= lease[k].attempts
  BY <1>0, <1>12, ExtendWriteDoes, SameCount DEF Same
<1>13. ASSUME NEW l \in Leases, ExpiryClaim(l)
      PROVE  k \in overtaken' \/ lease'[k].attempts >= lease[k].attempts
  BY <1>0, <1>13, ExpiryClaimDoes, SameCount DEF LeaseState, Same
<1>14. ASSUME NEW l \in Leases, StuckMove(l)
      PROVE  k \in overtaken' \/ lease'[k].attempts >= lease[k].attempts
  BY <1>0, <1>14, StuckMoveDoes, SameCount DEF LeaseState, Same
<1>15. ASSUME NEW l \in Leases, CleanupCount(l)
      PROVE  k \in overtaken' \/ lease'[k].attempts >= lease[k].attempts
  BY <1>0, <1>15, CleanupCountDoes, SameCount DEF Same
<1>16. ASSUME NEW l \in Leases, SagaStep(l)
      PROVE  k \in overtaken' \/ lease'[k].attempts >= lease[k].attempts
  BY <1>16, <1>1, <1>3, <1>4, <1>5, <1>6, <1>7
  DEF SagaStep, Begin, Reserve, CloneCall, Mark, BootRecord, Wait, StrapRead, Strap,
       SagaErrs, FailRecord, CompensateRead, CompensateQueue, At, OnlySaga, rows,
       SagaAndRecord, Boot, Reading, Written, Queue
<1>17. ASSUME NEW l \in Leases, NEW a \in Attempts, CleanerStep(l, a)
      PROVE  k \in overtaken' \/ lease'[k].attempts >= lease[k].attempts
  BY <1>17, <1>1, <1>8, <1>9
  DEF CleanerStep, CleanStart, CleanIdentify, CleanDelete, CleanErrs, Clean,
       OnlyCleaner, rows
<1>18. ASSUME NEW c \in Callers, CallStep(c)
      PROVE  k \in overtaken' \/ lease'[k].attempts >= lease[k].attempts
  BY <1>18, <1>1, <1>10, <1>11, <1>12
  DEF CallStep, CallQueue, Queue, rows
<1>19. ASSUME NEW l \in Leases, SweepStep(l)
      PROVE  k \in overtaken' \/ lease'[k].attempts >= lease[k].attempts
  BY <1>19, <1>1, <1>13, <1>14, <1>15
  DEF SweepStep, ExpiryScan, StuckRecords, StuckLeases, Abandon, CleanupQueue,
       CleanupScan, GuestScan, Judge, Scan, OnlySweep, rows, Queue, Swept
<1> QED
  BY <1>1, <1>2, <1>16, <1>17, <1>18, <1>19
  DEF Next, Progress, Requests, vars, QueueProvision, CloneLands, CloneFails,
       AskRelease, AskRetry, AskExtend, TtlPasses, Crash, rows, Asked

\* The count of the failed attempts, which names the next cleanup operation,
\* is never taken back by record_cleanup_failure, retry_cleanup or a request.
THEOREM AttemptsGrow == Spec => AttemptsNeverGoBack
<1>1. IInv /\ [Next]_vars => [\A l \in Leases :
          l \in overtaken' \/ lease'[l].attempts >= lease[l].attempts]_vars
  BY Grounded, CountStays
<1> QED
  BY <1>1, Inductive, PTL DEF Spec, AttemptsNeverGoBack

\* The claim of the sweep releases a lease whose deadline has passed.
LEMMA ClaimedWhenLapsed ==
    ASSUME NEW k \in Leases, sweep.pc = "claim", sweep.lease = k, sweep' # sweep,
           lease[k].state = "ready", lease'[k].state = "releasing", Ground, ClaimInv,
           [Next]_vars
    PROVE  k \in lapsed
<1>0. /\ TypeOK /\ CopyInv /\ ClaimInv
  BY DEF Ground, CopyInv
<1>1. CASE UNCHANGED <<sweep>>
  BY <1>0, <1>1 DEF ClaimInv, RightUntilMoved
<1>2. ASSUME NEW l \in Leases, ExpiryScan(l)
      PROVE  k \in lapsed
  BY <1>0, <1>2, ExpiryScanDoes DEF ClaimInv, RightUntilMoved
<1>3. ASSUME NEW l \in Leases, ExpiryClaim(l)
      PROVE  k \in lapsed
  BY <1>0, <1>3, ExpiryClaimDoes DEF LeaseState, ClaimInv, RightUntilMoved
<1>4. ASSUME NEW l \in Leases, StuckRecords(l)
      PROVE  k \in lapsed
  BY <1>0, <1>4, StuckRecordsDoes DEF ClaimInv, RightUntilMoved
<1>5. ASSUME NEW l \in Leases, StuckLeases(l)
      PROVE  k \in lapsed
  BY <1>0, <1>5, StuckLeasesDoes DEF ClaimInv, RightUntilMoved
<1>6. ASSUME NEW l \in Leases, StuckMove(l)
      PROVE  k \in lapsed
  BY <1>0, <1>6, StuckMoveDoes DEF LeaseState, ClaimInv, RightUntilMoved
<1>7. ASSUME NEW l \in Leases, CleanupScan(l)
      PROVE  k \in lapsed
  BY <1>0, <1>7, CleanupScanDoes DEF ClaimInv, RightUntilMoved
<1>8. ASSUME NEW l \in Leases, CleanupCount(l)
      PROVE  k \in lapsed
  BY <1>0, <1>8, CleanupCountDoes DEF ClaimInv, RightUntilMoved
<1>9. ASSUME NEW l \in Leases, GuestScan(l)
      PROVE  k \in lapsed
  BY <1>0, <1>9, GuestScanDoes DEF ClaimInv, RightUntilMoved
<1>10. ASSUME NEW l \in Leases, Judge(l)
      PROVE  k \in lapsed
  BY <1>0, <1>10, JudgeDoes DEF ClaimInv, RightUntilMoved
<1>11. CASE Crash
  BY <1>0, <1>11, CrashDoes DEF ClaimInv, RightUntilMoved
<1>12. ASSUME NEW l \in Leases, SagaStep(l)
      PROVE  k \in lapsed
  BY <1>12, <1>1
  DEF SagaStep, Begin, Reserve, CloneCall, Mark, BootRecord, BootLease, Wait,
       StrapRead, StrapWrite, Strap, Ready, SagaErrs, FailRecord, FailWrite,
       CompensateRead, CompensateWrite, CompensateQueue, At, OnlySaga, rows,
       SagaAndRecord, Boot, Reading, Update, SagaAndLease, Written, Move, Queue
<1>13. ASSUME NEW l \in Leases, NEW a \in Attempts, CleanerStep(l, a)
      PROVE  k \in lapsed
  BY <1>13, <1>1
  DEF CleanerStep, CleanStart, CleanIdentify, CleanDelete, CleanErrs, CleanRelease,
       CleanFail, Clean, OnlyCleaner, rows, Update, CleanerAndLease
<1>14. ASSUME NEW c \in Callers, CallStep(c)
      PROVE  k \in lapsed
  BY <1>14, <1>1
  DEF CallStep, ReleaseWrite, RetryWrite, ExtendWrite, CallQueue, Update,
       CallAndLease, Move, rows, Queue
<1>15. ASSUME NEW l \in Leases, SweepStep(l)
      PROVE  k \in lapsed
  BY <1>15, <1>1, <1>2, <1>3, <1>4, <1>5, <1>6, <1>7, <1>8, <1>9, <1>10
  DEF SweepStep, Abandon, CleanupQueue, rows, Queue
<1> QED
  BY <1>1, <1>11, <1>12, <1>13, <1>14, <1>15
  DEF Next, Progress, Requests, vars, Provision, QueueProvision, CloneLands,
       CloneFails, AskRelease, AskRetry, AskExtend, TtlPasses, Move, rows, Asked

\* An extension that landed between the scan and the claim wins: the claim
\* releases only a lease whose deadline has passed.
THEOREM ExtensionsWin == Spec => ExtensionWins
<1>1. IInv /\ [Next]_vars => [\A l \in Leases :
          (/\ sweep.pc = "claim" /\ sweep.lease = l /\ sweep' # sweep
           /\ lease[l].state = "ready" /\ lease'[l].state = "releasing") =>
              l \in lapsed]_vars
  BY Grounded, ClaimedWhenLapsed DEF IInv
<1> QED
  BY <1>1, Inductive, PTL DEF Spec, ExtensionWins

\* Only its delete takes a cleanup from the delete to the release.
LEMMA DeletedByCleanup ==
    ASSUME NEW k \in Leases, NEW b \in Attempts, cleaner[k][b].pc = "delete",
           cleaner'[k][b].pc = "release", IInv, [Next]_vars
    PROVE  CleanDelete(k, b)
<1>0. /\ TypeOK /\ CopyInv
  BY DEF IInv, CopyInv, KeyInv
<1>1. CASE UNCHANGED <<cleaner>>
  BY <1>0, <1>1
<1>2. ASSUME NEW l \in Leases, CompensateQueue(l)
      PROVE  CleanDelete(k, b)
  BY <1>0, <1>2, CompensateQueueDoes, QueueDoes, RowFields, RowTypes DEF CopyInv,
         SagaCopies, SagaHolds, SagaGoes, CallCopies, CallHolds, Same
<1>3. ASSUME NEW l \in Leases, NEW a \in Attempts, CleanStart(l, a)
      PROVE  CleanDelete(k, b)
  BY <1>0, <1>3, CleanStartDoes DEF CleanerGoes, Same
<1>4. ASSUME NEW l \in Leases, NEW a \in Attempts, CleanIdentify(l, a)
      PROVE  CleanDelete(k, b)
  BY <1>0, <1>4, CleanIdentifyDoes DEF CleanerGoes, Same
<1>5. ASSUME NEW l \in Leases, NEW a \in Attempts, CleanDelete(l, a)
      PROVE  CleanDelete(k, b)
  BY <1>0, <1>5, CleanDeleteDoes DEF CleanerGoes, Same
<1>6. ASSUME NEW l \in Leases, NEW a \in Attempts, CleanErrs(l, a)
      PROVE  CleanDelete(k, b)
  BY <1>0, <1>6, CleanErrsDoes DEF CleanerGoes, Same
<1>7. ASSUME NEW l \in Leases, NEW a \in Attempts, CleanRelease(l, a)
      PROVE  CleanDelete(k, b)
  BY <1>0, <1>7, CleanReleaseDoes DEF CleanerGoes, Same
<1>8. ASSUME NEW l \in Leases, NEW a \in Attempts, CleanFail(l, a)
      PROVE  CleanDelete(k, b)
  BY <1>0, <1>8, CleanFailDoes DEF CleanerGoes, Same
<1>9. ASSUME NEW c \in Callers, CallQueue(c)
      PROVE  CleanDelete(k, b)
  BY <1>0, <1>9, CallQueueDoes, QueueDoes, RowFields, RowTypes DEF CopyInv,
         SagaCopies, SagaHolds, CallCopies, CallHolds, CallGoes, Same
<1>10. ASSUME NEW l \in Leases, CleanupQueue(l)
      PROVE  CleanDelete(k, b)
  BY <1>0, <1>10, CleanupQueueDoes, QueueDoes, RowFields, RowTypes DEF CopyInv,
         SagaCopies, SagaHolds, CallCopies, CallHolds, Same
<1>11. CASE Crash
  BY <1>0, <1>11, CrashDoes
<1>12. ASSUME NEW l \in Leases, SagaStep(l)
      PROVE  CleanDelete(k, b)
  BY <1>12, <1>1, <1>2
  DEF SagaStep, Begin, Reserve, CloneCall, Mark, BootRecord, BootLease, Wait,
       StrapRead, StrapWrite, Strap, Ready, SagaErrs, FailRecord, FailWrite,
       CompensateRead, CompensateWrite, At, OnlySaga, rows, SagaAndRecord, Boot,
       Reading, Update, SagaAndLease, Written, Move
<1>13. ASSUME NEW l \in Leases, NEW a \in Attempts, CleanerStep(l, a)
      PROVE  CleanDelete(k, b)
  BY <1>13, <1>3, <1>4, <1>5, <1>6, <1>7, <1>8
  DEF CleanerStep
<1>14. ASSUME NEW c \in Callers, CallStep(c)
      PROVE  CleanDelete(k, b)
  BY <1>14, <1>1, <1>9
  DEF CallStep, ReleaseWrite, RetryWrite, ExtendWrite, Update, CallAndLease, Move,
       rows
<1>15. ASSUME NEW l \in Leases, SweepStep(l)
      PROVE  CleanDelete(k, b)
  BY <1>15, <1>1, <1>10
  DEF SweepStep, ExpiryScan, ExpiryClaim, StuckRecords, StuckLeases, StuckMove,
       Abandon, CleanupScan, CleanupCount, GuestScan, Judge, Scan, OnlySweep, rows,
       Swept, Move, SweepAndLease
<1> QED
  BY <1>1, <1>11, <1>12, <1>13, <1>14, <1>15
  DEF Next, Progress, Requests, vars, Provision, QueueProvision, CloneLands,
       CloneFails, AskRelease, AskRetry, AskExtend, TtlPasses, Move, rows, Asked

\* A delete that names a VMID checked a step earlier destroys no guest another
\* lease still answers for.
THEOREM NoForeignDelete == Spec => NoForeignGuestDestroyed
<1>1. ASSUME IInv, [Next]_vars, NEW v \in Vmids, NEW l \in Leases, NEW a \in Attempts,
             cleaner[l][a].pc = "delete", cleaner'[l][a].pc = "release",
             guest[v] # Nothing, guest'[v] = Nothing, guest[v] # l
      PROVE  /\ guest[v] \in Leases
             /\ record[guest[v]].state = "never_ready"
             /\ lease[guest[v]].state = "released" \/ guest[v] \in overtaken
  <2>1. /\ TypeOK /\ CopyInv /\ SagaInv /\ Excl /\ Clear
    BY <1>1 DEF IInv
  <2>2. CleanDelete(l, a)
    BY <1>1, DeletedByCleanup
  <2>3. v = record[l].vmid
    BY <1>1, <2>1, <2>2, CleanDeleteDoes
  <2>4. guest[v] \in Leases /\ record[guest[v]].vmid = v
    BY <1>1, <2>1, GuestTypes DEF SagaInv
  <2>5. Share(l, guest[v])
    BY <1>1, <2>3, <2>4, Apart DEF Share
  <2>6. ~Over(l) /\ Shown(l)
    BY <1>1, SpentDeletesNothing DEF Over, Shown
  <2>7. Over(guest[v])
    BY <2>1, <2>4, <2>5, <2>6 DEF Excl
  <2>8. Harmless(guest[v]) /\ Named(guest[v])
    BY <1>1, <2>1, <2>4, <2>5, <2>6 DEF Clear, Named
  <2> QED
    BY <2>4, <2>7, <2>8 DEF Over, Harmless
<1>2. IInv /\ [Next]_vars => [\A v \in Vmids, l \in Leases, a \in Attempts :
          /\ cleaner[l][a].pc = "delete" /\ cleaner'[l][a].pc = "release"
          /\ guest[v] # Nothing /\ guest'[v] = Nothing
          => \/ guest[v] = l
             \/ /\ guest[v] \in Leases
                /\ record[guest[v]].state = "never_ready"
                /\ lease[guest[v]].state = "released" \/ guest[v] \in overtaken]_vars
  BY <1>1
<1> QED
  BY <1>2, Inductive, PTL DEF Spec, NoForeignGuestDestroyed

-----------------------------------------------------------------------------
(***************************************************************************)
(* The pools.  A lease of a pool takes the steps of LabLeases from its     *)
(* boot on, and its own before and after; its member is bound to it by one *)
(* transaction and let go by another.  PoolIInv carries, from the rollback *)
(* operation that a cleanup or a fill asked for to the transaction that    *)
(* returns the member, what that operation says of the guest.              *)
(***************************************************************************)

\* The places of a cleanup that a pooled lease alone has, those of a revert,
\* and those of a saga that has a member.
PoolPlaces == {"plan", "keep", "observe", "child", "wait", "verify", "refused",
               "reverted"}
Reverts == {"observe", "child", "wait", "verify", "refused", "reverted"}
Holding == {"settle", "agent"} \cup Booted

Members == [state : {"none", "filling", "available", "leased", "quarantined"},
            id : 0 .. MaxFills, lease : Leases \cup {Nothing}, draining : BOOLEAN]
Children == [pc : {"none", "pending", "claimed", "posted", "succeeded", "failed"},
             vmid : Vmids \cup {Nothing}]
Fills == [pc : {"idle"} \cup Reverts, vmid : Vmids \cup {Nothing}, id : 0 .. MaxFills]
PoolTypes ==
    /\ pooled \subseteq Leases
    /\ member \in [Vmids -> Members] /\ fills \in 0 .. MaxFills
    /\ child \in [Keys -> Children] /\ rollback \in [Vmids -> Keys \cup {Nothing}]
    /\ filler \in [Fillers -> Fills]
    /\ dirt \in [Vmids -> SUBSET {"used", "stray"}]

\* The cleanup of a pooled lease has a copy of its row.
PoolCopies ==
    \A l \in pooled, a \in Attempts :
        cleaner[l][a].pc \in PoolPlaces => cleaner[l][a].row \in Rows

\* A member that has a lease is in use, and the record of the lease names it.
MemberInv ==
    \A v \in Vmids :
        member[v].lease # Nothing =>
            /\ member[v].state \in {"leased", "quarantined"}
            /\ member[v].lease \in pooled
            /\ record[member[v].lease].vmid = v

\* A cleanup reverts the guest of its record, by the operation of its attempt.
RevertAt(l, a) ==
    /\ child[<<l, a>>].pc # "none" =>
           /\ cleaner[l][a].pc # "absent" /\ record[l].vmid \in Vmids
           /\ child[<<l, a>>].vmid = record[l].vmid
    /\ cleaner[l][a].pc \in Reverts => record[l].vmid \in Vmids
    /\ cleaner[l][a].pc \in {"verify", "reverted"} => child[<<l, a>>].pc = "succeeded"
RevertInv == \A l \in pooled, a \in Attempts : RevertAt(l, a)

\* What holds of a lease until a blind write replaces its row: it holds its
\* member from the claim to the cleanup, holds none once it is released, and
\* its guest is not used again once it is rolled back.
Bound(l) == \E v \in Vmids : member[v].lease = l /\ member[v].state = "leased"
Unbound(l) == \A v \in Vmids : member[v].lease # l
Cleared(l) ==
    \A a \in Attempts, v \in Vmids :
        child[<<l, a>>].pc = "succeeded" /\ member[v].lease = l => "used" \notin dirt[v]
HoldInv ==
    \A l \in pooled \ overtaken :
        Early(l) /\ (lease[l].state = "ready" \/ saga[l].pc \in Holding) => Bound(l)
FreeInv ==
    \A l \in pooled \ overtaken :
        (lease[l].state = "released" \/ \E a \in Attempts : cleaner[l][a].pc = "release") =>
            Unbound(l)
ClearedInv == \A l \in pooled \ overtaken : Cleared(l)

\* A task that rolls a guest back belongs to an operation on that guest.
RollInv ==
    \A v \in Vmids :
        rollback[v] # Nothing =>
            child[rollback[v]].pc # "none" /\ child[rollback[v]].vmid = v

\* The member, the fill operations and the rollback of one registration are
\* about one guest; a fill goes on when its rollback succeeded, and the guest
\* is not used before it has ended.
Filling(v) == member[v].state = "filling"
Names(i, v) ==
    \/ Filling(v) /\ member[v].id = i
    \/ \E f \in Fillers : filler[f].pc # "idle" /\ filler[f].id = i /\ filler[f].vmid = v
    \/ child[<<"fill", i>>].pc # "none" /\ child[<<"fill", i>>].vmid = v
NamesInv ==
    /\ \A i \in 1 .. MaxFills, v, w \in Vmids : Names(i, v) /\ Names(i, w) => v = w
    /\ \A i \in 1 .. MaxFills, v \in Vmids : Names(i, v) => i <= fills
FillIds ==
    /\ \A v \in Vmids : Filling(v) => member[v].id \in 1 .. MaxFills
    /\ \A f \in Fillers :
           filler[f].pc # "idle" => filler[f].id \in 1 .. MaxFills /\ filler[f].vmid \in Vmids
    /\ \A i \in 1 .. MaxFills :
           child[<<"fill", i>>].pc # "none" => child[<<"fill", i>>].vmid \in Vmids
FillReverted ==
    \A f \in Fillers :
        filler[f].pc \in {"verify", "reverted"} =>
            child[<<"fill", filler[f].id>>].pc = "succeeded"
FillCleared ==
    \A v \in Vmids :
        Filling(v) /\ child[<<"fill", member[v].id>>].pc = "succeeded" =>
            "used" \notin dirt[v]

PoolIInv ==
    /\ Ground /\ EarlyInv /\ PoolTypes /\ PoolCopies /\ MemberInv /\ RevertInv
    /\ HoldInv /\ FreeInv /\ ClearedInv
    /\ RollInv /\ NamesInv /\ FillIds /\ FillReverted /\ FillCleared

-----------------------------------------------------------------------------
\* The types of the pools, one by one.
LEMMA PoolTyped ==
    ASSUME PoolTypes
    PROVE  /\ pooled \subseteq Leases
           /\ member \in [Vmids -> Members] /\ fills \in 0 .. MaxFills
           /\ child \in [Keys -> Children] /\ rollback \in [Vmids -> Keys \cup {Nothing}]
           /\ filler \in [Fillers -> Fills]
           /\ dirt \in [Vmids -> SUBSET {"used", "stray"}]
           /\ \A v \in Vmids : /\ member[v].lease \in Leases \cup {Nothing}
                               /\ member[v].id \in 0 .. MaxFills
BY DEF PoolTypes, Members

\* The keys of the rollback operations are apart, and none stands for nothing.
LEMMA KeyFacts ==
    /\ \A l \in Leases, a \in Attempts : <<l, a>> \in Keys
    /\ \A i \in 1 .. MaxFills : <<"fill", i>> \in Keys
    /\ \A l \in Leases, a \in Attempts, i \in 1 .. MaxFills : <<l, a>> # <<"fill", i>>
BY FillAssumption DEF Keys

\* revert_member goes on after the rollback only when it succeeded.
LEMMA RevertingTo ==
    ASSUME NEW pc, NEW k, NEW v, NEW next \in Reverting(pc, k, v)
    PROVE  /\ pc \in {"observe", "child", "wait", "verify"}
           /\ next \in {"child", "wait", "verify", "refused", "reverted", "fail"}
           /\ next = "verify" => pc = "wait" /\ child[k].pc = "succeeded"
           /\ next = "reverted" => pc = "verify"
           /\ next = "wait" => pc = "child"
BY DEF Reverting

\* An operation is made where its key has none, for the guest it is asked for.
AskedFor(pc, k, v) ==
    /\ \A j \in Keys : child'[j] = child[j] \/ (j = k /\ pc = "child" /\ child[j].pc = "none"
                           /\ child'[j].pc = "pending" /\ child'[j].vmid = v)

LEMMA AsksDoes ==
    ASSUME PoolTypes, NEW pc, NEW k \in Keys, NEW v \in Vmids \cup {Nothing}, Asks(pc, k, v)
    PROVE  AskedFor(pc, k, v) /\ child' \in [Keys -> Children]
<1>1. [pc |-> "pending", vmid |-> v] \in Children
  BY DEF Children
<1> QED
  BY <1>1, PoolTyped DEF Asks, AskedFor

\* A member that leaves its lease or its fill is a member no more, or one that
\* no lease has.
LEMMA LeavesAs ==
    ASSUME NEW m \in Members, NEW state \in {"available", "quarantined"}
    PROVE  /\ Leaves(m, state) \in Members
           /\ Leaves(m, state).lease = Nothing
           /\ Leaves(m, state).state \in {"none", state}
<1>1. CASE m.draining
  <2>1. NoMember \in Members /\ NoMember.lease = Nothing /\ NoMember.state = "none"
    BY FillAssumption DEF NoMember, Members
  <2> QED
    BY <1>1, <2>1 DEF Leaves
<1>2. CASE ~m.draining
  <2>1. LET n == [m EXCEPT !.state = state, !.lease = Nothing]
        IN  n \in Members /\ n.lease = Nothing /\ n.state = state
    BY DEF Members
  <2> QED
    BY <1>2, <2>1 DEF Leaves
<1> QED
  BY <1>1, <1>2

-----------------------------------------------------------------------------
\* What a step of a pool does, field by field.
Kept(x, S, f, g) == \A y \in S : y # x => g[y] = f[y]

MemberGoes(v, state, holder) ==
    /\ member'[v].state = state /\ member'[v].lease = holder
    /\ member'[v].id = member[v].id /\ Kept(v, Vmids, member, member')

LEMMA PoolBeginDoes ==
    ASSUME TypeOK, NEW l \in Leases, PoolBegin(l)
    PROVE  /\ SagaGoes(l, "queued", "claim") \/ SagaGoes(l, "queued", "fail")
           /\ UNCHANGED <<lease, overtaken, record, guest, task, cleaner, call, sweep,
                          lapsed, reported, crashes, poolVars>>
BY AtDoes DEF PoolBegin, OnlySaga, rows, Awaited

LEMMA ClaimDoes ==
    ASSUME TypeOK, PoolTypes, NEW l \in Leases, Claim(l)
    PROVE  /\ \/ SagaGoes(l, "claim", "fail") /\ UNCHANGED <<record, member>>
              \/ /\ saga[l].pc = "claim" /\ saga'[l].pc = "settle" /\ Same(l, saga, saga')
                 /\ lease[l].state = "provisioning" /\ record[l].vmid = Nothing
                 /\ \E v \in Vmids :
                        /\ member[v].state = "available" /\ MemberGoes(v, "leased", l)
                        /\ RecordGets(l, record[l].state, v, record[l].upid)
           /\ UNCHANGED <<lease, overtaken, guest, task, cleaner, call, sweep, lapsed,
                          reported, crashes, fills, child, rollback, filler, dirt>>
<1>1. UNCHANGED <<lease, overtaken, guest, task, cleaner, call, sweep, lapsed,
                  reported, crashes, fills, child, rollback, filler, dirt>>
  BY DEF Claim, SagaAndRecord, rows
<1>2. \/ At(l, "claim", "fail") /\ UNCHANGED <<record, member>>
      \/ /\ saga[l].pc = "claim" /\ lease[l].state = "provisioning"
         /\ record[l].vmid = Nothing
         /\ \E v \in Vmids :
                /\ member[v].state = "available"
                /\ saga' = [saga EXCEPT ![l] =
                                [pc |-> "settle", vmid |-> v, row |-> Nothing]]
                /\ record' = [record EXCEPT ![l].vmid = v]
                /\ member' = [member EXCEPT ![v].state = "leased", ![v].lease = l]
  BY DEF Claim, Free
<1>3. ASSUME NEW v \in Vmids, record' = [record EXCEPT ![l].vmid = v]
      PROVE  RecordGets(l, record[l].state, v, record[l].upid)
  BY <1>3, Types DEF RecordGets, Same, Records
<1>4. ASSUME NEW v \in Vmids,
             member' = [member EXCEPT ![v].state = "leased", ![v].lease = l]
      PROVE  MemberGoes(v, "leased", l)
  BY <1>4, PoolTyped DEF MemberGoes, Kept, Members
<1>5. ASSUME NEW v \in Vmids,
             saga' = [saga EXCEPT ![l] = [pc |-> "settle", vmid |-> v, row |-> Nothing]]
      PROVE  saga'[l].pc = "settle" /\ Same(l, saga, saga')
  BY <1>5, Types DEF Same
<1> QED
  BY <1>1, <1>2, <1>3, <1>4, <1>5, AtDoes

LEMMA PoolStartDoes ==
    ASSUME TypeOK, PoolTypes, NEW l \in Leases, PoolStart(l)
    PROVE  /\ SagaGoes(l, "wait", "agent")
           /\ dirt' \in [Vmids -> SUBSET {"used", "stray"}]
           /\ \A v \in Vmids : "used" \in dirt'[v] /\ "used" \notin dirt[v] =>
                  /\ member[v].lease = l
                  /\ lease[l].state \in InSaga \cup {"ready"}
           /\ UNCHANGED <<lease, overtaken, record, guest, task, cleaner, call, sweep,
                          lapsed, reported, crashes, member, fills, child, rollback,
                          filler>>
BY AtDoes, PoolTyped DEF PoolStart, OnlySaga, rows

LEMMA PoolWaitDoes ==
    ASSUME TypeOK, NEW l \in Leases, PoolWait(l)
    PROVE  /\ \/ SagaGoes(l, "agent", "strapread")
              \/ SagaGoes(l, "agent", "fail")
           /\ record' = record
           /\ UNCHANGED <<lease, overtaken, guest, task, cleaner, call, sweep,
                          lapsed, reported, crashes, poolVars>>
<1>1. [record EXCEPT ![l].state = record[l].state] = record
  BY Types DEF Records
<1> QED
  BY <1>1, AtDoes DEF PoolWait, Written, SagaAndRecord, rows

LEMMA PoolCleanStartDoes ==
    ASSUME TypeOK, NEW l \in Leases, NEW a \in Attempts, PoolCleanStart(l, a)
    PROVE  /\ \/ CleanerGoes(l, a, "queued", "done")
              \/ CleanerGoes(l, a, "queued", "plan") /\ cleaner'[l][a].row = lease[l]
           /\ cleaner' \in [Leases -> [Attempts -> Cleaners]]
           /\ UNCHANGED <<lease, overtaken, record, guest, task, saga, call, sweep,
                          lapsed, reported, crashes, poolVars>>
<1>1. UNCHANGED <<lease, overtaken, record, guest, task, saga, call, sweep,
                  lapsed, reported, crashes, poolVars>>
  BY DEF PoolCleanStart, OnlyCleaner, rows
<1>2. CASE Clean(l, a, "queued", "done")
  BY <1>1, <1>2, CleanDoes, CleanMoves, Types DEF CleanerPcs
<1>3. CASE cleaner' = [cleaner EXCEPT ![l][a] =
                          [pc |-> "plan", row |-> lease[l], sure |-> FALSE]]
  <2> DEFINE d == [pc |-> "plan", row |-> lease[l], sure |-> FALSE]
  <2>1. d.pc = "plan" /\ d.row = lease[l] /\ d \in Cleaners
    BY Types, CopyTypes DEF Cleaners, CleanerPcs
  <2>2. cleaner' = [cleaner EXCEPT ![l] = [cleaner[l] EXCEPT ![a] = d]]
    BY <1>3
  <2>3. cleaner[l][a].pc = "queued"
    BY DEF PoolCleanStart
  <2> HIDE DEF d
  <2> QED
    BY <1>1, <2>1, <2>2, <2>3, Types DEF CleanerGoes, Same
<1> QED
  BY <1>2, <1>3 DEF PoolCleanStart

LEMMA PoolPlanDoes ==
    ASSUME TypeOK, NEW l \in Leases, NEW a \in Attempts, PoolPlan(l, a)
    PROVE  /\ \E next \in {"keep", "release", "observe", "not_pooled", "fail"} :
                  /\ CleanerGoes(l, a, "plan", next)
                  /\ next = "release" => Unbound(l)
                  /\ next = "observe" => ~Unbound(l)
                  /\ next # "not_pooled" => cleaner'[l][a].row = cleaner[l][a].row
           /\ cleaner' \in [Leases -> [Attempts -> Cleaners]]
           /\ UNCHANGED <<lease, overtaken, record, guest, task, saga, call, sweep,
                          lapsed, reported, crashes, poolVars>>
<1>1. UNCHANGED <<lease, overtaken, record, guest, task, saga, call, sweep,
                  lapsed, reported, crashes, poolVars>>
  BY DEF PoolPlan, OnlyCleaner, rows
<1>2. BoundTo(l) = {} <=> Unbound(l)
  BY DEF BoundTo, Unbound
<1>3. PICK next \in {"keep", "release", "observe", "not_pooled", "fail"} :
          /\ Clean(l, a, "plan", next)
          /\ next = "release" => Unbound(l)
          /\ next = "observe" => ~Unbound(l)
  BY <1>2 DEF PoolPlan
<1>4. next \in CleanerPcs
  BY DEF CleanerPcs
<1> QED
  BY <1>1, <1>3, <1>4, CleanDoes, CleanMoves, Types

LEMMA PoolRevertDoes ==
    ASSUME TypeOK, PoolTypes, NEW l \in Leases, NEW a \in Attempts, PoolRevert(l, a)
    PROVE  /\ cleaner[l][a].pc \in {"observe", "child", "wait", "verify"}
           /\ cleaner'[l][a].pc \in {"child", "wait", "verify", "refused", "reverted", "fail"}
           /\ cleaner'[l][a].pc = "verify" => /\ cleaner[l][a].pc = "wait"
                                              /\ child[<<l, a>>].pc = "succeeded"
           /\ cleaner'[l][a].pc = "reverted" => cleaner[l][a].pc = "verify"
           /\ Same(l, cleaner, cleaner')
           /\ \A b \in Attempts : b # a => cleaner'[l][b] = cleaner[l][b]
           /\ cleaner'[l][a].row = cleaner[l][a].row
           /\ cleaner' \in [Leases -> [Attempts -> Cleaners]]
           /\ AskedFor(cleaner[l][a].pc, <<l, a>>, record[l].vmid)
           /\ child' \in [Keys -> Children]
           /\ UNCHANGED <<lease, overtaken, record, guest, task, saga, call, sweep,
                          lapsed, reported, crashes, member, fills, rollback, filler,
                          dirt>>
<1>1. UNCHANGED <<lease, overtaken, record, guest, task, saga, call, sweep, lapsed,
                  reported, crashes, member, fills, rollback, filler, dirt>>
  BY DEF PoolRevert, OnlyCleaner, rows
<1>2. AskedFor(cleaner[l][a].pc, <<l, a>>, record[l].vmid) /\ child' \in [Keys -> Children]
  BY AsksDoes, KeyFacts, RecordTypes DEF PoolRevert
<1>3. PICK next \in Reverting(cleaner[l][a].pc, <<l, a>>, record[l].vmid) :
          Clean(l, a, cleaner[l][a].pc, next)
  BY DEF PoolRevert
<1>4. /\ cleaner[l][a].pc \in {"observe", "child", "wait", "verify"}
      /\ next \in {"child", "wait", "verify", "refused", "reverted", "fail"}
      /\ next = "verify" => /\ cleaner[l][a].pc = "wait"
                            /\ child[<<l, a>>].pc = "succeeded"
      /\ next = "reverted" => cleaner[l][a].pc = "verify"
  BY RevertingTo
<1>5. next \in CleanerPcs /\ next \notin {"done", "not_pooled"}
  BY <1>4 DEF CleanerPcs
<1>6. /\ CleanerGoes(l, a, cleaner[l][a].pc, next)
      /\ cleaner'[l][a].row = cleaner[l][a].row
      /\ cleaner' \in [Leases -> [Attempts -> Cleaners]]
  BY <1>3, <1>5, CleanDoes, CleanMoves, Types
<1> QED
  BY <1>1, <1>2, <1>4, <1>6 DEF CleanerGoes

LEMMA PoolQuarantineDoes ==
    ASSUME TypeOK, PoolTypes, NEW l \in Leases, NEW a \in Attempts, PoolQuarantine(l, a)
    PROVE  /\ CleanerGoes(l, a, "refused", "fail")
           /\ cleaner'[l][a].row = cleaner[l][a].row
           /\ cleaner' \in [Leases -> [Attempts -> Cleaners]]
           /\ member' \in [Vmids -> Members]
           /\ \A v \in Vmids :
                  /\ member'[v].lease = member[v].lease /\ member'[v].id = member[v].id
                  /\ \/ member'[v].state = member[v].state /\ member[v].lease # l
                     \/ member'[v].state = "quarantined" /\ member[v].lease = l
           /\ UNCHANGED <<lease, overtaken, record, guest, task, saga, call, sweep,
                          lapsed, reported, crashes, fills, child, rollback, filler,
                          dirt>>
<1>1. UNCHANGED <<lease, overtaken, record, guest, task, saga, call, sweep, lapsed,
                  reported, crashes, fills, child, rollback, filler, dirt>>
  BY DEF PoolQuarantine, OnlyCleaner, rows
<1>2. Clean(l, a, "refused", "fail") /\ "fail" \in CleanerPcs
  BY DEF PoolQuarantine, CleanerPcs
<1>3. \A m \in Members : LET n == [m EXCEPT !.state = "quarantined"]
                         IN  /\ n \in Members /\ n.state = "quarantined"
                             /\ n.lease = m.lease /\ n.id = m.id
  BY DEF Members
<1>4. member' = [v \in Vmids |-> IF member[v].lease = l
                     THEN [member[v] EXCEPT !.state = "quarantined"] ELSE member[v]]
  BY DEF PoolQuarantine
<1>5. \A v \in Vmids : member[v] \in Members
  BY PoolTyped
<1>6. /\ member' \in [Vmids -> Members]
      /\ \A v \in Vmids :
             /\ member'[v].lease = member[v].lease /\ member'[v].id = member[v].id
             /\ \/ member'[v].state = member[v].state /\ member[v].lease # l
                \/ member'[v].state = "quarantined" /\ member[v].lease = l
  BY <1>3, <1>4, <1>5
<1>7. /\ CleanerGoes(l, a, "refused", "fail")
      /\ cleaner'[l][a].row = cleaner[l][a].row
      /\ cleaner' \in [Leases -> [Attempts -> Cleaners]]
  BY <1>2, CleanDoes, CleanMoves, Types
<1> QED
  BY <1>1, <1>6, <1>7

LEMMA PoolReleaseDoes ==
    ASSUME TypeOK, PoolTypes, NEW l \in Leases, NEW a \in Attempts, PoolRelease(l, a)
    PROVE  /\ \/ /\ CleanerGoes(l, a, cleaner[l][a].pc, "done")
                 /\ LeaseState(l, "released", lease[l].link)
                 /\ lease' \in [Leases -> Rows]
                 /\ \A v \in Vmids :
                        IF member[v].lease # l THEN member'[v] = member[v]
                        ELSE /\ member'[v].lease = Nothing
                             /\ member'[v].state \in {"none", "quarantined", "available"}
                             /\ member'[v].state = "available" =>
                                    cleaner[l][a].pc = "reverted"
              \/ /\ CleanerGoes(l, a, cleaner[l][a].pc, "fail")
                 /\ cleaner'[l][a].row = cleaner[l][a].row
                 /\ UNCHANGED <<lease, member>>
           /\ cleaner[l][a].pc \in {"keep", "reverted"}
           /\ cleaner' \in [Leases -> [Attempts -> Cleaners]]
           /\ member' \in [Vmids -> Members]
           /\ UNCHANGED <<overtaken, record, guest, task, saga, call, sweep, lapsed,
                          reported, crashes, fills, child, rollback, filler, dirt>>
<1> DEFINE pc == cleaner[l][a].pc
           state == IF pc = "keep" THEN "quarantined" ELSE "available"
           new == [lease[l] EXCEPT !.state = "released"]
<1>1. UNCHANGED <<record, guest, task, saga, call, sweep, lapsed,
                  reported, crashes, fills, child, rollback, filler, dirt>>
  BY DEF PoolRelease, CleanerAndLease
<1>2. pc \in {"keep", "reverted"} /\ state \in {"quarantined", "available"}
  BY DEF PoolRelease
<1>3. \/ /\ Clean(l, a, pc, "done") /\ Move(l, new)
         /\ member' = [v \in Vmids |-> IF member[v].lease = l
                          THEN Leaves(member[v], state) ELSE member[v]]
      \/ Clean(l, a, pc, "fail") /\ UNCHANGED <<lease, overtaken, member>>
  BY DEF PoolRelease, rows
<1>4. {"done", "fail"} \subseteq CleanerPcs
  BY DEF CleanerPcs
<1>5. CASE Clean(l, a, pc, "fail") /\ UNCHANGED <<lease, overtaken, member>>
  BY <1>1, <1>2, <1>4, <1>5, CleanDoes, CleanMoves, Types, PoolTyped
<1>6. CASE /\ Clean(l, a, pc, "done") /\ Move(l, new)
           /\ member' = [v \in Vmids |-> IF member[v].lease = l
                            THEN Leaves(member[v], state) ELSE member[v]]
  <2>1. /\ new \in Rows /\ new.state = "released" /\ new.attempts = lease[l].attempts
        /\ new.expires = lease[l].expires /\ new.link = lease[l].link
    <3>1. lease[l] \in Rows /\ "released" \in LeaseStates
      BY Types, RowStates
    <3> QED
      BY <3>1 DEF Rows
  <2>2. \A v \in Vmids : /\ Leaves(member[v], state) \in Members
                         /\ Leaves(member[v], state).lease = Nothing
                         /\ Leaves(member[v], state).state \in {"none", state}
    BY <1>2, LeavesAs, PoolTyped
  <2>3. pc # "reverted" => state = "quarantined"
    BY <1>2
  <2> HIDE DEF new, state
  <2>4. /\ LeaseState(l, "released", lease[l].link) /\ lease' \in [Leases -> Rows]
        /\ overtaken' = overtaken
    BY <1>6, <2>1, MoveDoes, Types DEF LeaseState, Move
  <2>5. /\ member' \in [Vmids -> Members]
        /\ \A v \in Vmids :
               IF member[v].lease # l THEN member'[v] = member[v]
               ELSE /\ member'[v].lease = Nothing
                    /\ member'[v].state \in {"none", "quarantined", "available"}
                    /\ member'[v].state = "available" => pc = "reverted"
    BY <1>2, <1>6, <2>2, <2>3, PoolTyped
  <2>6. CleanerGoes(l, a, pc, "done") /\ cleaner' \in [Leases -> [Attempts -> Cleaners]]
    BY <1>4, <1>6, CleanDoes, CleanMoves, Types
  <2> QED
    BY <1>1, <1>2, <2>4, <2>5, <2>6
<1> QED
  BY <1>3, <1>5, <1>6

\* What a step does to the rollback operations, but for those it asks for.
ChildGoes(k, next) ==
    /\ child'[k].pc = next /\ child'[k].vmid = child[k].vmid
    /\ Kept(k, Keys, child, child')

LEMMA ChildMoves ==
    ASSUME PoolTypes, NEW k \in Keys,
           NEW next \in {"claimed", "posted", "succeeded", "failed"},
           child' = [child EXCEPT ![k].pc = next]
    PROVE  ChildGoes(k, next) /\ child' \in [Keys -> Children]
BY PoolTyped DEF ChildGoes, Kept, Children

LEMMA ChildClaimDoes ==
    ASSUME PoolTypes, NEW k \in Keys, ChildClaim(k)
    PROVE  /\ child[k].pc = "pending" /\ ChildGoes(k, "claimed")
           /\ child' \in [Keys -> Children]
           /\ UNCHANGED <<vars, member, fills, rollback, filler, dirt>>
BY ChildMoves DEF ChildClaim

LEMMA ChildPostDoes ==
    ASSUME PoolTypes, NEW k \in Keys, ChildPost(k)
    PROVE  /\ child[k].pc = "claimed"
           /\ ChildGoes(k, "posted") \/ ChildGoes(k, "failed")
           /\ child' \in [Keys -> Children]
           /\ rollback' \in [Vmids -> Keys \cup {Nothing}]
           /\ \A v \in Vmids : rollback'[v] = rollback[v]
                               \/ (rollback'[v] = k /\ child[k].vmid = v)
           /\ UNCHANGED <<vars, member, fills, filler, dirt>>
<1>1. /\ child[k].pc = "claimed"
      /\ \E pc \in {"posted", "failed"} : child' = [child EXCEPT ![k].pc = pc]
      /\ UNCHANGED <<vars, member, fills, filler, dirt>>
      /\ rollback' = rollback \/ rollback' = [rollback EXCEPT ![child[k].vmid] = k]
  BY DEF ChildPost
<1>2. /\ rollback' \in [Vmids -> Keys \cup {Nothing}]
      /\ \A v \in Vmids : rollback'[v] = rollback[v]
                          \/ (rollback'[v] = k /\ child[k].vmid = v)
  BY <1>1, PoolTyped
<1> QED
  BY <1>1, <1>2, ChildMoves

LEMMA ChildErrsDoes ==
    ASSUME PoolTypes, NEW k \in Keys, ChildErrs(k)
    PROVE  /\ child[k].pc \in {"claimed", "posted"} /\ ChildGoes(k, "failed")
           /\ child' \in [Keys -> Children]
           /\ UNCHANGED <<vars, member, fills, rollback, filler, dirt>>
BY ChildMoves DEF ChildErrs

LEMMA RollbackEndsDoes ==
    ASSUME PoolTypes, NEW v \in Vmids, RollbackEnds(v)
    PROVE  /\ rollback[v] \in Keys /\ rollback[v] # Nothing /\ rollback'[v] = Nothing
           /\ Kept(v, Vmids, rollback, rollback')
           /\ rollback' \in [Vmids -> Keys \cup {Nothing}]
           /\ child' \in [Keys -> Children]
           /\ dirt' \in [Vmids -> SUBSET {"used", "stray"}]
           /\ \A w \in Vmids : dirt'[w] \subseteq dirt[w]
           /\ \/ child' = child
              \/ child[rollback[v]].pc = "posted" /\ ChildGoes(rollback[v], "failed")
              \/ /\ child[rollback[v]].pc = "posted" /\ ChildGoes(rollback[v], "succeeded")
                 /\ dirt'[v] = {}
           /\ UNCHANGED <<vars, member, fills, filler>>
<1>1. /\ rollback[v] # Nothing /\ rollback' = [rollback EXCEPT ![v] = Nothing]
      /\ UNCHANGED <<vars, member, fills, filler>>
      /\ \E ok \in BOOLEAN :
             /\ dirt' = IF ok THEN [dirt EXCEPT ![v] = {}] ELSE dirt
             /\ child' = IF child[rollback[v]].pc # "posted" THEN child
                         ELSE [child EXCEPT ![rollback[v]].pc =
                                   IF ok THEN "succeeded" ELSE "failed"]
  BY DEF RollbackEnds
<1>2. /\ rollback[v] \in Keys /\ rollback'[v] = Nothing
      /\ Kept(v, Vmids, rollback, rollback')
      /\ rollback' \in [Vmids -> Keys \cup {Nothing}]
  BY <1>1, PoolTyped DEF Kept
<1>3. PICK ok \in BOOLEAN :
          /\ dirt' = IF ok THEN [dirt EXCEPT ![v] = {}] ELSE dirt
          /\ child' = IF child[rollback[v]].pc # "posted" THEN child
                      ELSE [child EXCEPT ![rollback[v]].pc =
                                IF ok THEN "succeeded" ELSE "failed"]
  BY <1>1
<1>4. /\ dirt' \in [Vmids -> SUBSET {"used", "stray"}]
      /\ \A w \in Vmids : dirt'[w] \subseteq dirt[w]
      /\ ok => dirt'[v] = {}
  BY <1>3, PoolTyped
<1>5. CASE child[rollback[v]].pc # "posted"
  BY <1>1, <1>2, <1>3, <1>4, <1>5, PoolTyped
<1>6. CASE child[rollback[v]].pc = "posted" /\ ok
  <2>1. child' = [child EXCEPT ![rollback[v]].pc = "succeeded"]
    BY <1>3, <1>6
  <2> QED
    BY <1>1, <1>2, <1>4, <1>6, <2>1, ChildMoves
<1>7. CASE child[rollback[v]].pc = "posted" /\ ~ok
  <2>1. child' = [child EXCEPT ![rollback[v]].pc = "failed"]
    BY <1>3, <1>7
  <2> QED
    BY <1>1, <1>2, <1>4, <1>7, <2>1, ChildMoves
<1> QED
  BY <1>5, <1>6, <1>7

LEMMA FillRequestDoes ==
    ASSUME PoolTypes, NEW v \in Vmids, FillRequest(v)
    PROVE  /\ member[v].state = "none" /\ fills' = fills + 1 /\ fills' \in 0 .. MaxFills
           /\ member'[v].state = "filling" /\ member'[v].lease = Nothing
           /\ member'[v].id = fills + 1 /\ Kept(v, Vmids, member, member')
           /\ member' \in [Vmids -> Members]
           /\ Kept(v, Vmids, dirt, dirt') /\ dirt' \in [Vmids -> SUBSET {"used", "stray"}]
           /\ UNCHANGED <<vars, child, rollback, filler>>
<1> DEFINE d == [NoMember EXCEPT !.state = "filling", !.id = fills + 1]
<1>1. fills + 1 \in 0 .. MaxFills
  BY PoolTyped, FillAssumption DEF FillRequest
<1>2. d.state = "filling" /\ d.lease = Nothing /\ d.id = fills + 1 /\ d \in Members
  BY <1>1 DEF NoMember, Members
<1>3. /\ member[v].state = "none" /\ fills' = fills + 1
      /\ member' = [member EXCEPT ![v] = d] /\ dirt' = [dirt EXCEPT ![v] = {"used"}]
      /\ UNCHANGED <<vars, child, rollback, filler>>
  BY DEF FillRequest
<1> HIDE DEF d
<1> QED
  BY <1>1, <1>2, <1>3, PoolTyped DEF Kept

LEMMA FillStartDoes ==
    ASSUME PoolTypes, NEW f \in Fillers, NEW v \in Vmids, FillStart(f, v)
    PROVE  /\ filler[f].pc = "idle" /\ Filling(v)
           /\ filler'[f].pc \in {"refused", "observe"} /\ filler'[f].vmid = v
           /\ filler'[f].id = member[v].id /\ Kept(f, Fillers, filler, filler')
           /\ filler' \in [Fillers -> Fills]
           /\ UNCHANGED <<vars, member, fills, child, rollback, dirt>>
<1> DEFINE pc == IF member[v].draining THEN "refused" ELSE "observe"
           d == [pc |-> pc, vmid |-> v, id |-> member[v].id]
<1>1. pc \in {"refused", "observe"}
  OBVIOUS
<1>2. d.pc = pc /\ d.vmid = v /\ d.id = member[v].id /\ d \in Fills
  BY <1>1, PoolTyped DEF Fills, Reverts
<1>3. /\ filler[f].pc = "idle" /\ Filling(v) /\ filler' = [filler EXCEPT ![f] = d]
      /\ UNCHANGED <<vars, member, fills, child, rollback, dirt>>
  BY DEF FillStart, Filling
<1> HIDE DEF d, pc
<1> QED
  BY <1>1, <1>2, <1>3, PoolTyped DEF Kept

LEMMA FillRevertDoes ==
    ASSUME PoolTypes, FillIds, NEW f \in Fillers, FillRevert(f)
    PROVE  /\ filler[f].pc \in {"observe", "child", "wait", "verify"}
           /\ filler[f].id \in 1 .. MaxFills /\ filler[f].vmid \in Vmids
           /\ \/ filler'[f].pc = "idle"
              \/ /\ filler'[f].pc # "idle" /\ filler'[f].id = filler[f].id
                 /\ filler'[f].vmid = filler[f].vmid
                 /\ filler'[f].pc = "verify" =>
                        /\ filler[f].pc = "wait"
                        /\ child[<<"fill", filler[f].id>>].pc = "succeeded"
                 /\ filler'[f].pc = "reverted" => filler[f].pc = "verify"
           /\ Kept(f, Fillers, filler, filler') /\ filler' \in [Fillers -> Fills]
           /\ AskedFor(filler[f].pc, <<"fill", filler[f].id>>, filler[f].vmid)
           /\ child' \in [Keys -> Children]
           /\ UNCHANGED <<vars, member, fills, rollback, dirt>>
<1> DEFINE pc == filler[f].pc
           k == <<"fill", filler[f].id>>
           wrong == IF pc = "verify" THEN {"refused"} ELSE {}
<1>1. PICK next \in Reverting(pc, k, filler[f].vmid) \cup wrong :
          filler' = IF next = "fail" THEN [filler EXCEPT ![f] = NoFiller]
                    ELSE [filler EXCEPT ![f].pc = next]
  BY DEF FillRevert
<1>2. Asks(pc, k, filler[f].vmid) /\ UNCHANGED <<vars, member, fills, rollback, dirt>>
  BY DEF FillRevert
<1>3. /\ pc \in {"observe", "child", "wait", "verify"}
      /\ next \in {"child", "wait", "verify", "refused", "reverted", "fail"}
      /\ next = "verify" => pc = "wait" /\ child[k].pc = "succeeded"
      /\ next = "reverted" => pc = "verify"
  <2>1. CASE next \in Reverting(pc, k, filler[f].vmid)
    BY <2>1, RevertingTo
  <2>2. CASE next \in wrong
    BY <2>2
  <2> QED
    BY <2>1, <2>2
<1>4. filler[f].id \in 1 .. MaxFills /\ filler[f].vmid \in Vmids /\ k \in Keys
  BY <1>3, KeyFacts DEF FillIds
<1>5. AskedFor(pc, k, filler[f].vmid) /\ child' \in [Keys -> Children]
  BY <1>2, <1>4, AsksDoes
<1>6. CASE next = "fail"
  <2>1. NoFiller \in Fills /\ NoFiller.pc = "idle"
    BY FillAssumption DEF NoFiller, Fills
  <2>2. filler' = [filler EXCEPT ![f] = NoFiller]
    BY <1>1, <1>6
  <2>3. filler'[f].pc = "idle" /\ Kept(f, Fillers, filler, filler') /\ filler' \in [Fillers -> Fills]
    BY <2>1, <2>2, PoolTyped DEF Kept
  <2> QED
    BY <1>2, <1>3, <1>4, <1>5, <2>3
<1>7. CASE next # "fail"
  <2>1. filler' = [filler EXCEPT ![f].pc = next]
    BY <1>1, <1>7
  <2>2. filler[f] \in Fills
    BY PoolTyped
  <2>3. [filler[f] EXCEPT !.pc = next] \in Fills
    BY <1>3, <1>7, <2>2 DEF Fills, Reverts
  <2>4. /\ filler'[f].pc = next /\ filler'[f].id = filler[f].id
        /\ filler'[f].vmid = filler[f].vmid /\ Kept(f, Fillers, filler, filler')
        /\ filler' \in [Fillers -> Fills]
    BY <2>1, <2>2, <2>3, PoolTyped DEF Kept, Fills
  <2> QED
    BY <1>2, <1>3, <1>4, <1>5, <1>7, <2>4
<1> QED
  BY <1>6, <1>7

LEMMA FillFinishDoes ==
    ASSUME PoolTypes, FillIds, NEW f \in Fillers, FillFinish(f)
    PROVE  /\ filler'[f].pc = "idle" /\ Kept(f, Fillers, filler, filler')
           /\ filler' \in [Fillers -> Fills] /\ member' \in [Vmids -> Members]
           /\ filler[f].pc \in {"refused", "reverted"}
           /\ filler[f].id \in 1 .. MaxFills
           /\ \A v \in Vmids :
                  \/ member'[v] = member[v]
                  \/ /\ Filling(v) /\ member[v].id = filler[f].id
                     /\ member'[v].lease = Nothing
                     /\ member'[v].state \in {"none", "quarantined", "available"}
                     /\ member'[v].state = "available" => filler[f].pc = "reverted"
           /\ UNCHANGED <<vars, fills, child, rollback, dirt>>
<1> DEFINE v == filler[f].vmid
           state == IF filler[f].pc = "reverted" THEN "available" ELSE "quarantined"
<1>1. /\ filler[f].pc \in {"refused", "reverted"}
      /\ filler' = [filler EXCEPT ![f] = NoFiller]
      /\ \/ /\ member[v].id = filler[f].id /\ member[v].state = "filling"
            /\ member' = [member EXCEPT ![v] = Leaves(@, state)]
         \/ member' = member
      /\ UNCHANGED <<vars, fills, child, rollback, dirt>>
  BY DEF FillFinish
<1>2. v \in Vmids /\ filler[f].id \in 1 .. MaxFills
  BY <1>1 DEF FillIds
<1>3. NoFiller \in Fills /\ NoFiller.pc = "idle"
  BY FillAssumption DEF NoFiller, Fills
<1>4. filler'[f].pc = "idle" /\ Kept(f, Fillers, filler, filler') /\ filler' \in [Fillers -> Fills]
  BY <1>1, <1>3, PoolTyped DEF Kept
<1>5. /\ Leaves(member[v], state) \in Members /\ Leaves(member[v], state).lease = Nothing
      /\ Leaves(member[v], state).state \in {"none", state}
  BY <1>1, <1>2, LeavesAs, PoolTyped
<1>6. state \in {"quarantined", "available"} /\ (state = "available" => filler[f].pc = "reverted")
  OBVIOUS
<1> HIDE DEF state, v
<1>7. CASE member' = member
  BY <1>1, <1>2, <1>4, <1>7, PoolTyped
<1>8. CASE /\ member[v].id = filler[f].id /\ member[v].state = "filling"
           /\ member' = [member EXCEPT ![v] = Leaves(@, state)]
  <2>1. /\ member' \in [Vmids -> Members] /\ Kept(v, Vmids, member, member')
        /\ member'[v].lease = Nothing /\ member'[v].state \in {"none", state}
    BY <1>2, <1>5, <1>8, PoolTyped DEF Kept
  <2> QED
    BY <1>1, <1>2, <1>4, <1>6, <1>8, <2>1 DEF Kept, Filling
<1> QED
  BY <1>1, <1>7, <1>8

LEMMA DrainDoes ==
    ASSUME PoolTypes, NEW v \in Vmids, Drain(v)
    PROVE  /\ member' \in [Vmids -> Members]
           /\ \A w \in Vmids :
                  \/ /\ member'[w].state = member[w].state
                     /\ member'[w].lease = member[w].lease /\ member'[w].id = member[w].id
                  \/ /\ member[w].lease = Nothing /\ ~Filling(w)
                     /\ member'[w].state = "none" /\ member'[w].lease = Nothing
           /\ UNCHANGED <<vars, fills, child, rollback, filler, dirt>>
<1>1. UNCHANGED <<vars, fills, child, rollback, filler, dirt>>
  BY DEF Drain
<1>2. CASE member' = [member EXCEPT ![v].draining = TRUE]
  <2>1. member[v] \in Members
    BY PoolTyped
  <2>2. LET n == [member[v] EXCEPT !.draining = TRUE]
        IN  /\ n \in Members /\ n.state = member[v].state
            /\ n.lease = member[v].lease /\ n.id = member[v].id
    BY <2>1 DEF Members
  <2> QED
    BY <1>1, <1>2, <2>2, PoolTyped
<1>3. CASE /\ member[v].lease = Nothing /\ member[v].state # "filling"
           /\ member' = [member EXCEPT ![v] = NoMember]
  <2>1. NoMember \in Members /\ NoMember.lease = Nothing /\ NoMember.state = "none"
    BY FillAssumption DEF NoMember, Members
  <2> QED
    BY <1>1, <1>3, <2>1, PoolTyped DEF Filling
<1> QED
  BY <1>2, <1>3 DEF Drain

LEMMA PoolCrashDoes ==
    ASSUME PoolTypes, PoolCrash
    PROVE  /\ Crash /\ child' \in [Keys -> Children] /\ filler' \in [Fillers -> Fills]
           /\ \A k \in Keys :
                  \/ child'[k] = child[k]
                  \/ /\ child[k].pc \in {"claimed", "posted"} /\ child'[k].pc = "failed"
                     /\ child'[k].vmid = child[k].vmid
           /\ \A f \in Fillers : filler'[f].pc = "idle"
           /\ UNCHANGED <<member, fills, rollback, dirt>>
<1>1. /\ Crash /\ UNCHANGED <<member, fills, rollback, dirt>>
      /\ child' = [k \in Keys |-> IF child[k].pc \in {"claimed", "posted"}
                                  THEN [child[k] EXCEPT !.pc = "failed"] ELSE child[k]]
      /\ filler' = [f \in Fillers |-> NoFiller]
  BY DEF PoolCrash
<1>2. \A c \in Children : LET d == [c EXCEPT !.pc = "failed"]
                          IN  d \in Children /\ d.pc = "failed" /\ d.vmid = c.vmid
  BY DEF Children
<1>3. NoFiller \in Fills /\ NoFiller.pc = "idle"
  BY FillAssumption DEF NoFiller, Fills
<1>4. filler' \in [Fillers -> Fills] /\ \A f \in Fillers : filler'[f].pc = "idle"
  BY <1>1, <1>3
<1>5. \A k \in Keys : child[k] \in Children
  BY PoolTyped
<1>6. /\ child' \in [Keys -> Children]
      /\ \A k \in Keys :
             \/ child'[k] = child[k]
             \/ /\ child[k].pc \in {"claimed", "posted"} /\ child'[k].pc = "failed"
                /\ child'[k].vmid = child[k].vmid
  BY <1>1, <1>2, <1>5
<1> QED
  BY <1>1, <1>4, <1>6

-----------------------------------------------------------------------------
\* A saga that is about to reserve has been offered a VMID.
LEMMA AimsStep == Ground /\ [Next]_vars => Aims'
<1> SUFFICES ASSUME Ground, [Next]_vars PROVE Aims' OBVIOUS
<1>0. /\ TypeOK /\ CopyInv /\ Aims
  BY DEF Ground, CopyInv
<1>1. CASE UNCHANGED saga
  BY <1>0, <1>1 DEF Aims
<1>2. ASSUME NEW l \in Leases, Provision(l)
      PROVE  Aims'
  BY <1>0, <1>2, ProvisionDoes DEF Same, SagaGoes, Aims
<1>3. ASSUME NEW l \in Leases, QueueProvision(l)
      PROVE  Aims'
  BY <1>0, <1>3, QueueProvisionDoes DEF Same, SagaGoes, Aims
<1>4. ASSUME NEW l \in Leases, Begin(l)
      PROVE  Aims'
  BY <1>0, <1>4, BeginDoes DEF Same, SagaGoes, Aims
<1>5. ASSUME NEW l \in Leases, Reserve(l)
      PROVE  Aims'
  BY <1>0, <1>5, ReserveDoes DEF Same, SagaGoes, Aims
<1>6. ASSUME NEW l \in Leases, CloneCall(l)
      PROVE  Aims'
  BY <1>0, <1>6, CloneCallDoes DEF Same, SagaGoes, Aims
<1>7. ASSUME NEW l \in Leases, Mark(l)
      PROVE  Aims'
  BY <1>0, <1>7, MarkDoes DEF Same, SagaGoes, Aims
<1>8. ASSUME NEW l \in Leases, BootRecord(l)
      PROVE  Aims'
  BY <1>0, <1>8, BootRecordDoes DEF Same, SagaGoes, Aims
<1>9. ASSUME NEW l \in Leases, BootLease(l)
      PROVE  Aims'
  BY <1>0, <1>9, BootLeaseDoes DEF Same, SagaGoes, Aims
<1>10. ASSUME NEW l \in Leases, Wait(l)
      PROVE  Aims'
  BY <1>0, <1>10, WaitDoes DEF Same, SagaGoes, Aims
<1>11. ASSUME NEW l \in Leases, StrapRead(l)
      PROVE  Aims'
  BY <1>0, <1>11, StrapReadDoes DEF Same, SagaGoes, Aims
<1>12. ASSUME NEW l \in Leases, StrapWrite(l)
      PROVE  Aims'
  BY <1>0, <1>12, StrapWriteDoes DEF Same, SagaGoes, Aims
<1>13. ASSUME NEW l \in Leases, Strap(l)
      PROVE  Aims'
  BY <1>0, <1>13, StrapDoes DEF Same, SagaGoes, Aims
<1>14. ASSUME NEW l \in Leases, Ready(l)
      PROVE  Aims'
  BY <1>0, <1>14, ReadyDoes DEF Same, SagaGoes, Aims
<1>15. ASSUME NEW l \in Leases, SagaErrs(l)
      PROVE  Aims'
  BY <1>0, <1>15, SagaErrsDoes DEF Same, SagaGoes, Aims
<1>16. ASSUME NEW l \in Leases, FailRecord(l)
      PROVE  Aims'
  BY <1>0, <1>16, FailRecordDoes DEF Same, SagaGoes, Aims
<1>17. ASSUME NEW l \in Leases, FailWrite(l)
      PROVE  Aims'
  BY <1>0, <1>17, FailWriteDoes DEF Same, SagaGoes, Aims
<1>18. ASSUME NEW l \in Leases, CompensateRead(l)
      PROVE  Aims'
  BY <1>0, <1>18, CompensateReadDoes DEF Same, SagaGoes, Aims
<1>19. ASSUME NEW l \in Leases, CompensateWrite(l)
      PROVE  Aims'
  BY <1>0, <1>19, CompensateWriteDoes DEF Same, Aims
<1>20. ASSUME NEW l \in Leases, CompensateQueue(l)
      PROVE  Aims'
  BY <1>0, <1>20, CompensateQueueDoes DEF Same, SagaGoes, Aims
<1>21. CASE Crash
  BY <1>0, <1>21, CrashDoes DEF Aims
<1>22. ASSUME NEW l \in Leases, SagaStep(l)
      PROVE  Aims'
  BY <1>22, <1>4, <1>5, <1>6, <1>7, <1>8, <1>9, <1>10, <1>11, <1>12, <1>13, <1>14,
     <1>15, <1>16, <1>17, <1>18, <1>19, <1>20
  DEF SagaStep
<1>23. ASSUME NEW l \in Leases, NEW a \in Attempts, CleanerStep(l, a)
      PROVE  Aims'
  BY <1>23, <1>1
  DEF CleanerStep, CleanStart, CleanIdentify, CleanDelete, CleanErrs, CleanRelease,
       CleanFail, Clean, OnlyCleaner, rows, Update, CleanerAndLease
<1>24. ASSUME NEW c \in Callers, CallStep(c)
      PROVE  Aims'
  BY <1>24, <1>1
  DEF CallStep, ReleaseWrite, RetryWrite, ExtendWrite, CallQueue, Update,
       CallAndLease, Move, rows, Queue
<1>25. ASSUME NEW l \in Leases, SweepStep(l)
      PROVE  Aims'
  BY <1>25, <1>1
  DEF SweepStep, ExpiryScan, ExpiryClaim, StuckRecords, StuckLeases, StuckMove,
       Abandon, CleanupQueue, CleanupScan, CleanupCount, GuestScan, Judge, Scan, OnlySweep,
       rows, Swept, Move, SweepAndLease, Queue
<1> QED
  BY <1>1, <1>2, <1>3, <1>21, <1>22, <1>23, <1>24, <1>25
  DEF Next, Progress, Requests, vars, CloneLands, CloneFails, AskRelease, AskRetry,
       AskExtend, TtlPasses, rows, Asked

\* The steps of LabLeases keep the ground they stand on, and never bring a
\* lease back to where nothing was cleaned up.
LEMMA NextKeeps ==
    ASSUME Ground, EarlyInv, [Next]_vars
    PROVE  Ground' /\ EarlyInv' /\ \A k \in Leases : Early(k)' => Early(k)
<1>1. Ground'
  BY TypeStep, CopiesStep, AimsStep DEF Ground
<1> QED
  BY <1>1, EarlyBefore, UntouchedStays DEF EarlyInv

\* So do the steps of a pool that move a saga, and those that move a cleanup.
SagaWhole(l) ==
    /\ saga' \in [Leases -> Sagas] /\ Same(l, saga, saga')
    /\ saga'[l].pc \notin {"reserve", "clone", "mark", "compwrite", "compqueue"}
    /\ saga'[l].pc \in Holding => saga[l].pc \in Holding \/ record'[l].vmid \in Vmids
    /\ saga'[l].pc \in SagaHolds => saga'[l].row \in Rows
    /\ record' \in [Leases -> Records]
    /\ \A m \in Leases : m # l => record'[m].vmid = record[m].vmid
    /\ record'[l].vmid # record[l].vmid => record'[l].vmid \in Vmids
    /\ UNCHANGED <<lease, overtaken, guest, task, cleaner, call, sweep, lapsed,
                   reported, crashes>>

LEMMA SagaKeeps ==
    ASSUME Ground, EarlyInv, NEW l \in Leases, SagaWhole(l)
    PROVE  Ground' /\ EarlyInv' /\ \A k \in Leases : Early(k)' => Early(k)
<1>1. TypeOK'
  BY DEF Ground, TypeOK, SagaWhole
<1>2. SagaCopies' /\ Aims'
  BY DEF Ground, CopyInv, SagaCopies, Aims, SagaWhole, Same, Allocated
<1>3. CleanerCopies' /\ CallCopies' /\ SweepCopies'
  BY DEF Ground, CopyInv, CleanerCopies, CallCopies, SweepCopies, SagaWhole
<1>4. \A k \in Leases : Early(k)' => Early(k)
  BY DEF SagaWhole, Early
<1>5. \A k \in Leases : Untouched(k) => Untouched(k)'
  BY DEF SagaWhole, Untouched, Same
<1> QED
  BY <1>1, <1>2, <1>3, <1>4, <1>5 DEF Ground, CopyInv, EarlyInv

CleanerWhole(l, a) ==
    /\ cleaner' \in [Leases -> [Attempts -> Cleaners]] /\ Same(l, cleaner, cleaner')
    /\ \A b \in Attempts : b # a => cleaner'[l][b] = cleaner[l][b]
    /\ cleaner[l][a].pc # "absent" /\ cleaner'[l][a].pc \notin {"identify", "delete"}
    /\ cleaner'[l][a].pc \in CleanerHolds => cleaner'[l][a].row \in Rows
    /\ lease' \in [Leases -> Rows]
    /\ \A k \in Leases : lease'[k].state = lease[k].state \/ lease'[k].state = "released"
    /\ UNCHANGED <<overtaken, record, guest, task, saga, call, sweep, lapsed,
                   reported, crashes>>

LEMMA CleanerKeeps ==
    ASSUME Ground, EarlyInv, NEW l \in Leases, NEW a \in Attempts, CleanerWhole(l, a)
    PROVE  Ground' /\ EarlyInv' /\ \A k \in Leases : Early(k)' => Early(k)
<1>1. TypeOK'
  BY DEF Ground, TypeOK, CleanerWhole
<1>2. CleanerCopies'
  BY DEF Ground, CopyInv, CleanerCopies, CleanerWhole, Same
<1>3. SagaCopies' /\ Aims' /\ CallCopies' /\ SweepCopies'
  BY DEF Ground, CopyInv, SagaCopies, Aims, CallCopies, SweepCopies, CleanerWhole
<1>4. \A k \in Leases : Early(k)' => Early(k)
  BY DEF CleanerWhole, Early, InSaga
<1>5. \A k \in Leases : k # l /\ Untouched(k) => Untouched(k)'
  BY DEF CleanerWhole, Untouched, Same
<1>6. ~Early(l)
  BY DEF CleanerWhole, EarlyInv, Untouched
<1> QED
  BY <1>1, <1>2, <1>3, <1>4, <1>5, <1>6 DEF Ground, CopyInv, EarlyInv

\* The boot of a pooled lease, whose guest is named after no record.
LEMMA BootDoes ==
    ASSUME TypeOK, NEW l \in Leases, Boot(l)
    PROVE  /\ \/ SagaGoes(l, "settle", "fail") /\ record' = record
              \/ /\ SagaGoes(l, "settle", "bootlease") /\ saga'[l].row = lease[l]
                 /\ record[l].state # "never_ready"
                 /\ RecordGets(l, "booting", record[l].vmid, record[l].upid)
           /\ SagaWhole(l)
<1>1. /\ \/ SagaGoes(l, "settle", "fail") /\ record' = record
         \/ /\ SagaGoes(l, "settle", "bootlease") /\ saga'[l].row = lease[l]
            /\ record[l].state # "never_ready"
            /\ RecordGets(l, "booting", record[l].vmid, record[l].upid)
      /\ UNCHANGED <<lease, overtaken, guest, task, cleaner, call, sweep, lapsed,
                     reported, crashes>>
  BY AtDoes, ReadingDoes, Types DEF Boot, SagaAndRecord, rows, Same, RecordGets, Records
<1>2. saga' \in [Leases -> Sagas]
  BY SagaMoves, Types DEF Boot, SagaPcs
<1>3. record' \in [Leases -> Records]
  <2>1. [record EXCEPT ![l].state = "booting"] \in [Leases -> Records]
    BY RecordEdits, RecordNames, Types
  <2>2. record' = record \/ record' = [record EXCEPT ![l].state = "booting"]
    BY DEF Boot
  <2> QED
    BY <2>1, <2>2, Types
<1> QED
  BY <1>1, <1>2, <1>3, Types DEF SagaWhole, SagaGoes, SagaHolds,
     Holding, Booted, RecordGets, Same

LEMMA PoolSagaWhole ==
    ASSUME TypeOK, PoolTypes, NEW l \in Leases,
           PoolBegin(l) \/ Claim(l) \/ PoolStart(l) \/ PoolWait(l)
    PROVE  SagaWhole(l)
<1>1. CASE PoolBegin(l)
  <2>1. saga' \in [Leases -> Sagas]
    BY <1>1, SagaMoves, Types DEF PoolBegin, SagaPcs
  <2> QED
    BY <1>1, <2>1, PoolBeginDoes, Types DEF SagaWhole, SagaGoes, SagaHolds,
       Holding, Booted
<1>2. CASE Claim(l)
  <2>0. \/ At(l, "claim", "fail") /\ record' = record
        \/ \E v \in Vmids :
               /\ saga' = [saga EXCEPT ![l] =
                               [pc |-> "settle", vmid |-> v, row |-> Nothing]]
               /\ record' = [record EXCEPT ![l].vmid = v]
    BY <1>2 DEF Claim
  <2>1. saga' \in [Leases -> Sagas]
    <3>1. \A v \in Vmids : [pc |-> "settle", vmid |-> v, row |-> Nothing] \in Sagas
      BY CopyTypes DEF Sagas, SagaPcs
    <3>2. "fail" \in SagaPcs
      BY DEF SagaPcs
    <3> QED
      BY <2>0, <3>1, <3>2, SagaMoves, Types
  <2>2. record' \in [Leases -> Records]
    <3>1. \A v \in Vmids : [record EXCEPT ![l].vmid = v] \in [Leases -> Records]
      BY Types, RecordEdits, RecordNames
    <3> QED
      BY <2>0, <3>1, Types
  <2> QED
    BY <1>2, <2>1, <2>2, ClaimDoes DEF SagaWhole, SagaGoes, SagaHolds,
       Holding, Booted, RecordGets, Same
<1>3. CASE PoolStart(l)
  <2>1. saga' \in [Leases -> Sagas]
    BY <1>3, SagaMoves, Types DEF PoolStart, SagaPcs
  <2> QED
    BY <1>3, <2>1, PoolStartDoes, Types DEF SagaWhole, SagaGoes, SagaHolds,
       Holding, Booted
<1>4. CASE PoolWait(l)
  <2>1. saga' \in [Leases -> Sagas]
    BY <1>4, SagaMoves, Types DEF PoolWait, Written, SagaPcs
  <2> QED
    BY <1>4, <2>1, PoolWaitDoes, Types DEF SagaWhole, SagaGoes, SagaHolds,
       Holding, Booted
<1> QED
  BY <1>1, <1>2, <1>3, <1>4

LEMMA PoolCleanerWhole ==
    ASSUME TypeOK, PoolTypes, PoolCopies, NEW l \in pooled, NEW a \in Attempts,
           \/ PoolCleanStart(l, a) \/ PoolPlan(l, a) \/ PoolRevert(l, a)
           \/ PoolQuarantine(l, a) \/ PoolRelease(l, a)
    PROVE  CleanerWhole(l, a)
<1>0. l \in Leases /\ (cleaner[l][a].pc \in PoolPlaces => cleaner[l][a].row \in Rows)
  BY PoolTyped DEF PoolCopies
<1>1. CASE PoolCleanStart(l, a)
  BY <1>0, <1>1, PoolCleanStartDoes, Types DEF CleanerWhole, CleanerGoes, CleanerHolds
<1>2. CASE PoolPlan(l, a)
  BY <1>0, <1>2, PoolPlanDoes, Types DEF CleanerWhole, CleanerGoes, CleanerHolds, PoolPlaces
<1>3. CASE PoolRevert(l, a)
  <2>1. cleaner[l][a].pc \in PoolPlaces
    BY <1>0, <1>3, PoolRevertDoes DEF PoolPlaces
  <2> QED
    BY <1>0, <1>3, <2>1, PoolRevertDoes, Types DEF CleanerWhole, CleanerGoes, PoolPlaces
<1>4. CASE PoolQuarantine(l, a)
  BY <1>0, <1>4, PoolQuarantineDoes, Types DEF CleanerWhole, CleanerGoes, PoolPlaces
<1>5. CASE PoolRelease(l, a)
  <2>1. /\ cleaner' \in [Leases -> [Attempts -> Cleaners]]
        /\ cleaner[l][a].pc \in {"keep", "reverted"}
        /\ UNCHANGED <<overtaken, record, guest, task, saga, call, sweep, lapsed,
                       reported, crashes>>
    BY <1>0, <1>5, PoolReleaseDoes
  <2>2. CASE /\ CleanerGoes(l, a, cleaner[l][a].pc, "done") /\ lease' \in [Leases -> Rows]
             /\ LeaseState(l, "released", lease[l].link)
    BY <1>0, <2>1, <2>2 DEF CleanerWhole, CleanerGoes, CleanerHolds, LeaseState, Same
  <2>3. CASE /\ CleanerGoes(l, a, cleaner[l][a].pc, "fail") /\ lease' = lease
             /\ cleaner'[l][a].row = cleaner[l][a].row
    BY <1>0, <2>1, <2>3, Types DEF CleanerWhole, CleanerGoes, CleanerHolds, PoolPlaces
  <2> QED
    BY <1>0, <1>5, <2>2, <2>3, PoolReleaseDoes
<1> QED
  BY <1>1, <1>2, <1>3, <1>4, <1>5

\* The steps that the pools share with LabLeases, and the steps of a pool.
Elsewhere ==
    \/ LeaseStep
    \/ Requests /\ UNCHANGED poolVars
    \/ (\E l \in Leases : TtlPasses(l)) /\ UNCHANGED poolVars

LEMMA ElsewhereIs ==
    ASSUME PoolTypes, Elsewhere \/ Crash
    PROVE  [Next]_vars \/ \E l \in pooled : Boot(l)
BY PoolTyped, Zenon DEF Elsewhere, LeaseStep, SharedStep, Next, Progress, SagaStep, CleanerStep

LEMMA PoolKeeps ==
    ASSUME PoolIInv, PoolNext
    PROVE  Ground' /\ EarlyInv' /\ \A k \in Leases : Early(k)' => Early(k)
<1>0. Ground /\ EarlyInv /\ PoolTypes /\ PoolCopies /\ TypeOK /\ pooled \subseteq Leases
  BY PoolTyped DEF PoolIInv, Ground
<1>1. CASE [Next]_vars
  BY <1>0, <1>1, NextKeeps
<1>2. ASSUME NEW l \in pooled, Boot(l)
      PROVE  Ground' /\ EarlyInv' /\ \A k \in Leases : Early(k)' => Early(k)
  BY <1>0, <1>2, BootDoes, SagaKeeps
<1>3. ASSUME NEW l \in pooled, PoolStep(l)
      PROVE  Ground' /\ EarlyInv' /\ \A k \in Leases : Early(k)' => Early(k)
  <2>1. CASE PoolBegin(l) \/ Claim(l) \/ PoolStart(l) \/ PoolWait(l)
    BY <1>0, <2>1, PoolSagaWhole, SagaKeeps
  <2>2. ASSUME NEW a \in Attempts,
               \/ PoolCleanStart(l, a) \/ PoolPlan(l, a) \/ PoolRevert(l, a)
               \/ PoolQuarantine(l, a) \/ PoolRelease(l, a)
        PROVE  Ground' /\ EarlyInv' /\ \A k \in Leases : Early(k)' => Early(k)
    BY <1>0, <2>2, PoolCleanerWhole, CleanerKeeps
  <2> QED
    BY <1>3, <2>1, <2>2 DEF PoolStep
<1>4. CASE UNCHANGED vars
  BY <1>1, <1>4
<1>5. CASE Elsewhere \/ PoolCrash
  BY <1>0, <1>1, <1>2, <1>5, ElsewhereIs DEF PoolCrash
<1>6. ASSUME NEW k \in Keys, ChildStep(k)
      PROVE  UNCHANGED vars
  BY <1>6 DEF ChildStep, ChildClaim, ChildPost, ChildErrs
<1>7. ASSUME NEW v \in Vmids, RollbackEnds(v) \/ FillRequest(v) \/ Drain(v)
      PROVE  UNCHANGED vars
  BY <1>7 DEF RollbackEnds, FillRequest, Drain
<1>8. ASSUME NEW f \in Fillers, FillStep(f) \/ \E v \in Vmids : FillStart(f, v)
      PROVE  UNCHANGED vars
  BY <1>8 DEF FillStep, FillRevert, FillFinish, FillStart
<1>9. Elsewhere \/ PoolCrash \/ UNCHANGED vars \/ \E l \in pooled : PoolStep(l)
  <2>1. Elsewhere \/ PoolCrash \/ (\E l \in pooled : PoolStep(l))
        \/ (\E k \in Keys : ChildStep(k))
        \/ (\E v \in Vmids : RollbackEnds(v) \/ FillRequest(v) \/ Drain(v))
        \/ (\E f \in Fillers : FillStep(f) \/ \E v \in Vmids : FillStart(f, v))
    BY Zenon DEF PoolNext, PoolProgress, Elsewhere
  <2> QED
    BY <2>1, <1>6, <1>7, <1>8
<1> QED
  BY <1>3, <1>4, <1>5, <1>9

-----------------------------------------------------------------------------
\* What a step that is no pool's own does to a pooled lease: the record keeps
\* its VMID, the saga comes to no place where it holds a member, the lease is
\* released by a cleanup that was about to, and a revert goes no further.
Calm(k) ==
    /\ record'[k].vmid = record[k].vmid
    /\ saga'[k].pc \in Holding => saga[k].pc \in Holding
    /\ lease'[k].state = "ready" => lease[k].state = "ready" \/ saga[k].pc \in Holding
    /\ k \in overtaken => k \in overtaken'
    /\ lease'[k].state = "released" /\ k \notin overtaken' =>
           lease[k].state = "released" \/ \E a \in Attempts : cleaner[k][a].pc = "release"
    /\ \A a \in Attempts :
           /\ cleaner'[k][a].pc \in PoolPlaces \cup {"release"} =>
                  /\ cleaner'[k][a].pc = cleaner[k][a].pc
                  /\ cleaner'[k][a].row = cleaner[k][a].row
           /\ cleaner[k][a].pc # "absent" => cleaner'[k][a].pc # "absent"

LEMMA QueueCalm ==
    ASSUME TypeOK, NEW l \in Leases, NEW a \in Attempts, Queue(l, a), NEW k \in Leases,
           NEW b \in Attempts
    PROVE  /\ cleaner'[k][b].pc \in PoolPlaces \cup {"release"} =>
                  /\ cleaner'[k][b].pc = cleaner[k][b].pc
                  /\ cleaner'[k][b].row = cleaner[k][b].row
           /\ cleaner[k][b].pc # "absent" => cleaner'[k][b].pc # "absent"
BY QueueDoes DEF Same, PoolPlaces

LEMMA CalmElsewhere ==
    ASSUME Ground, PoolTypes, NEW k \in pooled, Elsewhere \/ Crash
    PROVE  Calm(k)
<1>0. TypeOK /\ CopyInv /\ k \in Leases
  BY PoolTyped DEF Ground
<1>1. CASE UNCHANGED <<lease, overtaken, record, saga, cleaner>>
  BY <1>1 DEF Calm
<1>2. ASSUME NEW l \in Leases, Provision(l)
      PROVE  Calm(k)
  BY <1>0, <1>2, ProvisionDoes DEF Calm, Same, SagaGoes, Holding, Booted,
     RecordGets, LeaseState
<1>3. ASSUME NEW l \in Leases, QueueProvision(l)
      PROVE  Calm(k)
  BY <1>0, <1>3, QueueProvisionDoes DEF Calm, Same, SagaGoes, Holding, Booted
<1>4. ASSUME NEW l \in Leases \ pooled, Begin(l)
      PROVE  Calm(k)
  BY <1>0, <1>4, BeginDoes DEF Calm, Same, SagaGoes, Holding, Booted
<1>5. ASSUME NEW l \in Leases \ pooled, Reserve(l)
      PROVE  Calm(k)
  BY <1>0, <1>5, ReserveDoes DEF Calm, Same, SagaGoes, Holding, Booted, RecordGets
<1>6. ASSUME NEW l \in Leases \ pooled, CloneCall(l)
      PROVE  Calm(k)
  BY <1>0, <1>6, CloneCallDoes DEF Calm, Same, SagaGoes, Holding, Booted
<1>7. ASSUME NEW l \in Leases \ pooled, Mark(l)
      PROVE  Calm(k)
  BY <1>0, <1>7, MarkDoes DEF Calm, Same, SagaGoes, Holding, Booted, RecordGets
<1>8. ASSUME NEW l \in Leases \ pooled, BootRecord(l)
      PROVE  Calm(k)
  BY <1>0, <1>8, BootRecordDoes DEF Calm, Same, SagaGoes, Holding, Booted,
     RecordGets
<1>9. ASSUME NEW l \in Leases \ pooled, Wait(l)
      PROVE  Calm(k)
  BY <1>0, <1>9, WaitDoes DEF Calm, Same, SagaGoes, Holding, Booted, RecordGets
<1>10. ASSUME NEW l \in Leases, Boot(l)
      PROVE  Calm(k)
  BY <1>0, <1>10, BootDoes DEF Calm, Same, SagaGoes, Holding, Booted, RecordGets,
     SagaWhole
<1>11. ASSUME NEW l \in Leases, BootLease(l)
      PROVE  Calm(k)
  BY <1>0, <1>11, BootLeaseDoes DEF Calm, Same, SagaGoes, Holding, Booted,
     LeaseGets, Blind
<1>12. ASSUME NEW l \in Leases, StrapRead(l)
      PROVE  Calm(k)
  BY <1>0, <1>12, StrapReadDoes DEF Calm, Same, SagaGoes, Holding, Booted
<1>13. ASSUME NEW l \in Leases, StrapWrite(l)
      PROVE  Calm(k)
  BY <1>0, <1>13, StrapWriteDoes DEF Calm, Same, SagaGoes, Holding, Booted,
     LeaseGets, Blind
<1>14. ASSUME NEW l \in Leases, Strap(l)
      PROVE  Calm(k)
  BY <1>0, <1>14, StrapDoes DEF Calm, Same, SagaGoes, Holding, Booted, RecordGets
<1>15. ASSUME NEW l \in Leases, Ready(l)
      PROVE  Calm(k)
  BY <1>0, <1>15, ReadyDoes DEF Calm, Same, SagaGoes, Holding, Booted, RecordGets
<1>16. ASSUME NEW l \in Leases, SagaErrs(l)
      PROVE  Calm(k)
  BY <1>0, <1>16, SagaErrsDoes DEF Calm, Same, SagaGoes, Holding, Booted
<1>17. ASSUME NEW l \in Leases, FailRecord(l)
      PROVE  Calm(k)
  BY <1>0, <1>17, FailRecordDoes DEF Calm, Same, SagaGoes, Holding, Booted,
     RecordGets
<1>18. ASSUME NEW l \in Leases, FailWrite(l)
      PROVE  Calm(k)
  BY <1>0, <1>18, FailWriteDoes DEF Calm, Same, SagaGoes, Holding, Booted,
     LeaseGets, Blind
<1>19. ASSUME NEW l \in Leases, CompensateRead(l)
      PROVE  Calm(k)
  BY <1>0, <1>19, CompensateReadDoes DEF Calm, Same, SagaGoes, Holding, Booted
<1>20. ASSUME NEW l \in Leases, CompensateWrite(l)
      PROVE  Calm(k)
  BY <1>0, <1>20, CompensateWriteDoes DEF Calm, Same, SagaGoes, Holding, Booted,
     LeaseGets, Blind
<1>21. ASSUME NEW l \in Leases, CompensateQueue(l)
      PROVE  Calm(k)
  BY <1>0, <1>21, CompensateQueueDoes, QueueCalm, RowFields DEF Calm, Same,
     SagaGoes, Holding, Booted, CopyInv, SagaCopies, SagaHolds
<1>22. ASSUME NEW l \in Leases \ pooled, NEW a \in Attempts, CleanStart(l, a)
      PROVE  Calm(k)
  BY <1>0, <1>22, CleanStartDoes DEF Calm, Same, CleanerGoes, PoolPlaces
<1>23. ASSUME NEW l \in Leases \ pooled, NEW a \in Attempts, CleanIdentify(l, a)
      PROVE  Calm(k)
  BY <1>0, <1>23, CleanIdentifyDoes DEF Calm, Same, CleanerGoes, PoolPlaces
<1>24. ASSUME NEW l \in Leases \ pooled, NEW a \in Attempts, CleanDelete(l, a)
      PROVE  Calm(k)
  BY <1>0, <1>24, CleanDeleteDoes DEF Calm, Same, CleanerGoes, PoolPlaces
<1>25. ASSUME NEW l \in Leases, NEW a \in Attempts, CleanErrs(l, a)
      PROVE  Calm(k)
  BY <1>0, <1>25, CleanErrsDoes DEF Calm, Same, CleanerGoes, PoolPlaces
<1>26. ASSUME NEW l \in Leases, NEW a \in Attempts, CleanRelease(l, a)
      PROVE  Calm(k)
  BY <1>0, <1>26, CleanReleaseDoes DEF Calm, Same, CleanerGoes, PoolPlaces,
     LeaseGets, Blind
<1>27. ASSUME NEW l \in Leases, NEW a \in Attempts, CleanFail(l, a)
      PROVE  Calm(k)
  BY <1>0, <1>27, CleanFailDoes DEF Calm, Same, CleanerGoes, PoolPlaces, Blind
<1>28. ASSUME NEW c \in Callers, ReleaseWrite(c)
      PROVE  Calm(k)
  BY <1>0, <1>28, ReleaseWriteDoes DEF Calm, Same, LeaseGets, Blind
<1>29. ASSUME NEW c \in Callers, RetryWrite(c)
      PROVE  Calm(k)
  BY <1>0, <1>29, RetryWriteDoes DEF Calm, Same, LeaseState
<1>30. ASSUME NEW c \in Callers, ExtendWrite(c)
      PROVE  Calm(k)
  BY <1>0, <1>30, ExtendWriteDoes DEF Calm, Same
<1>31. ASSUME NEW c \in Callers, CallQueue(c)
      PROVE  Calm(k)
  BY <1>0, <1>31, CallQueueDoes, QueueCalm, RowFields DEF Calm, CallGoes, CopyInv,
     CallCopies, CallHolds
<1>32. ASSUME NEW l \in Leases, ExpiryClaim(l)
      PROVE  Calm(k)
  BY <1>0, <1>32, ExpiryClaimDoes DEF Calm, Same, LeaseState
<1>33. ASSUME NEW l \in Leases, StuckMove(l)
      PROVE  Calm(k)
  BY <1>0, <1>33, StuckMoveDoes DEF Calm, Same, LeaseState, CopyInv, SweepCopies
<1>34. ASSUME NEW l \in Leases, Abandon(l)
      PROVE  Calm(k)
  BY <1>0, <1>34, AbandonDoes DEF Calm, Same, RecordGets
<1>35. ASSUME NEW l \in Leases, CleanupQueue(l)
      PROVE  Calm(k)
  BY <1>0, <1>35, CleanupQueueDoes, QueueCalm, RowFields, RowTypes DEF Calm
<1>36. ASSUME NEW l \in Leases, CleanupCount(l)
      PROVE  Calm(k)
  BY <1>0, <1>36, CleanupCountDoes DEF Calm, Same
<1>37. CASE Crash
  BY <1>0, <1>37, CrashDoes DEF Calm, Holding, Booted, PoolPlaces
<1>38. ASSUME NEW l \in Leases \ pooled, SagaStep(l)
      PROVE  Calm(k)
  BY <1>38, <1>1, <1>4, <1>5, <1>6, <1>7, <1>8, <1>9, <1>11, <1>12, <1>13, <1>14,
     <1>15, <1>16, <1>17, <1>18, <1>19, <1>20, <1>21
  DEF SagaStep
<1>39. ASSUME NEW l \in Leases \ pooled, NEW a \in Attempts, CleanerStep(l, a)
      PROVE  Calm(k)
  BY <1>39, <1>1, <1>22, <1>23, <1>24, <1>25, <1>26, <1>27
  DEF CleanerStep
<1>40. ASSUME NEW l \in pooled, SharedStep(l)
      PROVE  Calm(k)
  <2>1. l \in Leases
    BY PoolTyped
  <2> QED
    BY <1>40, <2>1, <1>10, <1>11, <1>12, <1>13, <1>14, <1>15, <1>16, <1>17, <1>18,
       <1>19, <1>20, <1>21, <1>26, <1>27 DEF SharedStep
<1>41. ASSUME NEW c \in Callers, CallStep(c)
      PROVE  Calm(k)
  BY <1>41, <1>1, <1>28, <1>29, <1>30, <1>31
  DEF CallStep
<1>42. ASSUME NEW l \in Leases, SweepStep(l)
      PROVE  Calm(k)
  BY <1>42, <1>1, <1>32, <1>33, <1>34, <1>35, <1>36
  DEF SweepStep, ExpiryScan, StuckRecords, StuckLeases, CleanupScan, GuestScan,
     Judge, Scan, OnlySweep, rows, Swept
<1>43. ASSUME Requests PROVE Calm(k)
  BY <1>43, <1>1, <1>2, <1>3 DEF Requests, AskRelease, AskRetry, AskExtend, Asked,
     rows
<1>44. ASSUME NEW l \in Leases, CloneLands(l) \/ CloneFails(l) \/ TtlPasses(l)
      PROVE  Calm(k)
  BY <1>44, <1>1 DEF CloneLands, CloneFails, TtlPasses, rows
<1> QED
  BY <1>37, <1>38, <1>39, <1>40, <1>41, <1>42, <1>43, <1>44 DEF Elsewhere,
     LeaseStep

-----------------------------------------------------------------------------
\* The steps that are no pool's own and leave the members alone; the steps of
\* the rollback operations.
Quiet == Elsewhere \/ PoolCrash

LEMMA PoolCases ==
    ASSUME PoolNext
    PROVE  /\ pooled' = pooled
           /\ \/ Quiet
              \/ \E l \in pooled : PoolBegin(l) \/ Claim(l) \/ PoolStart(l) \/ PoolWait(l)
              \/ \E l \in pooled, a \in Attempts :
                     \/ PoolCleanStart(l, a) \/ PoolPlan(l, a) \/ PoolRevert(l, a)
                     \/ PoolQuarantine(l, a) \/ PoolRelease(l, a)
              \/ \E k \in Keys : ChildStep(k)
              \/ \E v \in Vmids : RollbackEnds(v) \/ FillRequest(v) \/ Drain(v)
              \/ \E f \in Fillers : FillRevert(f) \/ FillFinish(f)
              \/ \E f \in Fillers, v \in Vmids : FillStart(f, v)
<1>1. Quiet \/ (\E l \in pooled : PoolStep(l))
      \/ (\E k \in Keys : ChildStep(k))
      \/ (\E v \in Vmids : RollbackEnds(v) \/ FillRequest(v) \/ Drain(v))
      \/ (\E f \in Fillers : FillStep(f)) \/ (\E f \in Fillers, v \in Vmids : FillStart(f, v))
  BY Zenon DEF PoolNext, PoolProgress, Elsewhere, Quiet
<1>2. pooled' = pooled
  BY DEF PoolNext
<1>3. ASSUME NEW l \in pooled, PoolStep(l)
      PROVE  \/ PoolBegin(l) \/ Claim(l) \/ PoolStart(l) \/ PoolWait(l)
             \/ \E a \in Attempts :
                    \/ PoolCleanStart(l, a) \/ PoolPlan(l, a) \/ PoolRevert(l, a)
                    \/ PoolQuarantine(l, a) \/ PoolRelease(l, a)
  BY <1>3 DEF PoolStep
<1>4. ASSUME NEW f \in Fillers, FillStep(f)
      PROVE  FillRevert(f) \/ FillFinish(f)
  BY <1>4 DEF FillStep
<1> QED
  BY <1>1, <1>2, <1>3, <1>4, Zenon

LEMMA PoolParts ==
    ASSUME PoolIInv
    PROVE  /\ Ground /\ TypeOK /\ CopyInv /\ EarlyInv /\ PoolTypes /\ PoolCopies
           /\ MemberInv /\ RevertInv /\ HoldInv /\ FreeInv /\ ClearedInv /\ RollInv
           /\ NamesInv /\ FillIds /\ FillReverted /\ FillCleared /\ pooled \subseteq Leases
BY PoolTyped DEF PoolIInv, Ground

Ends(k) == /\ child[k].pc \in {"claimed", "posted"} /\ child'[k].pc = "failed"
           /\ child'[k].vmid = child[k].vmid

LEMMA QuietDoes ==
    ASSUME PoolIInv, Quiet
    PROVE  /\ \A k \in pooled : Calm(k)
           /\ \A k \in Keys : child'[k] = child[k] \/ Ends(k)
           /\ child' \in [Keys -> Children]
           /\ filler' = filler \/ \A f \in Fillers : filler'[f].pc = "idle"
           /\ filler' \in [Fillers -> Fills]
           /\ UNCHANGED <<member, fills, rollback, dirt>>
<1>0. Ground /\ PoolTypes
  BY PoolParts
<1>1. CASE Elsewhere
  <2>1. UNCHANGED poolVars
    BY <1>1, Zenon DEF Elsewhere, LeaseStep
  <2> QED
    BY <1>0, <1>1, <2>1, CalmElsewhere, PoolTyped DEF poolVars
<1>2. CASE PoolCrash
  BY <1>0, <1>2, PoolCrashDoes, CalmElsewhere DEF Ends
<1> QED
  BY <1>1, <1>2 DEF Quiet

LEMMA ChildStepDoes ==
    ASSUME PoolTypes, NEW k \in Keys, ChildStep(k)
    PROVE  /\ child[k].pc \in {"pending", "claimed", "posted"}
           /\ \E next \in {"claimed", "posted", "failed"} : ChildGoes(k, next)
           /\ child' \in [Keys -> Children]
           /\ rollback' \in [Vmids -> Keys \cup {Nothing}]
           /\ \A v \in Vmids : rollback'[v] = rollback[v]
                               \/ (rollback'[v] = k /\ child[k].vmid = v)
           /\ UNCHANGED <<vars, member, fills, filler, dirt>>
<1>1. CASE ChildClaim(k)
  BY <1>1, ChildClaimDoes, PoolTyped
<1>2. CASE ChildPost(k)
  BY <1>2, ChildPostDoes, PoolTyped
<1>3. CASE ChildErrs(k)
  BY <1>3, ChildErrsDoes, PoolTyped
<1> QED
  BY <1>1, <1>2, <1>3 DEF ChildStep

\* An operation stays about its guest, and one that succeeded has.
Lasting(k) ==
    child[k].pc # "none" =>
        /\ child'[k].pc # "none" /\ child'[k].vmid = child[k].vmid
        /\ child[k].pc = "succeeded" => child'[k].pc = "succeeded"

LEMMA ChildrenLast ==
    ASSUME PoolIInv, PoolNext, NEW j \in Keys
    PROVE  Lasting(j)
<1>0. /\ Ground /\ TypeOK /\ CopyInv /\ EarlyInv /\ PoolTypes /\ PoolCopies
      /\ MemberInv /\ RevertInv /\ HoldInv /\ FreeInv /\ ClearedInv /\ RollInv
      /\ NamesInv /\ FillIds /\ FillReverted /\ FillCleared
      /\ pooled \subseteq Leases /\ pooled' = pooled
  BY PoolParts, PoolCases
<1>1. CASE Quiet
  BY <1>0, <1>1, QuietDoes DEF Ends, Lasting
<1>2. ASSUME NEW l \in pooled, PoolBegin(l)
      PROVE  Lasting(j)
  BY <1>0, <1>2, PoolBeginDoes DEF poolVars, Lasting
<1>3. ASSUME NEW l \in pooled, Claim(l)
      PROVE  Lasting(j)
  BY <1>0, <1>3, ClaimDoes DEF Lasting
<1>4. ASSUME NEW l \in pooled, PoolStart(l)
      PROVE  Lasting(j)
  BY <1>0, <1>4, PoolStartDoes DEF Lasting
<1>5. ASSUME NEW l \in pooled, PoolWait(l)
      PROVE  Lasting(j)
  BY <1>0, <1>5, PoolWaitDoes DEF poolVars, Lasting
<1>6. ASSUME NEW l \in pooled, NEW a \in Attempts, PoolCleanStart(l, a)
      PROVE  Lasting(j)
  BY <1>0, <1>6, PoolCleanStartDoes DEF poolVars, Lasting
<1>7. ASSUME NEW l \in pooled, NEW a \in Attempts, PoolPlan(l, a)
      PROVE  Lasting(j)
  BY <1>0, <1>7, PoolPlanDoes DEF poolVars, Lasting
<1>8. ASSUME NEW l \in pooled, NEW a \in Attempts, PoolRevert(l, a)
      PROVE  Lasting(j)
  BY <1>0, <1>8, PoolRevertDoes DEF AskedFor, Lasting
<1>9. ASSUME NEW l \in pooled, NEW a \in Attempts, PoolQuarantine(l, a)
      PROVE  Lasting(j)
  BY <1>0, <1>9, PoolQuarantineDoes DEF Lasting
<1>10. ASSUME NEW l \in pooled, NEW a \in Attempts, PoolRelease(l, a)
      PROVE  Lasting(j)
  BY <1>0, <1>10, PoolReleaseDoes DEF Lasting
<1>11. ASSUME NEW key \in Keys, ChildStep(key)
      PROVE  Lasting(j)
  BY <1>0, <1>11, ChildStepDoes DEF ChildGoes, Kept, Lasting
<1>12. ASSUME NEW v \in Vmids, RollbackEnds(v)
      PROVE  Lasting(j)
  BY <1>0, <1>12, RollbackEndsDoes DEF ChildGoes, Kept, Lasting
<1>13. ASSUME NEW f \in Fillers, FillRevert(f)
      PROVE  Lasting(j)
  BY <1>0, <1>13, FillRevertDoes DEF AskedFor, Lasting
<1>14. ASSUME NEW f \in Fillers, FillFinish(f)
      PROVE  Lasting(j)
  BY <1>0, <1>14, FillFinishDoes DEF Lasting
<1>15. ASSUME NEW v \in Vmids, FillRequest(v)
      PROVE  Lasting(j)
  BY <1>0, <1>15, FillRequestDoes DEF Lasting
<1>16. ASSUME NEW v \in Vmids, Drain(v)
      PROVE  Lasting(j)
  BY <1>0, <1>16, DrainDoes DEF Lasting
<1>17. ASSUME NEW f \in Fillers, NEW v \in Vmids, FillStart(f, v)
      PROVE  Lasting(j)
  BY <1>0, <1>17, FillStartDoes DEF Lasting
<1> QED
  BY <1>1, <1>2, <1>3, <1>4, <1>5, <1>6, <1>7, <1>8, <1>9, <1>10, <1>11, <1>12,
     <1>13, <1>14, <1>15, <1>16, <1>17, PoolCases

\* The pool keeps its types.
LEMMA PoolTypesStep ==
    ASSUME PoolIInv, PoolNext
    PROVE  PoolTypes'
<1>0. /\ Ground /\ TypeOK /\ CopyInv /\ EarlyInv /\ PoolTypes /\ PoolCopies
      /\ MemberInv /\ RevertInv /\ HoldInv /\ FreeInv /\ ClearedInv /\ RollInv
      /\ NamesInv /\ FillIds /\ FillReverted /\ FillCleared
      /\ pooled \subseteq Leases /\ pooled' = pooled
  BY PoolParts, PoolCases
<1>1. PoolTypes' <=> /\ member' \in [Vmids -> Members] /\ fills' \in 0 .. MaxFills
                     /\ child' \in [Keys -> Children]
                     /\ rollback' \in [Vmids -> Keys \cup {Nothing}]
                     /\ filler' \in [Fillers -> Fills]
                     /\ dirt' \in [Vmids -> SUBSET {"used", "stray"}]
  BY <1>0 DEF PoolTypes
<1>2. CASE Quiet
  BY <1>0, <1>1, <1>2, QuietDoes, PoolTyped
<1>3. ASSUME NEW l \in pooled, PoolBegin(l)
      PROVE  PoolTypes'
  BY <1>0, <1>1, <1>3, PoolBeginDoes, PoolTyped DEF poolVars
<1>4. ASSUME NEW l \in pooled, Claim(l)
      PROVE  PoolTypes'
  <2>1. member' \in [Vmids -> Members]
    <3>1. \A v \in Vmids : [member[v] EXCEPT !.state = "leased", !.lease = l] \in Members
      <4>1. \A m \in Members : [m EXCEPT !.state = "leased", !.lease = l] \in Members
        BY <1>0 DEF Members
      <4> QED
        BY <1>0, <4>1, PoolTyped
    <3>2. \/ member' = member
          \/ \E v \in Vmids :
                 member' = [member EXCEPT ![v] =
                               [member[v] EXCEPT !.state = "leased", !.lease = l]]
      BY <1>0, <1>4, PoolTyped DEF Claim
    <3> QED
      BY <1>0, <3>1, <3>2, PoolTyped
  <2> QED
    BY <1>0, <1>1, <1>4, <2>1, ClaimDoes, PoolTyped
<1>5. ASSUME NEW l \in pooled, PoolStart(l)
      PROVE  PoolTypes'
  BY <1>0, <1>1, <1>5, PoolStartDoes, PoolTyped
<1>6. ASSUME NEW l \in pooled, PoolWait(l)
      PROVE  PoolTypes'
  BY <1>0, <1>1, <1>6, PoolWaitDoes, PoolTyped DEF poolVars
<1>7. ASSUME NEW l \in pooled, NEW a \in Attempts, PoolCleanStart(l, a)
      PROVE  PoolTypes'
  BY <1>0, <1>1, <1>7, PoolCleanStartDoes, PoolTyped DEF poolVars
<1>8. ASSUME NEW l \in pooled, NEW a \in Attempts, PoolPlan(l, a)
      PROVE  PoolTypes'
  BY <1>0, <1>1, <1>8, PoolPlanDoes, PoolTyped DEF poolVars
<1>9. ASSUME NEW l \in pooled, NEW a \in Attempts, PoolRevert(l, a)
      PROVE  PoolTypes'
  <2>1. l \in Leases /\ TypeOK /\ PoolTypes
    BY <1>0
  <2>2. child' \in [Keys -> Children] /\ UNCHANGED <<member, fills, rollback, filler, dirt>>
    BY <1>9, <2>1, PoolRevertDoes
  <2> QED
    BY <1>0, <2>1, <2>2, <1>1, PoolTyped
<1>10. ASSUME NEW l \in pooled, NEW a \in Attempts, PoolQuarantine(l, a)
      PROVE  PoolTypes'
  BY <1>0, <1>1, <1>10, PoolQuarantineDoes, PoolTyped
<1>11. ASSUME NEW l \in pooled, NEW a \in Attempts, PoolRelease(l, a)
      PROVE  PoolTypes'
  BY <1>0, <1>1, <1>11, PoolReleaseDoes, PoolTyped
<1>12. ASSUME NEW key \in Keys, ChildStep(key)
      PROVE  PoolTypes'
  BY <1>0, <1>1, <1>12, ChildStepDoes, PoolTyped
<1>13. ASSUME NEW v \in Vmids, RollbackEnds(v)
      PROVE  PoolTypes'
  BY <1>0, <1>1, <1>13, RollbackEndsDoes, PoolTyped
<1>14. ASSUME NEW f \in Fillers, FillRevert(f)
      PROVE  PoolTypes'
  BY <1>0, <1>1, <1>14, FillRevertDoes, PoolTyped
<1>15. ASSUME NEW f \in Fillers, FillFinish(f)
      PROVE  PoolTypes'
  BY <1>0, <1>1, <1>15, FillFinishDoes, PoolTyped
<1>16. ASSUME NEW v \in Vmids, FillRequest(v)
      PROVE  PoolTypes'
  BY <1>0, <1>1, <1>16, FillRequestDoes, PoolTyped
<1>17. ASSUME NEW v \in Vmids, Drain(v)
      PROVE  PoolTypes'
  BY <1>0, <1>1, <1>17, DrainDoes, PoolTyped
<1>18. ASSUME NEW f \in Fillers, NEW v \in Vmids, FillStart(f, v)
      PROVE  PoolTypes'
  BY <1>0, <1>1, <1>18, FillStartDoes, PoolTyped
<1> QED
  BY <1>2, <1>3, <1>4, <1>5, <1>6, <1>7, <1>8, <1>9, <1>10, <1>11, <1>12, <1>13,
     <1>14, <1>15, <1>16, <1>17, <1>18, PoolCases

\* A revert moves its own cleanup alone, which keeps its copy.
LEMMA PoolRevertMoves ==
    ASSUME TypeOK, PoolTypes, NEW l \in Leases, NEW a \in Attempts, PoolRevert(l, a)
    PROVE  /\ cleaner[l][a].pc \in PoolPlaces /\ cleaner'[l][a].row = cleaner[l][a].row
           /\ Same(l, cleaner, cleaner')
           /\ \A b \in Attempts : b # a => cleaner'[l][b] = cleaner[l][b]
BY PoolRevertDoes DEF PoolPlaces

\* The cleanup of a pooled lease keeps the copy it writes.
LEMMA PoolCopiesStep ==
    ASSUME PoolIInv, PoolNext
    PROVE  PoolCopies'
<1>0. /\ Ground /\ TypeOK /\ CopyInv /\ EarlyInv /\ PoolTypes /\ PoolCopies
      /\ MemberInv /\ RevertInv /\ HoldInv /\ FreeInv /\ ClearedInv /\ RollInv
      /\ NamesInv /\ FillIds /\ FillReverted /\ FillCleared
      /\ pooled \subseteq Leases /\ pooled' = pooled
  BY PoolParts, PoolCases
<1>1. CASE Quiet
  BY <1>0, <1>1, QuietDoes DEF Calm, PoolCopies
<1>2. ASSUME NEW l \in pooled, PoolBegin(l)
      PROVE  PoolCopies'
  BY <1>0, <1>2, PoolBeginDoes DEF vars, PoolCopies
<1>3. ASSUME NEW l \in pooled, Claim(l)
      PROVE  PoolCopies'
  BY <1>0, <1>3, ClaimDoes DEF vars, PoolCopies
<1>4. ASSUME NEW l \in pooled, PoolStart(l)
      PROVE  PoolCopies'
  BY <1>0, <1>4, PoolStartDoes DEF vars, PoolCopies
<1>5. ASSUME NEW l \in pooled, PoolWait(l)
      PROVE  PoolCopies'
  BY <1>0, <1>5, PoolWaitDoes DEF vars, PoolCopies
<1>6. ASSUME NEW l \in pooled, NEW a \in Attempts, PoolCleanStart(l, a)
      PROVE  PoolCopies'
  BY <1>0, <1>6, PoolCleanStartDoes, RowTypes DEF CleanerGoes, Same, PoolPlaces,
     PoolCopies
<1>7. ASSUME NEW l \in pooled, NEW a \in Attempts, PoolPlan(l, a)
      PROVE  PoolCopies'
  BY <1>0, <1>7, PoolPlanDoes DEF CleanerGoes, Same, PoolPlaces, PoolCopies
<1>8. ASSUME NEW l \in pooled, NEW a \in Attempts, PoolRevert(l, a)
      PROVE  PoolCopies'
  <2>1. l \in Leases /\ TypeOK /\ PoolTypes
    BY <1>0
  <2>2. /\ cleaner[l][a].pc \in PoolPlaces /\ cleaner'[l][a].row = cleaner[l][a].row
        /\ Same(l, cleaner, cleaner')
        /\ \A b \in Attempts : b # a => cleaner'[l][b] = cleaner[l][b]
    BY <1>8, <2>1, PoolRevertMoves
  <2> QED
    BY <1>0, <2>1, <2>2 DEF Same, PoolCopies
<1>9. ASSUME NEW l \in pooled, NEW a \in Attempts, PoolQuarantine(l, a)
      PROVE  PoolCopies'
  BY <1>0, <1>9, PoolQuarantineDoes DEF CleanerGoes, Same, PoolPlaces, PoolCopies
<1>10. ASSUME NEW l \in pooled, NEW a \in Attempts, PoolRelease(l, a)
      PROVE  PoolCopies'
  <2>1. l \in Leases /\ TypeOK /\ PoolTypes
    BY <1>0
  <2>2. /\ Same(l, cleaner, cleaner') /\ cleaner'[l][a].pc \in {"done", "fail"}
        /\ \A b \in Attempts : b # a => cleaner'[l][b] = cleaner[l][b]
    BY <1>10, <2>1, PoolReleaseDoes DEF CleanerGoes
  <2> QED
    BY <1>0, <2>2 DEF Same, PoolPlaces, PoolCopies
<1>11. ASSUME NEW key \in Keys, ChildStep(key)
      PROVE  PoolCopies'
  BY <1>0, <1>11, ChildStepDoes DEF vars, PoolCopies
<1>12. ASSUME NEW v \in Vmids, RollbackEnds(v)
      PROVE  PoolCopies'
  BY <1>0, <1>12, RollbackEndsDoes DEF vars, PoolCopies
<1>13. ASSUME NEW f \in Fillers, FillRevert(f)
      PROVE  PoolCopies'
  BY <1>0, <1>13, FillRevertDoes DEF vars, PoolCopies
<1>14. ASSUME NEW f \in Fillers, FillFinish(f)
      PROVE  PoolCopies'
  BY <1>0, <1>14, FillFinishDoes DEF vars, PoolCopies
<1>15. ASSUME NEW v \in Vmids, FillRequest(v)
      PROVE  PoolCopies'
  BY <1>0, <1>15, FillRequestDoes DEF vars, PoolCopies
<1>16. ASSUME NEW v \in Vmids, Drain(v)
      PROVE  PoolCopies'
  BY <1>0, <1>16, DrainDoes DEF vars, PoolCopies
<1>17. ASSUME NEW f \in Fillers, NEW v \in Vmids, FillStart(f, v)
      PROVE  PoolCopies'
  BY <1>0, <1>17, FillStartDoes DEF vars, PoolCopies
<1> QED
  BY <1>1, <1>2, <1>3, <1>4, <1>5, <1>6, <1>7, <1>8, <1>9, <1>10, <1>11, <1>12,
     <1>13, <1>14, <1>15, <1>16, <1>17, PoolCases

\* A member and the record of its lease name each other.
LEMMA MemberStep ==
    ASSUME PoolIInv, PoolNext
    PROVE  MemberInv'
<1>0. /\ Ground /\ TypeOK /\ CopyInv /\ EarlyInv /\ PoolTypes /\ PoolCopies
      /\ MemberInv /\ RevertInv /\ HoldInv /\ FreeInv /\ ClearedInv /\ RollInv
      /\ NamesInv /\ FillIds /\ FillReverted /\ FillCleared
      /\ pooled \subseteq Leases /\ pooled' = pooled
  BY PoolParts, PoolCases
<1>1. CASE Quiet
  BY <1>0, <1>1, QuietDoes, Apart DEF Calm, MemberInv
<1>2. ASSUME NEW l \in pooled, PoolBegin(l)
      PROVE  MemberInv'
  BY <1>0, <1>2, PoolBeginDoes DEF poolVars, MemberInv
<1>3. ASSUME NEW l \in pooled, Claim(l)
      PROVE  MemberInv'
  BY <1>0, <1>3, ClaimDoes, Apart, PoolTyped DEF MemberGoes, Kept, RecordGets,
     Same, MemberInv
<1>4. ASSUME NEW l \in pooled, PoolStart(l)
      PROVE  MemberInv'
  BY <1>0, <1>4, PoolStartDoes DEF vars, MemberInv
<1>5. ASSUME NEW l \in pooled, PoolWait(l)
      PROVE  MemberInv'
  BY <1>0, <1>5, PoolWaitDoes DEF poolVars, MemberInv
<1>6. ASSUME NEW l \in pooled, NEW a \in Attempts, PoolCleanStart(l, a)
      PROVE  MemberInv'
  BY <1>0, <1>6, PoolCleanStartDoes DEF poolVars, MemberInv
<1>7. ASSUME NEW l \in pooled, NEW a \in Attempts, PoolPlan(l, a)
      PROVE  MemberInv'
  BY <1>0, <1>7, PoolPlanDoes DEF poolVars, MemberInv
<1>8. ASSUME NEW l \in pooled, NEW a \in Attempts, PoolRevert(l, a)
      PROVE  MemberInv'
  <2>1. UNCHANGED <<member, record>>
    BY <1>0, <1>8, PoolRevertDoes
  <2> QED
    BY <1>0, <2>1 DEF MemberInv
<1>9. ASSUME NEW l \in pooled, NEW a \in Attempts, PoolQuarantine(l, a)
      PROVE  MemberInv'
  BY <1>0, <1>9, PoolQuarantineDoes DEF vars, MemberInv
<1>10. ASSUME NEW l \in pooled, NEW a \in Attempts, PoolRelease(l, a)
      PROVE  MemberInv'
  BY <1>0, <1>10, PoolReleaseDoes, Apart, PoolTyped DEF MemberInv
<1>11. ASSUME NEW key \in Keys, ChildStep(key)
      PROVE  MemberInv'
  BY <1>0, <1>11, ChildStepDoes DEF vars, MemberInv
<1>12. ASSUME NEW v \in Vmids, RollbackEnds(v)
      PROVE  MemberInv'
  BY <1>0, <1>12, RollbackEndsDoes DEF vars, MemberInv
<1>13. ASSUME NEW f \in Fillers, FillRevert(f)
      PROVE  MemberInv'
  BY <1>0, <1>13, FillRevertDoes DEF vars, MemberInv
<1>14. ASSUME NEW f \in Fillers, FillFinish(f)
      PROVE  MemberInv'
  BY <1>0, <1>14, FillFinishDoes, Apart DEF vars, MemberInv
<1>15. ASSUME NEW v \in Vmids, FillRequest(v)
      PROVE  MemberInv'
  BY <1>0, <1>15, FillRequestDoes, Apart DEF vars, Kept, MemberInv
<1>16. ASSUME NEW v \in Vmids, Drain(v)
      PROVE  MemberInv'
  BY <1>0, <1>16, DrainDoes DEF vars, MemberInv
<1>17. ASSUME NEW f \in Fillers, NEW v \in Vmids, FillStart(f, v)
      PROVE  MemberInv'
  BY <1>0, <1>17, FillStartDoes DEF vars, MemberInv
<1> QED
  BY <1>1, <1>2, <1>3, <1>4, <1>5, <1>6, <1>7, <1>8, <1>9, <1>10, <1>11, <1>12,
     <1>13, <1>14, <1>15, <1>16, <1>17, PoolCases

\* A cleanup reverts the guest its record names, and goes on when that was done.
LEMMA RevertStep ==
    ASSUME PoolIInv, PoolNext, NEW k \in pooled, NEW b \in Attempts
    PROVE  RevertAt(k, b)'
<1>0. /\ Ground /\ TypeOK /\ CopyInv /\ EarlyInv /\ PoolTypes /\ PoolCopies
      /\ MemberInv /\ RevertInv /\ HoldInv /\ FreeInv /\ ClearedInv /\ RollInv
      /\ NamesInv /\ FillIds /\ FillReverted /\ FillCleared
      /\ pooled \subseteq Leases /\ pooled' = pooled
  BY PoolParts, PoolCases
<1>1. k \in Leases /\ <<k, b>> \in Keys /\ RevertAt(k, b)
  BY <1>0, KeyFacts DEF RevertInv
<1>2. CASE Quiet
  BY <1>0, <1>1, <1>2, QuietDoes DEF Calm, Ends, Reverts, PoolPlaces, RevertAt
<1>3. ASSUME NEW l \in pooled, PoolBegin(l)
      PROVE  RevertAt(k, b)'
  BY <1>0, <1>1, <1>3, PoolBeginDoes DEF poolVars, RevertAt
<1>4. ASSUME NEW l \in pooled, Claim(l)
      PROVE  RevertAt(k, b)'
  BY <1>0, <1>1, <1>4, ClaimDoes, Apart, RecordTypes DEF RecordGets, Same,
     Reverts, RevertAt
<1>5. ASSUME NEW l \in pooled, PoolStart(l)
      PROVE  RevertAt(k, b)'
  BY <1>0, <1>1, <1>5, PoolStartDoes DEF vars, RevertAt
<1>6. ASSUME NEW l \in pooled, PoolWait(l)
      PROVE  RevertAt(k, b)'
  BY <1>0, <1>1, <1>6, PoolWaitDoes DEF poolVars, RevertAt
<1>7. ASSUME NEW l \in pooled, NEW a \in Attempts, PoolCleanStart(l, a)
      PROVE  RevertAt(k, b)'
  BY <1>0, <1>1, <1>7, PoolCleanStartDoes DEF CleanerGoes, Same, Reverts,
     poolVars, RevertAt
<1>8. ASSUME NEW l \in pooled, NEW a \in Attempts, PoolPlan(l, a)
      PROVE  RevertAt(k, b)'
  <2>1. l \in Leases /\ TypeOK /\ PoolTypes
    BY <1>0
  <2>2. PICK next \in {"keep", "release", "observe", "not_pooled", "fail"} :
           /\ CleanerGoes(l, a, "plan", next) /\ (next = "observe" => ~Unbound(l))
           /\ UNCHANGED <<child, record>>
    BY <1>8, <2>1, PoolPlanDoes DEF poolVars
  <2>3. CASE k = l /\ b = a
    BY <1>0, <1>1, <2>1, <2>2, <2>3, Apart DEF RevertAt, Reverts, CleanerGoes, Unbound, MemberInv
  <2>4. CASE k # l \/ b # a
    BY <1>1, <2>2, <2>4 DEF Same, RevertAt, CleanerGoes
  <2> QED
    BY <2>3, <2>4
<1>9. ASSUME NEW l \in pooled, NEW a \in Attempts, PoolRevert(l, a)
      PROVE  RevertAt(k, b)'
  <2>1. l \in Leases /\ TypeOK /\ PoolTypes /\ RevertAt(l, a)
    BY <1>0 DEF RevertInv
  <2>2. /\ cleaner[l][a].pc \in {"observe", "child", "wait", "verify"}
        /\ cleaner'[l][a].pc \in {"child", "wait", "verify", "refused", "reverted", "fail"}
        /\ cleaner'[l][a].pc = "verify" => /\ cleaner[l][a].pc = "wait"
                                           /\ child[<<l, a>>].pc = "succeeded"
        /\ cleaner'[l][a].pc = "reverted" => cleaner[l][a].pc = "verify"
        /\ Same(l, cleaner, cleaner')
        /\ \A c \in Attempts : c # a => cleaner'[l][c] = cleaner[l][c]
        /\ AskedFor(cleaner[l][a].pc, <<l, a>>, record[l].vmid)
        /\ record' = record
    BY <1>9, <2>1, PoolRevertDoes
  <2>3. CASE k = l /\ b = a
    BY <1>1, <2>1, <2>2, <2>3 DEF RevertAt, AskedFor, Reverts
  <2>4. CASE k # l \/ b # a
    <3>1. cleaner'[k][b] = cleaner[k][b] /\ <<k, b>> # <<l, a>>
      BY <1>1, <2>2, <2>4 DEF Same
    <3> QED
      BY <1>1, <2>2, <3>1 DEF RevertAt, AskedFor
  <2> QED
    BY <2>3, <2>4
<1>10. ASSUME NEW l \in pooled, NEW a \in Attempts, PoolQuarantine(l, a)
      PROVE  RevertAt(k, b)'
  BY <1>0, <1>1, <1>10, PoolQuarantineDoes DEF CleanerGoes, Same, Reverts,
     RevertAt
<1>11. ASSUME NEW l \in pooled, NEW a \in Attempts, PoolRelease(l, a)
      PROVE  RevertAt(k, b)'
  <2>1. l \in Leases /\ TypeOK /\ PoolTypes
    BY <1>0
  <2>2. /\ UNCHANGED <<child, record>> /\ cleaner'[l][a].pc \in {"done", "fail"}
        /\ cleaner[l][a].pc \in {"keep", "reverted"}
        /\ Same(l, cleaner, cleaner')
        /\ \A c \in Attempts : c # a => cleaner'[l][c] = cleaner[l][c]
    BY <1>11, <2>1, PoolReleaseDoes DEF CleanerGoes
  <2>3. CASE k = l /\ b = a
    BY <1>0, <1>1, <2>1, <2>2, <2>3 DEF RevertAt, Reverts
  <2>4. CASE k # l \/ b # a
    BY <1>1, <2>2, <2>4 DEF Same, RevertAt, Reverts
  <2> QED
    BY <2>3, <2>4
<1>12. ASSUME NEW key \in Keys, ChildStep(key)
      PROVE  RevertAt(k, b)'
  BY <1>0, <1>1, <1>12, ChildStepDoes DEF ChildGoes, Kept, vars, RevertAt
<1>13. ASSUME NEW v \in Vmids, RollbackEnds(v)
      PROVE  RevertAt(k, b)'
  BY <1>0, <1>1, <1>13, RollbackEndsDoes DEF ChildGoes, Kept, vars, RevertAt
<1>14. ASSUME NEW f \in Fillers, FillRevert(f)
      PROVE  RevertAt(k, b)'
  <2>1. FillIds /\ PoolTypes
    BY <1>0
  <2>2. /\ filler[f].id \in 1 .. MaxFills /\ UNCHANGED <<cleaner, record>>
        /\ AskedFor(filler[f].pc, <<"fill", filler[f].id>>, filler[f].vmid)
    BY <1>14, <2>1, FillRevertDoes DEF vars
  <2>3. child'[<<k, b>>] = child[<<k, b>>]
    BY <1>1, <2>2, KeyFacts DEF AskedFor
  <2> QED
    BY <1>1, <2>2, <2>3 DEF RevertAt
<1>15. ASSUME NEW f \in Fillers, FillFinish(f)
      PROVE  RevertAt(k, b)'
  BY <1>0, <1>1, <1>15, FillFinishDoes DEF vars, RevertAt
<1>16. ASSUME NEW v \in Vmids, FillRequest(v)
      PROVE  RevertAt(k, b)'
  BY <1>0, <1>1, <1>16, FillRequestDoes DEF vars, RevertAt
<1>17. ASSUME NEW v \in Vmids, Drain(v)
      PROVE  RevertAt(k, b)'
  BY <1>0, <1>1, <1>17, DrainDoes DEF vars, RevertAt
<1>18. ASSUME NEW f \in Fillers, NEW v \in Vmids, FillStart(f, v)
      PROVE  RevertAt(k, b)'
  BY <1>0, <1>1, <1>18, FillStartDoes DEF vars, RevertAt
<1> QED
  BY <1>2, <1>3, <1>4, <1>5, <1>6, <1>7, <1>8, <1>9, <1>10, <1>11, <1>12, <1>13,
     <1>14, <1>15, <1>16, <1>17, <1>18, PoolCases

\* A lease holds its member from the claim to the cleanup.
LEMMA HoldStep ==
    ASSUME PoolIInv, PoolNext
    PROVE  HoldInv'
<1>0. /\ Ground /\ TypeOK /\ CopyInv /\ EarlyInv /\ PoolTypes /\ PoolCopies
      /\ MemberInv /\ RevertInv /\ HoldInv /\ FreeInv /\ ClearedInv /\ RollInv
      /\ NamesInv /\ FillIds /\ FillReverted /\ FillCleared
      /\ pooled \subseteq Leases /\ pooled' = pooled
  BY PoolParts, PoolCases
<1> SUFFICES ASSUME NEW k \in pooled, k \notin overtaken', Early(k)',
                    lease'[k].state = "ready" \/ saga'[k].pc \in Holding
             PROVE  Bound(k)'
  BY <1>0 DEF HoldInv
<1>1. /\ k \in Leases /\ Early(k) /\ k \notin overtaken /\ k # Nothing
      /\ \A a \in Attempts : cleaner[k][a].pc = "absent"
      /\ lease[k].state = "ready" \/ saga[k].pc \in Holding => Bound(k)
  <2>1. k \in Leases /\ Early(k)
    BY <1>0, PoolKeeps
  <2> QED
    BY <1>0, <2>1, Apart DEF HoldInv, Early, EarlyInv, Untouched
<1>2. \A v \in Vmids : member[v].lease = k => member[v].state \in {"leased", "quarantined"}
  BY <1>0, <1>1 DEF MemberInv
<1>3. CASE Quiet
  BY <1>0, <1>1, <1>2, <1>3, QuietDoes DEF Calm, Bound
<1>4. ASSUME NEW l \in pooled, PoolBegin(l)
      PROVE  Bound(k)'
  BY <1>0, <1>1, <1>2, <1>4, PoolBeginDoes DEF SagaGoes, Same, Holding, Booted,
     poolVars, Bound
<1>5. ASSUME NEW l \in pooled, Claim(l)
      PROVE  Bound(k)'
  BY <1>0, <1>1, <1>2, <1>5, ClaimDoes, PoolTyped DEF SagaGoes, Same, Holding,
     Booted, MemberGoes, Kept, Bound
<1>6. ASSUME NEW l \in pooled, PoolStart(l)
      PROVE  Bound(k)'
  BY <1>0, <1>1, <1>2, <1>6, PoolStartDoes DEF SagaGoes, Same, Holding, Booted,
     Bound
<1>7. ASSUME NEW l \in pooled, PoolWait(l)
      PROVE  Bound(k)'
  BY <1>0, <1>1, <1>2, <1>7, PoolWaitDoes DEF SagaGoes, Same, Holding, Booted,
     poolVars, Bound
<1>8. ASSUME NEW l \in pooled, NEW a \in Attempts, PoolCleanStart(l, a)
      PROVE  Bound(k)'
  BY <1>0, <1>1, <1>2, <1>8, PoolCleanStartDoes DEF poolVars, Bound
<1>9. ASSUME NEW l \in pooled, NEW a \in Attempts, PoolPlan(l, a)
      PROVE  Bound(k)'
  BY <1>0, <1>1, <1>2, <1>9, PoolPlanDoes DEF poolVars, Bound
<1>10. ASSUME NEW l \in pooled, NEW a \in Attempts, PoolRevert(l, a)
      PROVE  Bound(k)'
  <2>1. l \in Leases /\ TypeOK /\ PoolTypes
    BY <1>0
  <2>2. UNCHANGED <<lease, saga, member>>
    BY <1>10, <2>1, PoolRevertDoes
  <2> QED
    BY <1>0, <2>1, <2>2, <1>1 DEF Bound
<1>11. ASSUME NEW l \in pooled, NEW a \in Attempts, PoolQuarantine(l, a)
      PROVE  Bound(k)'
  BY <1>0, <1>1, <1>2, <1>11, PoolQuarantineDoes DEF CleanerGoes, Bound
<1>12. ASSUME NEW l \in pooled, NEW a \in Attempts, PoolRelease(l, a)
      PROVE  Bound(k)'
  <2>1. l \in Leases /\ TypeOK /\ PoolTypes
    BY <1>0
  <2>2. saga' = saga /\ cleaner[l][a].pc # "absent" /\ (lease' = lease \/ Same(l, lease, lease'))
        /\ \A v \in Vmids : member'[v] = member[v] \/ member[v].lease = l
    BY <1>12, <2>1, PoolReleaseDoes DEF LeaseState
  <2>3. k # l
    BY <1>1, <2>2
  <2> QED
    BY <1>0, <1>1, <2>2, <2>3 DEF Same, Bound
<1>13. ASSUME NEW key \in Keys, ChildStep(key)
      PROVE  Bound(k)'
  BY <1>0, <1>1, <1>2, <1>13, ChildStepDoes DEF vars, Bound
<1>14. ASSUME NEW v \in Vmids, RollbackEnds(v)
      PROVE  Bound(k)'
  BY <1>0, <1>1, <1>2, <1>14, RollbackEndsDoes DEF vars, Bound
<1>15. ASSUME NEW f \in Fillers, FillRevert(f)
      PROVE  Bound(k)'
  BY <1>0, <1>1, <1>2, <1>15, FillRevertDoes DEF vars, Bound
<1>16. ASSUME NEW f \in Fillers, FillFinish(f)
      PROVE  Bound(k)'
  BY <1>0, <1>1, <1>2, <1>16, FillFinishDoes DEF Filling, vars, Bound
<1>17. ASSUME NEW v \in Vmids, FillRequest(v)
      PROVE  Bound(k)'
  BY <1>0, <1>1, <1>2, <1>17, FillRequestDoes DEF Kept, vars, Bound
<1>18. ASSUME NEW v \in Vmids, Drain(v)
      PROVE  Bound(k)'
  BY <1>0, <1>1, <1>2, <1>18, DrainDoes DEF vars, Bound
<1>19. ASSUME NEW f \in Fillers, NEW v \in Vmids, FillStart(f, v)
      PROVE  Bound(k)'
  BY <1>0, <1>1, <1>2, <1>19, FillStartDoes DEF vars, Bound
<1> QED
  BY <1>3, <1>4, <1>5, <1>6, <1>7, <1>8, <1>9, <1>10, <1>11, <1>12, <1>13, <1>14,
     <1>15, <1>16, <1>17, <1>18, <1>19, PoolCases

\* A released lease holds no member.
LEMMA FreeStep ==
    ASSUME PoolIInv, PoolNext
    PROVE  FreeInv'
<1>0. /\ Ground /\ TypeOK /\ CopyInv /\ EarlyInv /\ PoolTypes /\ PoolCopies
      /\ MemberInv /\ RevertInv /\ HoldInv /\ FreeInv /\ ClearedInv /\ RollInv
      /\ NamesInv /\ FillIds /\ FillReverted /\ FillCleared
      /\ pooled \subseteq Leases /\ pooled' = pooled
  BY PoolParts, PoolCases
<1> SUFFICES ASSUME NEW k \in pooled, k \notin overtaken',
                    \/ lease'[k].state = "released"
                    \/ \E b \in Attempts : cleaner'[k][b].pc = "release"
             PROVE  Unbound(k)'
  BY <1>0 DEF FreeInv
<1>1. /\ k \in Leases /\ k # Nothing
      /\ k \notin overtaken =>
           ((\/ lease[k].state = "released"
             \/ \E b \in Attempts : cleaner[k][b].pc = "release") => Unbound(k))
      /\ Early(k) => \A b \in Attempts : cleaner[k][b].pc = "absent"
  BY <1>0, Apart DEF FreeInv, EarlyInv, Untouched
<1>2. CASE Quiet
  BY <1>0, <1>1, <1>2, QuietDoes DEF Calm, Unbound
<1>3. ASSUME NEW l \in pooled, PoolBegin(l)
      PROVE  Unbound(k)'
  BY <1>0, <1>1, <1>3, PoolBeginDoes DEF poolVars, Unbound
<1>4. ASSUME NEW l \in pooled, Claim(l)
      PROVE  Unbound(k)'
  BY <1>0, <1>1, <1>4, ClaimDoes DEF MemberGoes, Kept, Early, InSaga, Unbound
<1>5. ASSUME NEW l \in pooled, PoolStart(l)
      PROVE  Unbound(k)'
  BY <1>0, <1>1, <1>5, PoolStartDoes DEF vars, Unbound
<1>6. ASSUME NEW l \in pooled, PoolWait(l)
      PROVE  Unbound(k)'
  BY <1>0, <1>1, <1>6, PoolWaitDoes DEF poolVars, Unbound
<1>7. ASSUME NEW l \in pooled, NEW a \in Attempts, PoolCleanStart(l, a)
      PROVE  Unbound(k)'
  BY <1>0, <1>1, <1>7, PoolCleanStartDoes DEF CleanerGoes, Same, poolVars, Unbound
<1>8. ASSUME NEW l \in pooled, NEW a \in Attempts, PoolPlan(l, a)
      PROVE  Unbound(k)'
  BY <1>0, <1>1, <1>8, PoolPlanDoes DEF CleanerGoes, Same, poolVars, Unbound
<1>9. ASSUME NEW l \in pooled, NEW a \in Attempts, PoolRevert(l, a)
      PROVE  Unbound(k)'
  <2>1. l \in Leases /\ TypeOK /\ PoolTypes
    BY <1>0
  <2>2. UNCHANGED <<lease, overtaken, member>>
    BY <1>9, <2>1, PoolRevertDoes
  <2>3. cleaner'[l][a].pc # "release"
    BY <1>9, <2>1, PoolRevertDoes
  <2>4. /\ Same(l, cleaner, cleaner')
        /\ \A b \in Attempts : b # a => cleaner'[l][b] = cleaner[l][b]
    BY <1>9, <2>1, PoolRevertMoves
  <2>5. \A c \in Attempts : cleaner'[k][c].pc = "release" => cleaner[k][c].pc = "release"
    BY <1>1, <2>3, <2>4 DEF Same
  <2> QED
    BY <1>1, <2>2, <2>5 DEF Unbound
<1>10. ASSUME NEW l \in pooled, NEW a \in Attempts, PoolQuarantine(l, a)
      PROVE  Unbound(k)'
  BY <1>0, <1>1, <1>10, PoolQuarantineDoes DEF CleanerGoes, Same, Unbound
<1>11. ASSUME NEW l \in pooled, NEW a \in Attempts, PoolRelease(l, a)
      PROVE  Unbound(k)'
  <2>1. l \in Leases /\ TypeOK /\ PoolTypes
    BY <1>0
  <2>2. /\ overtaken' = overtaken /\ cleaner'[l][a].pc \in {"done", "fail"}
        /\ Same(l, cleaner, cleaner')
        /\ \A c \in Attempts : c # a => cleaner'[l][c] = cleaner[l][c]
        /\ \A v \in Vmids : member'[v].lease \in {member[v].lease, Nothing}
        /\ \/ lease' = lease
           \/ Same(l, lease, lease') /\ \A v \in Vmids : member'[v].lease # l
    BY <1>11, <2>1, Apart, PoolReleaseDoes DEF LeaseState, CleanerGoes
  <2>3. \A c \in Attempts : cleaner'[k][c].pc = "release" => cleaner[k][c].pc = "release"
    BY <1>1, <2>2 DEF Same
  <2> QED
    BY <1>1, <2>2, <2>3 DEF Same, Unbound
<1>12. ASSUME NEW key \in Keys, ChildStep(key)
      PROVE  Unbound(k)'
  BY <1>0, <1>1, <1>12, ChildStepDoes DEF vars, Unbound
<1>13. ASSUME NEW v \in Vmids, RollbackEnds(v)
      PROVE  Unbound(k)'
  BY <1>0, <1>1, <1>13, RollbackEndsDoes DEF vars, Unbound
<1>14. ASSUME NEW f \in Fillers, FillRevert(f)
      PROVE  Unbound(k)'
  BY <1>0, <1>1, <1>14, FillRevertDoes DEF vars, Unbound
<1>15. ASSUME NEW f \in Fillers, FillFinish(f)
      PROVE  Unbound(k)'
  BY <1>0, <1>1, <1>15, FillFinishDoes DEF Filling, vars, Unbound
<1>16. ASSUME NEW v \in Vmids, FillRequest(v)
      PROVE  Unbound(k)'
  BY <1>0, <1>1, <1>16, FillRequestDoes DEF Kept, vars, Unbound
<1>17. ASSUME NEW v \in Vmids, Drain(v)
      PROVE  Unbound(k)'
  BY <1>0, <1>1, <1>17, DrainDoes DEF vars, Unbound
<1>18. ASSUME NEW f \in Fillers, NEW v \in Vmids, FillStart(f, v)
      PROVE  Unbound(k)'
  BY <1>0, <1>1, <1>18, FillStartDoes DEF vars, Unbound
<1> QED
  BY <1>2, <1>3, <1>4, <1>5, <1>6, <1>7, <1>8, <1>9, <1>10, <1>11, <1>12, <1>13,
     <1>14, <1>15, <1>16, <1>17, <1>18, PoolCases

\* A guest that a cleanup rolled back is not used for its lease again.
LEMMA ClearedStep ==
    ASSUME PoolIInv, PoolNext
    PROVE  ClearedInv'
<1>0. /\ Ground /\ TypeOK /\ CopyInv /\ EarlyInv /\ PoolTypes /\ PoolCopies
      /\ MemberInv /\ RevertInv /\ HoldInv /\ FreeInv /\ ClearedInv /\ RollInv
      /\ NamesInv /\ FillIds /\ FillReverted /\ FillCleared
      /\ pooled \subseteq Leases /\ pooled' = pooled
  BY PoolParts, PoolCases
<1> SUFFICES ASSUME NEW k \in pooled, k \notin overtaken', NEW b \in Attempts,
                    NEW w \in Vmids, child'[<<k, b>>].pc = "succeeded",
                    member'[w].lease = k
             PROVE  "used" \notin dirt'[w]
  BY <1>0 DEF ClearedInv, Cleared
<1>1. /\ k \in Leases /\ k # Nothing /\ <<k, b>> \in Keys /\ RevertAt(k, b)
      /\ k \notin overtaken /\ member[w].lease = k /\ child[<<k, b>>].pc = "succeeded"
             => "used" \notin dirt[w]
      /\ member[w].lease = k => record[k].vmid = w
  BY <1>0, Apart, KeyFacts DEF RevertInv, ClearedInv, Cleared, MemberInv
<1>2. CASE Quiet
  BY <1>0, <1>1, <1>2, QuietDoes DEF Calm, Ends
<1>3. ASSUME NEW l \in pooled, PoolBegin(l)
      PROVE  "used" \notin dirt'[w]
  BY <1>0, <1>1, <1>3, PoolBeginDoes DEF poolVars
<1>4. ASSUME NEW l \in pooled, Claim(l)
      PROVE  "used" \notin dirt'[w]
  BY <1>0, <1>1, <1>4, ClaimDoes, Apart, RecordTypes DEF MemberGoes, Kept,
     RevertAt
<1>5. ASSUME NEW l \in pooled, PoolStart(l)
      PROVE  "used" \notin dirt'[w]
  <2>1. CASE "used" \in dirt'[w] /\ "used" \notin dirt[w]
    <3>1. member[w].lease = l /\ lease[l].state \in InSaga \cup {"ready"} /\ l = k
          /\ UNCHANGED <<overtaken, child, member>>
      BY <1>0, <1>1, <1>5, <2>1, PoolStartDoes
    <3>2. Untouched(k)
      BY <1>0, <1>1, <3>1 DEF Early, EarlyInv
    <3> QED
      BY <1>1, <3>1, <3>2 DEF Untouched, RevertAt
  <2> QED
    BY <1>0, <1>1, <1>5, <2>1, PoolStartDoes
<1>6. ASSUME NEW l \in pooled, PoolWait(l)
      PROVE  "used" \notin dirt'[w]
  BY <1>0, <1>1, <1>6, PoolWaitDoes DEF poolVars
<1>7. ASSUME NEW l \in pooled, NEW a \in Attempts, PoolCleanStart(l, a)
      PROVE  "used" \notin dirt'[w]
  BY <1>0, <1>1, <1>7, PoolCleanStartDoes DEF poolVars
<1>8. ASSUME NEW l \in pooled, NEW a \in Attempts, PoolPlan(l, a)
      PROVE  "used" \notin dirt'[w]
  BY <1>0, <1>1, <1>8, PoolPlanDoes DEF poolVars
<1>9. ASSUME NEW l \in pooled, NEW a \in Attempts, PoolRevert(l, a)
      PROVE  "used" \notin dirt'[w]
  <2>1. l \in Leases /\ TypeOK /\ PoolTypes
    BY <1>0
  <2>2. UNCHANGED <<overtaken, member, dirt>> /\ AskedFor(cleaner[l][a].pc, <<l, a>>, record[l].vmid)
    BY <1>9, <2>1, PoolRevertDoes
  <2> QED
    BY <1>0, <2>1, <2>2, <1>1 DEF AskedFor
<1>10. ASSUME NEW l \in pooled, NEW a \in Attempts, PoolQuarantine(l, a)
      PROVE  "used" \notin dirt'[w]
  BY <1>0, <1>1, <1>10, PoolQuarantineDoes DEF vars
<1>11. ASSUME NEW l \in pooled, NEW a \in Attempts, PoolRelease(l, a)
      PROVE  "used" \notin dirt'[w]
  BY <1>0, <1>1, <1>11, PoolReleaseDoes
<1>12. ASSUME NEW key \in Keys, ChildStep(key)
      PROVE  "used" \notin dirt'[w]
  BY <1>0, <1>1, <1>12, ChildStepDoes DEF ChildGoes, Kept, vars
<1>13. ASSUME NEW v \in Vmids, RollbackEnds(v)
      PROVE  "used" \notin dirt'[w]
  <2>1. /\ dirt'[w] \subseteq dirt[w] /\ UNCHANGED <<overtaken, member, record>>
        /\ rollback[v] \in Keys /\ rollback[v] # Nothing
        /\ \/ child' = child
           \/ ChildGoes(rollback[v], "failed")
           \/ ChildGoes(rollback[v], "succeeded") /\ dirt'[v] = {}
              /\ child[rollback[v]].pc = "posted"
    BY <1>0, <1>13, RollbackEndsDoes DEF vars
  <2>2. CASE child[<<k, b>>].pc = "succeeded"
    BY <1>1, <2>1, <2>2
  <2>3. CASE child[<<k, b>>].pc # "succeeded"
    <3>1. rollback[v] = <<k, b>> /\ dirt'[v] = {} /\ child[<<k, b>>].pc = "posted"
      BY <1>1, <2>1, <2>3 DEF ChildGoes, Kept
    <3>2. child[<<k, b>>].vmid = v
      BY <1>0, <2>1, <3>1 DEF RollInv
    <3> QED
      BY <1>1, <2>1, <3>1, <3>2 DEF RevertAt
  <2> QED
    BY <2>2, <2>3
<1>14. ASSUME NEW f \in Fillers, FillRevert(f)
      PROVE  "used" \notin dirt'[w]
  BY <1>0, <1>1, <1>14, FillRevertDoes, KeyFacts DEF AskedFor, vars
<1>15. ASSUME NEW f \in Fillers, FillFinish(f)
      PROVE  "used" \notin dirt'[w]
  BY <1>0, <1>1, <1>15, FillFinishDoes DEF vars
<1>16. ASSUME NEW v \in Vmids, FillRequest(v)
      PROVE  "used" \notin dirt'[w]
  BY <1>0, <1>1, <1>16, FillRequestDoes DEF Kept, vars
<1>17. ASSUME NEW v \in Vmids, Drain(v)
      PROVE  "used" \notin dirt'[w]
  BY <1>0, <1>1, <1>17, DrainDoes DEF vars
<1>18. ASSUME NEW f \in Fillers, NEW v \in Vmids, FillStart(f, v)
      PROVE  "used" \notin dirt'[w]
  BY <1>0, <1>1, <1>18, FillStartDoes DEF vars
<1> QED
  BY <1>2, <1>3, <1>4, <1>5, <1>6, <1>7, <1>8, <1>9, <1>10, <1>11, <1>12, <1>13,
     <1>14, <1>15, <1>16, <1>17, <1>18, PoolCases

\* A task that starts to roll a guest back is of an operation on that guest.
LEMMA RollbackFrom ==
    ASSUME PoolIInv, PoolNext, NEW w \in Vmids, rollback'[w] # Nothing
    PROVE  \/ rollback'[w] = rollback[w]
           \/ \E j \in Keys : rollback'[w] = j /\ child[j].pc # "none" /\ child[j].vmid = w
<1>0. /\ Ground /\ TypeOK /\ CopyInv /\ EarlyInv /\ PoolTypes /\ PoolCopies
      /\ MemberInv /\ RevertInv /\ HoldInv /\ FreeInv /\ ClearedInv /\ RollInv
      /\ NamesInv /\ FillIds /\ FillReverted /\ FillCleared
      /\ pooled \subseteq Leases /\ pooled' = pooled
  BY PoolParts, PoolCases
<1> DEFINE Rolls == rollback'[w] = rollback[w]
              \/ \E j \in Keys : rollback'[w] = j /\ child[j].pc # "none" /\ child[j].vmid = w
<1>1. CASE Quiet
  BY <1>0, <1>1, QuietDoes
<1>2. ASSUME NEW l \in pooled, PoolBegin(l)
      PROVE  Rolls
  BY <1>0, <1>2, PoolBeginDoes DEF poolVars
<1>3. ASSUME NEW l \in pooled, Claim(l)
      PROVE  Rolls
  BY <1>0, <1>3, ClaimDoes
<1>4. ASSUME NEW l \in pooled, PoolStart(l)
      PROVE  Rolls
  BY <1>0, <1>4, PoolStartDoes
<1>5. ASSUME NEW l \in pooled, PoolWait(l)
      PROVE  Rolls
  BY <1>0, <1>5, PoolWaitDoes DEF poolVars
<1>6. ASSUME NEW l \in pooled, NEW a \in Attempts, PoolCleanStart(l, a)
      PROVE  Rolls
  BY <1>0, <1>6, PoolCleanStartDoes DEF poolVars
<1>7. ASSUME NEW l \in pooled, NEW a \in Attempts, PoolPlan(l, a)
      PROVE  Rolls
  BY <1>0, <1>7, PoolPlanDoes DEF poolVars
<1>8. ASSUME NEW l \in pooled, NEW a \in Attempts, PoolRevert(l, a)
      PROVE  Rolls
  <2>1. l \in Leases /\ TypeOK /\ PoolTypes
    BY <1>0
  <2>2. rollback' = rollback
    BY <1>8, <2>1, PoolRevertDoes
  <2> QED
    BY <2>2
<1>9. ASSUME NEW l \in pooled, NEW a \in Attempts, PoolQuarantine(l, a)
      PROVE  Rolls
  BY <1>0, <1>9, PoolQuarantineDoes
<1>10. ASSUME NEW l \in pooled, NEW a \in Attempts, PoolRelease(l, a)
      PROVE  Rolls
  BY <1>0, <1>10, PoolReleaseDoes
<1>11. ASSUME NEW key \in Keys, ChildStep(key)
      PROVE  Rolls
  BY <1>0, <1>11, ChildStepDoes
<1>12. ASSUME NEW v \in Vmids, RollbackEnds(v)
      PROVE  Rolls
  BY <1>0, <1>12, RollbackEndsDoes DEF Kept
<1>13. ASSUME NEW f \in Fillers, FillRevert(f)
      PROVE  Rolls
  <2>1. FillIds /\ PoolTypes
    BY <1>0
  <2>2. rollback' = rollback
    BY <1>13, <2>1, FillRevertDoes
  <2> QED
    BY <2>2
<1>14. ASSUME NEW f \in Fillers, FillFinish(f)
      PROVE  Rolls
  BY <1>0, <1>14, FillFinishDoes
<1>15. ASSUME NEW v \in Vmids, FillRequest(v)
      PROVE  Rolls
  BY <1>0, <1>15, FillRequestDoes
<1>16. ASSUME NEW v \in Vmids, Drain(v)
      PROVE  Rolls
  BY <1>0, <1>16, DrainDoes
<1>17. ASSUME NEW f \in Fillers, NEW v \in Vmids, FillStart(f, v)
      PROVE  Rolls
  BY <1>0, <1>17, FillStartDoes
<1> QED
  BY <1>1, <1>2, <1>3, <1>4, <1>5, <1>6, <1>7, <1>8, <1>9, <1>10, <1>11, <1>12,
     <1>13, <1>14, <1>15, <1>16, <1>17, PoolCases

LEMMA RollStep ==
    ASSUME PoolIInv, PoolNext
    PROVE  RollInv'
<1> SUFFICES ASSUME NEW w \in Vmids, rollback'[w] # Nothing
             PROVE  child'[rollback'[w]].pc # "none" /\ child'[rollback'[w]].vmid = w
  BY DEF RollInv
<1>1. PICK j \in Keys : rollback'[w] = j /\ child[j].pc # "none" /\ child[j].vmid = w
  BY RollbackFrom, PoolParts, PoolTyped DEF RollInv
<1> QED
  BY <1>1, ChildrenLast DEF Lasting

\* Only a registration gives a number to a guest.
NamesKept ==
    /\ fills' = fills
    /\ \A i \in 1 .. MaxFills, w \in Vmids : Names(i, w)' => Names(i, w)

LEMMA NamesMove ==
    ASSUME PoolIInv, PoolNext
    PROVE  NamesKept \/ \E v \in Vmids : FillRequest(v)
<1>0. /\ Ground /\ TypeOK /\ CopyInv /\ EarlyInv /\ PoolTypes /\ PoolCopies
      /\ MemberInv /\ RevertInv /\ HoldInv /\ FreeInv /\ ClearedInv /\ RollInv
      /\ NamesInv /\ FillIds /\ FillReverted /\ FillCleared
      /\ pooled \subseteq Leases /\ pooled' = pooled
  BY PoolParts, PoolCases
<1>1. \A i \in 1 .. MaxFills : <<"fill", i>> \in Keys
  BY KeyFacts
<1>2. ASSUME fills' = fills, UNCHANGED <<child, filler>>,
             \A v \in Vmids : Filling(v)' => Filling(v) /\ member'[v].id = member[v].id
      PROVE  NamesKept
  BY <1>2 DEF NamesKept, Names, Filling
<1>3. ASSUME fills' = fills, UNCHANGED <<member, filler>>,
             \A j \in Keys : child'[j].pc # "none" =>
                 child[j].pc # "none" /\ child'[j].vmid = child[j].vmid
      PROVE  NamesKept
  BY <1>1, <1>3 DEF NamesKept, Names, Filling
<1>4. CASE Quiet
  <2>1. /\ \A j \in Keys : child'[j].pc # "none" =>
               child[j].pc # "none" /\ child'[j].vmid = child[j].vmid
        /\ filler' = filler \/ \A f \in Fillers : filler'[f].pc = "idle"
        /\ UNCHANGED <<member, fills>>
    BY <1>0, <1>4, QuietDoes DEF Ends
  <2> QED
    BY <1>1, <2>1 DEF NamesKept, Names, Filling
<1>5. ASSUME NEW l \in pooled, PoolBegin(l)
      PROVE  NamesKept
  BY <1>0, <1>2, <1>5, PoolBeginDoes DEF poolVars, Filling
<1>6. ASSUME NEW l \in pooled, Claim(l)
      PROVE  NamesKept
  BY <1>0, <1>2, <1>6, ClaimDoes DEF MemberGoes, Kept, Filling
<1>7. ASSUME NEW l \in pooled, PoolStart(l)
      PROVE  NamesKept
  BY <1>0, <1>2, <1>7, PoolStartDoes DEF Filling
<1>8. ASSUME NEW l \in pooled, PoolWait(l)
      PROVE  NamesKept
  BY <1>0, <1>2, <1>8, PoolWaitDoes DEF poolVars, Filling
<1>9. ASSUME NEW l \in pooled, NEW a \in Attempts, PoolCleanStart(l, a)
      PROVE  NamesKept
  BY <1>0, <1>2, <1>9, PoolCleanStartDoes DEF poolVars, Filling
<1>10. ASSUME NEW l \in pooled, NEW a \in Attempts, PoolPlan(l, a)
      PROVE  NamesKept
  BY <1>0, <1>2, <1>10, PoolPlanDoes DEF poolVars, Filling
<1>11. ASSUME NEW l \in pooled, NEW a \in Attempts, PoolRevert(l, a)
      PROVE  NamesKept
  <2>1. l \in Leases /\ TypeOK /\ PoolTypes
    BY <1>0
  <2>2. fills' = fills /\ UNCHANGED <<member, filler>>
    BY <1>11, <2>1, PoolRevertDoes
  <2>3. AskedFor(cleaner[l][a].pc, <<l, a>>, record[l].vmid)
    BY <1>11, <2>1, PoolRevertDoes
  <2>4. \A i \in 1 .. MaxFills : child'[<<"fill", i>>] = child[<<"fill", i>>]
    BY <1>1, <2>1, <2>3, KeyFacts DEF AskedFor
  <2> QED
    BY <2>2, <2>4 DEF NamesKept, Names, Filling
<1>12. ASSUME NEW l \in pooled, NEW a \in Attempts, PoolQuarantine(l, a)
      PROVE  NamesKept
  BY <1>0, <1>2, <1>12, PoolQuarantineDoes DEF Filling
<1>13. ASSUME NEW l \in pooled, NEW a \in Attempts, PoolRelease(l, a)
      PROVE  NamesKept
  BY <1>0, <1>2, <1>13, PoolReleaseDoes DEF Filling
<1>14. ASSUME NEW key \in Keys, ChildStep(key)
      PROVE  NamesKept
  <2>1. \A j \in Keys : child'[j].pc # "none" =>
            child[j].pc # "none" /\ child'[j].vmid = child[j].vmid
    BY <1>0, <1>14, ChildStepDoes DEF ChildGoes, Kept
  <2> QED
    BY <1>0, <1>3, <1>14, <2>1, ChildStepDoes
<1>15. ASSUME NEW v \in Vmids, RollbackEnds(v)
      PROVE  NamesKept
  <2>1. \A j \in Keys : child'[j].pc # "none" =>
            child[j].pc # "none" /\ child'[j].vmid = child[j].vmid
    BY <1>0, <1>15, RollbackEndsDoes DEF ChildGoes, Kept
  <2> QED
    BY <1>0, <1>3, <1>15, <2>1, RollbackEndsDoes
<1>16. ASSUME NEW f \in Fillers, FillRevert(f)
      PROVE  NamesKept
  <2>1. FillIds /\ PoolTypes
    BY <1>0
  <2> DEFINE n == filler[f].id
             x == filler[f].vmid
  <2>2. n \in 1 .. MaxFills /\ x \in Vmids /\ UNCHANGED <<member, fills>>
    BY <1>16, <2>1, FillRevertDoes
  <2>3. filler[f].pc # "idle"
    BY <1>16, <2>1, FillRevertDoes
  <2>4. \A g \in Fillers : filler'[g].pc # "idle" =>
            filler[g].pc # "idle" /\ filler'[g].id = filler[g].id /\ filler'[g].vmid = filler[g].vmid
    BY <1>16, <2>1, FillRevertDoes DEF Kept
  <2>5. AskedFor(filler[f].pc, <<"fill", n>>, x)
    BY <1>16, <2>1, FillRevertDoes
  <2>7. Names(n, x)
    BY <2>3 DEF Names
  <2> HIDE DEF n, x
  <2>6. ASSUME NEW i \in 1 .. MaxFills
        PROVE  \/ child'[<<"fill", i>>] = child[<<"fill", i>>]
               \/ i = n /\ child'[<<"fill", i>>].vmid = x
    <3>1. <<"fill", i>> \in Keys /\ (<<"fill", i>> = <<"fill", n>> => i = n)
      BY <1>1
    <3> QED
      BY <2>5, <3>1 DEF AskedFor
  <2>8. ASSUME NEW i \in 1 .. MaxFills, NEW w \in Vmids, Names(i, w)'
        PROVE  Names(i, w)
    <3>1. CASE Filling(w)' /\ member'[w].id = i
      BY <2>2, <3>1 DEF Names, Filling
    <3>2. CASE \E g \in Fillers : filler'[g].pc # "idle" /\ filler'[g].id = i /\ filler'[g].vmid = w
      BY <2>4, <3>2 DEF Names
    <3>3. CASE child'[<<"fill", i>>].pc # "none" /\ child'[<<"fill", i>>].vmid = w
      BY <2>6, <2>7, <3>3 DEF Names
    <3> QED
      BY <2>8, <3>1, <3>2, <3>3 DEF Names
  <2> QED
    BY <2>2, <2>8 DEF NamesKept
<1>17. ASSUME NEW f \in Fillers, FillFinish(f)
      PROVE  NamesKept
  <2>1. FillIds /\ PoolTypes
    BY <1>0
  <2>2. UNCHANGED <<fills, child>>
    BY <1>17, <2>1, FillFinishDoes
  <2>3. \A w \in Vmids : Filling(w)' => Filling(w) /\ member'[w].id = member[w].id
    BY <1>17, <2>1, FillFinishDoes DEF Filling
  <2>4. \A g \in Fillers : filler'[g].pc # "idle" => filler'[g] = filler[g]
    BY <1>17, <2>1, FillFinishDoes DEF Kept
  <2> QED
    BY <2>2, <2>3, <2>4 DEF NamesKept, Names, Filling
<1>18. ASSUME NEW v \in Vmids, FillRequest(v)
      PROVE  \E u \in Vmids : FillRequest(u)
  BY <1>18
<1>19. ASSUME NEW v \in Vmids, Drain(v)
      PROVE  NamesKept
  BY <1>0, <1>2, <1>19, DrainDoes DEF Filling
<1>20. ASSUME NEW f \in Fillers, NEW v \in Vmids, FillStart(f, v)
      PROVE  NamesKept
  <2>1. UNCHANGED <<fills, child, member>> /\ Filling(v)
    BY <1>0, <1>20, FillStartDoes
  <2>2. /\ filler'[f].vmid = v /\ filler'[f].id = member[v].id
        /\ \A g \in Fillers : g # f => filler'[g] = filler[g]
    BY <1>0, <1>20, FillStartDoes DEF Kept
  <2> QED
    BY <2>1, <2>2 DEF NamesKept, Names, Filling
<1> QED
  BY <1>4, <1>5, <1>6, <1>7, <1>8, <1>9, <1>10, <1>11, <1>12, <1>13, <1>14, <1>15,
     <1>16, <1>17, <1>18, <1>19, <1>20, PoolCases

LEMMA NamesStep ==
    ASSUME PoolIInv, PoolNext
    PROVE  NamesInv'
<1>0. NamesInv /\ FillIds /\ PoolTypes /\ fills \in Nat /\ MaxFills \in Nat
  BY PoolParts, PoolTyped, FillAssumption
<1>1. CASE NamesKept
  BY <1>0, <1>1 DEF NamesKept, NamesInv
<1>2. ASSUME NEW v \in Vmids, FillRequest(v)
      PROVE  NamesInv'
  <2>1. /\ fills' = fills + 1 /\ member'[v].id = fills + 1
        /\ \A w \in Vmids : w # v => member'[w] = member[w]
        /\ UNCHANGED <<child, filler>>
    BY <1>0, <1>2, FillRequestDoes DEF Kept
  <2>2. ASSUME NEW i \in 1 .. MaxFills, NEW w \in Vmids, Names(i, w)'
        PROVE  Names(i, w) \/ (i = fills + 1 /\ w = v)
    BY <2>1, <2>2 DEF Names, Filling
  <2>3. \A i \in 1 .. MaxFills, w \in Vmids : Names(i, w) => i <= fills /\ i # fills + 1
    BY <1>0 DEF NamesInv
  <2>4. \A i \in 1 .. MaxFills : i <= fills => i <= fills + 1
    BY <1>0
  <2>5. \A i \in 1 .. MaxFills : i = fills + 1 => i <= fills + 1
    BY <1>0
  <2>6. ASSUME NEW i \in 1 .. MaxFills, NEW w \in Vmids, Names(i, w)'
        PROVE  i <= fills'
    BY <2>1, <2>2, <2>3, <2>4, <2>5, <2>6
  <2>7. ASSUME NEW i \in 1 .. MaxFills, NEW w \in Vmids, NEW u \in Vmids,
               Names(i, w)', Names(i, u)'
        PROVE  w = u
    <3>1. \/ Names(i, w) /\ Names(i, u)
          \/ w = v /\ u = v
      BY <2>2, <2>3, <2>7
    <3> QED
      BY <1>0, <3>1 DEF NamesInv
  <2> QED
    BY <2>6, <2>7 DEF NamesInv
<1> QED
  BY <1>1, <1>2, NamesMove

\* The fills in progress have numbers and guests.
LEMMA FillIdsStep ==
    ASSUME PoolIInv, PoolNext
    PROVE  FillIds'
<1>0. /\ Ground /\ TypeOK /\ CopyInv /\ EarlyInv /\ PoolTypes /\ PoolCopies
      /\ MemberInv /\ RevertInv /\ HoldInv /\ FreeInv /\ ClearedInv /\ RollInv
      /\ NamesInv /\ FillIds /\ FillReverted /\ FillCleared
      /\ pooled \subseteq Leases /\ pooled' = pooled
  BY PoolParts, PoolCases
<1>1. \A i \in 1 .. MaxFills : <<"fill", i>> \in Keys
  BY KeyFacts
<1>2. ASSUME UNCHANGED <<child, filler>>,
             \A v \in Vmids : Filling(v)' => Filling(v) /\ member'[v].id = member[v].id
      PROVE  FillIds'
  BY <1>0, <1>2 DEF FillIds, Filling
<1>3. ASSUME UNCHANGED <<member, filler>>,
             \A j \in Keys : child'[j].pc # "none" =>
                 child[j].pc # "none" /\ child'[j].vmid = child[j].vmid
      PROVE  FillIds'
  BY <1>0, <1>1, <1>3 DEF FillIds, Filling
<1>4. CASE Quiet
  <2>1. /\ \A j \in Keys : child'[j].pc # "none" =>
               child[j].pc # "none" /\ child'[j].vmid = child[j].vmid
        /\ filler' = filler \/ \A f \in Fillers : filler'[f].pc = "idle"
        /\ UNCHANGED member
    BY <1>0, <1>4, QuietDoes DEF Ends
  <2> QED
    BY <1>0, <1>1, <2>1 DEF FillIds, Filling
<1>5. ASSUME NEW l \in pooled, PoolBegin(l)
      PROVE  FillIds'
  BY <1>0, <1>2, <1>5, PoolBeginDoes DEF poolVars, Filling
<1>6. ASSUME NEW l \in pooled, Claim(l)
      PROVE  FillIds'
  BY <1>0, <1>2, <1>6, ClaimDoes DEF MemberGoes, Kept, Filling
<1>7. ASSUME NEW l \in pooled, PoolStart(l)
      PROVE  FillIds'
  BY <1>0, <1>2, <1>7, PoolStartDoes DEF Filling
<1>8. ASSUME NEW l \in pooled, PoolWait(l)
      PROVE  FillIds'
  BY <1>0, <1>2, <1>8, PoolWaitDoes DEF poolVars, Filling
<1>9. ASSUME NEW l \in pooled, NEW a \in Attempts, PoolCleanStart(l, a)
      PROVE  FillIds'
  BY <1>0, <1>2, <1>9, PoolCleanStartDoes DEF poolVars, Filling
<1>10. ASSUME NEW l \in pooled, NEW a \in Attempts, PoolPlan(l, a)
      PROVE  FillIds'
  BY <1>0, <1>2, <1>10, PoolPlanDoes DEF poolVars, Filling
<1>11. ASSUME NEW l \in pooled, NEW a \in Attempts, PoolRevert(l, a)
      PROVE  FillIds'
  <2>1. l \in Leases /\ TypeOK /\ PoolTypes
    BY <1>0
  <2>2. UNCHANGED <<member, filler>>
    BY <1>11, <2>1, PoolRevertDoes
  <2>3. AskedFor(cleaner[l][a].pc, <<l, a>>, record[l].vmid)
    BY <1>11, <2>1, PoolRevertDoes
  <2>4. \A i \in 1 .. MaxFills : child'[<<"fill", i>>] = child[<<"fill", i>>]
    BY <1>1, <2>1, <2>3, KeyFacts DEF AskedFor
  <2> QED
    BY <1>0, <2>2, <2>4 DEF FillIds, Filling
<1>12. ASSUME NEW l \in pooled, NEW a \in Attempts, PoolQuarantine(l, a)
      PROVE  FillIds'
  BY <1>0, <1>2, <1>12, PoolQuarantineDoes DEF Filling
<1>13. ASSUME NEW l \in pooled, NEW a \in Attempts, PoolRelease(l, a)
      PROVE  FillIds'
  BY <1>0, <1>2, <1>13, PoolReleaseDoes DEF Filling
<1>14. ASSUME NEW key \in Keys, ChildStep(key)
      PROVE  FillIds'
  <2>1. \A j \in Keys : child'[j].pc # "none" =>
            child[j].pc # "none" /\ child'[j].vmid = child[j].vmid
    BY <1>0, <1>14, ChildStepDoes DEF ChildGoes, Kept
  <2> QED
    BY <1>0, <1>3, <1>14, <2>1, ChildStepDoes
<1>15. ASSUME NEW v \in Vmids, RollbackEnds(v)
      PROVE  FillIds'
  <2>1. \A j \in Keys : child'[j].pc # "none" =>
            child[j].pc # "none" /\ child'[j].vmid = child[j].vmid
    BY <1>0, <1>15, RollbackEndsDoes DEF ChildGoes, Kept
  <2> QED
    BY <1>0, <1>3, <1>15, <2>1, RollbackEndsDoes
<1>16. ASSUME NEW f \in Fillers, FillRevert(f)
      PROVE  FillIds'
  <2>1. FillIds /\ PoolTypes
    BY <1>0
  <2>2. filler[f].vmid \in Vmids /\ member' = member
    BY <1>16, <2>1, FillRevertDoes
  <2>3. \A g \in Fillers : filler'[g].pc # "idle" =>
            filler[g].pc # "idle" /\ filler'[g].id = filler[g].id /\ filler'[g].vmid = filler[g].vmid
    BY <1>16, <2>1, FillRevertDoes DEF Kept
  <2>4. AskedFor(filler[f].pc, <<"fill", filler[f].id>>, filler[f].vmid)
    BY <1>16, <2>1, FillRevertDoes
  <2>5. \A i \in 1 .. MaxFills : child'[<<"fill", i>>].pc # "none" =>
            child'[<<"fill", i>>].vmid \in Vmids
    BY <1>0, <1>1, <2>2, <2>4 DEF AskedFor, FillIds
  <2> QED
    BY <1>0, <2>2, <2>3, <2>5 DEF FillIds, Filling
<1>17. ASSUME NEW f \in Fillers, FillFinish(f)
      PROVE  FillIds'
  <2>1. FillIds /\ PoolTypes
    BY <1>0
  <2>2. child' = child
    BY <1>17, <2>1, FillFinishDoes
  <2>3. \A w \in Vmids : Filling(w)' => Filling(w) /\ member'[w].id = member[w].id
    BY <1>17, <2>1, FillFinishDoes DEF Filling
  <2>4. \A g \in Fillers : filler'[g].pc # "idle" => filler'[g] = filler[g]
    BY <1>17, <2>1, FillFinishDoes DEF Kept
  <2> QED
    BY <1>0, <2>2, <2>3, <2>4 DEF FillIds, Filling
<1>18. ASSUME NEW v \in Vmids, FillRequest(v)
      PROVE  FillIds'
  <2>1. fills + 1 \in 1 .. MaxFills /\ UNCHANGED <<child, filler>>
    BY <1>0, <1>18, FillRequestDoes, PoolTyped, FillAssumption
  <2>2. member'[v].id = fills + 1 /\ \A w \in Vmids : w # v => member'[w] = member[w]
    BY <1>0, <1>18, FillRequestDoes DEF Kept
  <2> QED
    BY <1>0, <2>1, <2>2 DEF FillIds, Filling
<1>19. ASSUME NEW v \in Vmids, Drain(v)
      PROVE  FillIds'
  BY <1>0, <1>2, <1>19, DrainDoes DEF Filling
<1>20. ASSUME NEW f \in Fillers, NEW v \in Vmids, FillStart(f, v)
      PROVE  FillIds'
  <2>1. UNCHANGED <<child, member>> /\ Filling(v)
    BY <1>0, <1>20, FillStartDoes
  <2>2. /\ filler'[f].vmid = v /\ filler'[f].id = member[v].id
        /\ \A g \in Fillers : g # f => filler'[g] = filler[g]
    BY <1>0, <1>20, FillStartDoes DEF Kept
  <2> QED
    BY <1>0, <2>1, <2>2 DEF FillIds, Filling
<1> QED
  BY <1>4, <1>5, <1>6, <1>7, <1>8, <1>9, <1>10, <1>11, <1>12, <1>13, <1>14, <1>15,
     <1>16, <1>17, <1>18, <1>19, <1>20, PoolCases

\* A fill goes on after its rollback only when that succeeded.
LEMMA FillRevertedStep ==
    ASSUME PoolIInv, PoolNext
    PROVE  FillReverted'
<1>0. /\ Ground /\ TypeOK /\ CopyInv /\ EarlyInv /\ PoolTypes /\ PoolCopies
      /\ MemberInv /\ RevertInv /\ HoldInv /\ FreeInv /\ ClearedInv /\ RollInv
      /\ NamesInv /\ FillIds /\ FillReverted /\ FillCleared
      /\ pooled \subseteq Leases /\ pooled' = pooled
  BY PoolParts, PoolCases
<1> SUFFICES ASSUME NEW g \in Fillers, filler'[g].pc \in {"verify", "reverted"}
             PROVE  child'[<<"fill", filler'[g].id>>].pc = "succeeded"
  BY DEF FillReverted
<1>1. filler'[g] = filler[g] => child'[<<"fill", filler'[g].id>>].pc = "succeeded"
  <2> HAVE filler'[g] = filler[g]
  <2>1. /\ filler[g].id \in 1 .. MaxFills
        /\ child[<<"fill", filler[g].id>>].pc = "succeeded"
    BY <1>0 DEF FillIds, FillReverted
  <2>2. Lasting(<<"fill", filler[g].id>>)
    BY <2>1, KeyFacts, ChildrenLast
  <2> QED
    BY <2>1, <2>2 DEF Lasting
<1>2. CASE Quiet
  BY <1>0, <1>1, <1>2, QuietDoes
<1>3. ASSUME NEW l \in pooled, PoolBegin(l)
      PROVE  child'[<<"fill", filler'[g].id>>].pc = "succeeded"
  BY <1>0, <1>1, <1>3, PoolBeginDoes DEF poolVars
<1>4. ASSUME NEW l \in pooled, Claim(l)
      PROVE  child'[<<"fill", filler'[g].id>>].pc = "succeeded"
  BY <1>0, <1>1, <1>4, ClaimDoes
<1>5. ASSUME NEW l \in pooled, PoolStart(l)
      PROVE  child'[<<"fill", filler'[g].id>>].pc = "succeeded"
  BY <1>0, <1>1, <1>5, PoolStartDoes
<1>6. ASSUME NEW l \in pooled, PoolWait(l)
      PROVE  child'[<<"fill", filler'[g].id>>].pc = "succeeded"
  BY <1>0, <1>1, <1>6, PoolWaitDoes DEF poolVars
<1>7. ASSUME NEW l \in pooled, NEW a \in Attempts, PoolCleanStart(l, a)
      PROVE  child'[<<"fill", filler'[g].id>>].pc = "succeeded"
  BY <1>0, <1>1, <1>7, PoolCleanStartDoes DEF poolVars
<1>8. ASSUME NEW l \in pooled, NEW a \in Attempts, PoolPlan(l, a)
      PROVE  child'[<<"fill", filler'[g].id>>].pc = "succeeded"
  BY <1>0, <1>1, <1>8, PoolPlanDoes DEF poolVars
<1>9. ASSUME NEW l \in pooled, NEW a \in Attempts, PoolRevert(l, a)
      PROVE  child'[<<"fill", filler'[g].id>>].pc = "succeeded"
  <2>1. l \in Leases /\ TypeOK /\ PoolTypes
    BY <1>0
  <2>2. filler' = filler
    BY <1>9, <2>1, PoolRevertDoes
  <2> QED
    BY <1>1, <2>2
<1>10. ASSUME NEW l \in pooled, NEW a \in Attempts, PoolQuarantine(l, a)
      PROVE  child'[<<"fill", filler'[g].id>>].pc = "succeeded"
  BY <1>0, <1>1, <1>10, PoolQuarantineDoes
<1>11. ASSUME NEW l \in pooled, NEW a \in Attempts, PoolRelease(l, a)
      PROVE  child'[<<"fill", filler'[g].id>>].pc = "succeeded"
  BY <1>0, <1>1, <1>11, PoolReleaseDoes
<1>12. ASSUME NEW key \in Keys, ChildStep(key)
      PROVE  child'[<<"fill", filler'[g].id>>].pc = "succeeded"
  BY <1>0, <1>1, <1>12, ChildStepDoes
<1>13. ASSUME NEW v \in Vmids, RollbackEnds(v)
      PROVE  child'[<<"fill", filler'[g].id>>].pc = "succeeded"
  BY <1>0, <1>1, <1>13, RollbackEndsDoes
<1>14. ASSUME NEW f \in Fillers, FillRevert(f)
      PROVE  child'[<<"fill", filler'[g].id>>].pc = "succeeded"
  <2>1. FillIds /\ PoolTypes
    BY <1>0
  <2>2. CASE g # f
    BY <1>1, <1>14, <2>1, <2>2, FillRevertDoes DEF Kept
  <2>3. CASE g = f
    <3>1. /\ filler[f].id \in 1 .. MaxFills /\ filler'[f].id = filler[f].id
          /\ \/ filler[f].pc = "wait" /\ child[<<"fill", filler[f].id>>].pc = "succeeded"
             \/ filler[f].pc = "verify"
      BY <1>14, <2>1, <2>3, FillRevertDoes
    <3>2. child[<<"fill", filler[f].id>>].pc = "succeeded"
      BY <1>0, <3>1 DEF FillReverted
    <3>3. Lasting(<<"fill", filler[f].id>>)
      BY <3>1, KeyFacts, ChildrenLast
    <3> QED
      BY <2>3, <3>1, <3>2, <3>3 DEF Lasting
  <2> QED
    BY <2>2, <2>3
<1>15. ASSUME NEW f \in Fillers, FillFinish(f)
      PROVE  child'[<<"fill", filler'[g].id>>].pc = "succeeded"
  BY <1>0, <1>1, <1>15, FillFinishDoes DEF Kept
<1>16. ASSUME NEW v \in Vmids, FillRequest(v)
      PROVE  child'[<<"fill", filler'[g].id>>].pc = "succeeded"
  BY <1>0, <1>1, <1>16, FillRequestDoes
<1>17. ASSUME NEW v \in Vmids, Drain(v)
      PROVE  child'[<<"fill", filler'[g].id>>].pc = "succeeded"
  BY <1>0, <1>1, <1>17, DrainDoes
<1>18. ASSUME NEW f \in Fillers, NEW v \in Vmids, FillStart(f, v)
      PROVE  child'[<<"fill", filler'[g].id>>].pc = "succeeded"
  BY <1>0, <1>1, <1>18, FillStartDoes DEF Kept
<1> QED
  BY <1>2, <1>3, <1>4, <1>5, <1>6, <1>7, <1>8, <1>9, <1>10, <1>11, <1>12, <1>13,
     <1>14, <1>15, <1>16, <1>17, <1>18, PoolCases

\* A guest that was rolled back for a fill is not used before the fill ends.
LEMMA FillClearedStep ==
    ASSUME PoolIInv, PoolNext
    PROVE  FillCleared'
<1>0. /\ Ground /\ TypeOK /\ CopyInv /\ EarlyInv /\ PoolTypes /\ PoolCopies
      /\ MemberInv /\ RevertInv /\ HoldInv /\ FreeInv /\ ClearedInv /\ RollInv
      /\ NamesInv /\ FillIds /\ FillReverted /\ FillCleared
      /\ pooled \subseteq Leases /\ pooled' = pooled
  BY PoolParts, PoolCases
<1> SUFFICES ASSUME NEW w \in Vmids, Filling(w)',
                    child'[<<"fill", member'[w].id>>].pc = "succeeded"
             PROVE  "used" \notin dirt'[w]
  BY DEF FillCleared
<1> DEFINE n == member[w].id
<1>1. ASSUME Filling(w), member'[w].id = n, "used" \in dirt'[w] => "used" \in dirt[w],
             child[<<"fill", n>>].pc = "succeeded"
      PROVE  "used" \notin dirt'[w]
  BY <1>0, <1>1 DEF FillCleared
<1>2. Filling(w) => n \in 1 .. MaxFills /\ <<"fill", n>> \in Keys
  BY <1>0, KeyFacts DEF FillIds
<1> HIDE DEF n
<1>3. CASE Quiet
  <2>1. /\ Filling(w) /\ member'[w].id = n
        /\ "used" \in dirt'[w] => "used" \in dirt[w]
    BY <1>0, <1>3, QuietDoes DEF Filling, n
  <2>2. child[<<"fill", n>>].pc = "succeeded"
    BY <1>0, <1>2, <1>3, <2>1, QuietDoes DEF Ends
  <2> QED
    BY <1>1, <2>1, <2>2
<1>4. ASSUME NEW l \in pooled, PoolBegin(l)
      PROVE  "used" \notin dirt'[w]
  <2>1. /\ Filling(w) /\ member'[w].id = n
        /\ "used" \in dirt'[w] => "used" \in dirt[w]
    BY <1>0, <1>4, PoolBeginDoes DEF Filling, n, poolVars
  <2>2. child[<<"fill", n>>].pc = "succeeded"
    BY <1>0, <1>2, <1>4, <2>1, PoolBeginDoes DEF poolVars
  <2> QED
    BY <1>1, <2>1, <2>2
<1>5. ASSUME NEW l \in pooled, Claim(l)
      PROVE  "used" \notin dirt'[w]
  <2>1. /\ Filling(w) /\ member'[w].id = n
        /\ "used" \in dirt'[w] => "used" \in dirt[w]
    BY <1>0, <1>5, ClaimDoes DEF Filling, n, MemberGoes, Kept
  <2>2. child[<<"fill", n>>].pc = "succeeded"
    BY <1>0, <1>2, <1>5, <2>1, ClaimDoes
  <2> QED
    BY <1>1, <2>1, <2>2
<1>6. ASSUME NEW l \in pooled, PoolStart(l)
      PROVE  "used" \notin dirt'[w]
  <2>1. /\ UNCHANGED <<member, child>>
        /\ "used" \in dirt'[w] /\ "used" \notin dirt[w] => member[w].lease = l
    BY <1>0, <1>6, PoolStartDoes
  <2>2. Filling(w) /\ member[w].lease = Nothing
    BY <1>0, <2>1 DEF MemberInv, Filling
  <2>3. l # Nothing
    BY <1>0, Apart
  <2> QED
    BY <1>1, <2>1, <2>2, <2>3 DEF n
<1>7. ASSUME NEW l \in pooled, PoolWait(l)
      PROVE  "used" \notin dirt'[w]
  <2>1. /\ Filling(w) /\ member'[w].id = n
        /\ "used" \in dirt'[w] => "used" \in dirt[w]
    BY <1>0, <1>7, PoolWaitDoes DEF Filling, n, poolVars
  <2>2. child[<<"fill", n>>].pc = "succeeded"
    BY <1>0, <1>2, <1>7, <2>1, PoolWaitDoes DEF poolVars
  <2> QED
    BY <1>1, <2>1, <2>2
<1>8. ASSUME NEW l \in pooled, NEW a \in Attempts, PoolCleanStart(l, a)
      PROVE  "used" \notin dirt'[w]
  <2>1. /\ Filling(w) /\ member'[w].id = n
        /\ "used" \in dirt'[w] => "used" \in dirt[w]
    BY <1>0, <1>8, PoolCleanStartDoes DEF Filling, n, poolVars
  <2>2. child[<<"fill", n>>].pc = "succeeded"
    BY <1>0, <1>2, <1>8, <2>1, PoolCleanStartDoes DEF poolVars
  <2> QED
    BY <1>1, <2>1, <2>2
<1>9. ASSUME NEW l \in pooled, NEW a \in Attempts, PoolPlan(l, a)
      PROVE  "used" \notin dirt'[w]
  <2>1. /\ Filling(w) /\ member'[w].id = n
        /\ "used" \in dirt'[w] => "used" \in dirt[w]
    BY <1>0, <1>9, PoolPlanDoes DEF Filling, n, poolVars
  <2>2. child[<<"fill", n>>].pc = "succeeded"
    BY <1>0, <1>2, <1>9, <2>1, PoolPlanDoes DEF poolVars
  <2> QED
    BY <1>1, <2>1, <2>2
<1>10. ASSUME NEW l \in pooled, NEW a \in Attempts, PoolRevert(l, a)
      PROVE  "used" \notin dirt'[w]
  <2>1. l \in Leases /\ TypeOK /\ PoolTypes
    BY <1>0
  <2>2. /\ Filling(w) /\ member'[w].id = n
        /\ "used" \in dirt'[w] => "used" \in dirt[w]
    BY <1>10, <2>1, PoolRevertDoes DEF Filling, n
  <2>3. AskedFor(cleaner[l][a].pc, <<l, a>>, record[l].vmid)
    BY <1>10, <2>1, PoolRevertDoes
  <2>4. child[<<"fill", n>>].pc = "succeeded"
    BY <1>2, <2>2, <2>3 DEF AskedFor
  <2> QED
    BY <1>1, <2>2, <2>4
<1>11. ASSUME NEW l \in pooled, NEW a \in Attempts, PoolQuarantine(l, a)
      PROVE  "used" \notin dirt'[w]
  <2>1. /\ Filling(w) /\ member'[w].id = n
        /\ "used" \in dirt'[w] => "used" \in dirt[w]
    BY <1>0, <1>11, PoolQuarantineDoes DEF Filling, n
  <2>2. child[<<"fill", n>>].pc = "succeeded"
    BY <1>0, <1>2, <1>11, <2>1, PoolQuarantineDoes
  <2> QED
    BY <1>1, <2>1, <2>2
<1>12. ASSUME NEW l \in pooled, NEW a \in Attempts, PoolRelease(l, a)
      PROVE  "used" \notin dirt'[w]
  <2>1. /\ Filling(w) /\ member'[w].id = n
        /\ "used" \in dirt'[w] => "used" \in dirt[w]
    BY <1>0, <1>12, PoolReleaseDoes DEF Filling, n
  <2>2. child[<<"fill", n>>].pc = "succeeded"
    BY <1>0, <1>2, <1>12, <2>1, PoolReleaseDoes
  <2> QED
    BY <1>1, <2>1, <2>2
<1>13. ASSUME NEW key \in Keys, ChildStep(key)
      PROVE  "used" \notin dirt'[w]
  <2>1. /\ Filling(w) /\ member'[w].id = n
        /\ "used" \in dirt'[w] => "used" \in dirt[w]
    BY <1>0, <1>13, ChildStepDoes DEF Filling, n
  <2>2. child[<<"fill", n>>].pc = "succeeded"
    BY <1>0, <1>2, <1>13, <2>1, ChildStepDoes DEF ChildGoes, Kept
  <2> QED
    BY <1>1, <2>1, <2>2
<1>14. ASSUME NEW v \in Vmids, RollbackEnds(v)
      PROVE  "used" \notin dirt'[w]
  <2>1. /\ Filling(w) /\ member'[w].id = n
        /\ "used" \in dirt'[w] => "used" \in dirt[w]
    BY <1>0, <1>14, RollbackEndsDoes DEF Filling, n
  <2>2. CASE child[<<"fill", n>>].pc = "succeeded"
    BY <1>1, <2>1, <2>2
  <2>3. CASE child[<<"fill", n>>].pc # "succeeded"
    <3>1. /\ rollback[v] = <<"fill", n>> /\ rollback[v] # Nothing /\ dirt'[v] = {}
          /\ child[<<"fill", n>>].pc = "posted"
      BY <1>0, <1>2, <1>14, <2>1, <2>3, RollbackEndsDoes DEF ChildGoes, Kept
    <3>2. child[<<"fill", n>>].vmid = v
      BY <1>0, <3>1 DEF RollInv
    <3>3. Names(n, v) /\ Names(n, w)
      BY <2>1, <3>1, <3>2 DEF Names, n
    <3>4. v = w
      BY <1>0, <1>2, <2>1, <3>3 DEF NamesInv
    <3> QED
      BY <3>1, <3>4
  <2> QED
    BY <2>2, <2>3
<1>15. ASSUME NEW f \in Fillers, FillRevert(f)
      PROVE  "used" \notin dirt'[w]
  <2>1. FillIds /\ PoolTypes
    BY <1>0
  <2>2. /\ Filling(w) /\ member'[w].id = n
        /\ "used" \in dirt'[w] => "used" \in dirt[w]
    BY <1>15, <2>1, FillRevertDoes DEF Filling, n
  <2>3. AskedFor(filler[f].pc, <<"fill", filler[f].id>>, filler[f].vmid)
    BY <1>15, <2>1, FillRevertDoes
  <2>4. child[<<"fill", n>>].pc = "succeeded"
    BY <1>2, <2>2, <2>3 DEF AskedFor
  <2> QED
    BY <1>1, <2>2, <2>4
<1>16. ASSUME NEW f \in Fillers, FillFinish(f)
      PROVE  "used" \notin dirt'[w]
  <2>1. /\ Filling(w) /\ member'[w].id = n
        /\ "used" \in dirt'[w] => "used" \in dirt[w]
    BY <1>0, <1>16, FillFinishDoes DEF Filling, n
  <2>2. child[<<"fill", n>>].pc = "succeeded"
    BY <1>0, <1>2, <1>16, <2>1, FillFinishDoes
  <2> QED
    BY <1>1, <2>1, <2>2
<1>17. ASSUME NEW v \in Vmids, FillRequest(v)
      PROVE  "used" \notin dirt'[w]
  <2>1. CASE w # v
    <3>1. Filling(w) /\ member'[w].id = n /\ dirt'[w] = dirt[w]
      BY <1>0, <1>17, <2>1, FillRequestDoes DEF Kept, Filling, n
    <3>2. child' = child
      BY <1>0, <1>17, FillRequestDoes
    <3> QED
      BY <1>1, <3>1, <3>2
  <2>2. CASE w = v
    <3> DEFINE i == fills + 1
    <3>1. member'[w].id = i /\ child' = child /\ i \in 1 .. MaxFills /\ ~(i <= fills)
      BY <1>0, <1>17, <2>2, FillRequestDoes, PoolTyped, FillAssumption
    <3> HIDE DEF i
    <3>2. child[<<"fill", i>>].pc # "none" /\ child[<<"fill", i>>].vmid \in Vmids
      BY <1>0, <3>1 DEF FillIds
    <3>3. Names(i, child[<<"fill", i>>].vmid)
      BY <3>2 DEF Names
    <3> QED
      BY <1>0, <3>1, <3>2, <3>3 DEF NamesInv
  <2> QED
    BY <2>1, <2>2
<1>18. ASSUME NEW v \in Vmids, Drain(v)
      PROVE  "used" \notin dirt'[w]
  <2>1. /\ Filling(w) /\ member'[w].id = n
        /\ "used" \in dirt'[w] => "used" \in dirt[w]
    BY <1>0, <1>18, DrainDoes DEF Filling, n
  <2>2. child[<<"fill", n>>].pc = "succeeded"
    BY <1>0, <1>2, <1>18, <2>1, DrainDoes
  <2> QED
    BY <1>1, <2>1, <2>2
<1>19. ASSUME NEW f \in Fillers, NEW v \in Vmids, FillStart(f, v)
      PROVE  "used" \notin dirt'[w]
  <2>1. /\ Filling(w) /\ member'[w].id = n
        /\ "used" \in dirt'[w] => "used" \in dirt[w]
    BY <1>0, <1>19, FillStartDoes DEF Filling, n
  <2>2. child[<<"fill", n>>].pc = "succeeded"
    BY <1>0, <1>2, <1>19, <2>1, FillStartDoes
  <2> QED
    BY <1>1, <2>1, <2>2
<1> QED
  BY <1>3, <1>4, <1>5, <1>6, <1>7, <1>8, <1>9, <1>10, <1>11, <1>12, <1>13, <1>14,
     <1>15, <1>16, <1>17, <1>18, <1>19, PoolCases

\* Every step of the pools keeps the invariant.
LEMMA PoolInductiveStep ==
    ASSUME PoolIInv, PoolNext
    PROVE  PoolIInv'
<1>1. Ground' /\ EarlyInv'
  BY PoolKeeps
<1>2. RevertInv'
  BY RevertStep, PoolCases DEF RevertInv
<1>3. PoolTypes' /\ PoolCopies' /\ MemberInv' /\ HoldInv' /\ FreeInv' /\ ClearedInv'
  BY PoolTypesStep, PoolCopiesStep, MemberStep, HoldStep, FreeStep, ClearedStep
<1>4. RollInv' /\ NamesInv' /\ FillIds' /\ FillReverted' /\ FillCleared'
  BY RollStep, NamesStep, FillIdsStep, FillRevertedStep, FillClearedStep
<1> QED
  BY <1>1, <1>2, <1>3, <1>4 DEF PoolIInv

-----------------------------------------------------------------------------
\* The pools start empty, and nothing is asked for.
LEMMA InitPools == PoolInit => PoolIInv
<1> SUFFICES ASSUME PoolInit PROVE PoolIInv OBVIOUS
<1>1. InitialRows /\ guest \in [Vmids -> Leases \cup {Nothing, Stranger}]
  BY DEF PoolInit
<1>2. Ground /\ EarlyInv
  BY <1>1, InitTypeOK, InitCopies DEF Ground
<1>3. PoolTypes
  <2>1. NoMember \in Members /\ NoChild \in Children /\ NoFiller \in Fills
    BY FillAssumption DEF NoMember, Members, NoChild, Children, NoFiller, Fills
  <2>2. pooled \subseteq Leases /\ fills \in 0 .. MaxFills
    BY FillAssumption DEF PoolInit
  <2> QED
    BY <2>1, <2>2 DEF PoolInit, PoolTypes
<1>4. /\ \A v \in Vmids : /\ member[v].state = "none" /\ member[v].lease = Nothing
                          /\ rollback[v] = Nothing
      /\ \A k \in Keys : child[k].pc = "none"
      /\ \A f \in Fillers : filler[f].pc = "idle"
  BY DEF PoolInit, NoMember, NoChild, NoFiller
<1>5. \A l \in Leases : /\ lease[l].state = "requested" /\ saga[l].pc = "none"
                        /\ \A a \in Attempts : cleaner[l][a].pc = "absent"
                        /\ l # Nothing
  <2>1. InitialRows
    BY DEF PoolInit
  <2>2. \A l \in Leases : l # Nothing
    BY Apart
  <2>3. \A l \in Leases : /\ lease[l].state = "requested" /\ saga[l].pc = "none"
                          /\ \A a \in Attempts : cleaner[l][a].pc = "absent"
    BY <2>1, InitRows, Zenon
  <2> QED
    BY <2>2, <2>3
<1>6. /\ \A l \in Leases, a \in Attempts : <<l, a>> \in Keys
      /\ \A i \in 1 .. MaxFills : <<"fill", i>> \in Keys
  BY KeyFacts
<1>7. PoolCopies /\ MemberInv /\ RevertInv
  BY <1>3, <1>4, <1>5, <1>6, PoolTyped
     DEF PoolCopies, PoolPlaces, MemberInv, RevertInv, RevertAt, Reverts
<1>8. HoldInv /\ FreeInv /\ ClearedInv
  BY <1>3, <1>4, <1>5, <1>6, PoolTyped
     DEF HoldInv, Holding, Booted, FreeInv, ClearedInv, Cleared
<1>9. RollInv /\ FillIds /\ FillReverted /\ FillCleared
  BY <1>4, <1>6 DEF RollInv, FillIds, FillReverted, FillCleared, Filling
<1>10. NamesInv
  BY <1>4, <1>6 DEF NamesInv, Names, Filling
<1> QED
  BY <1>2, <1>3, <1>7, <1>8, <1>9, <1>10 DEF PoolIInv

\* A step that changes nothing keeps the invariant too.
LEMMA PoolStutters ==
    ASSUME PoolIInv, UNCHANGED allVars
    PROVE  PoolIInv'
<1>0. PoolTypes /\ Ground /\ EarlyInv
  BY PoolParts
<1>1. Ground' /\ EarlyInv'
  BY <1>0, NextKeeps DEF allVars
<1>2. PoolTypes' /\ PoolCopies' /\ MemberInv' /\ RevertInv'
  BY DEF PoolIInv, PoolTypes, PoolCopies, MemberInv, RevertInv, RevertAt, allVars,
         poolVars, vars
<1>3. HoldInv' /\ FreeInv' /\ ClearedInv'
  BY DEF PoolIInv, HoldInv, Early, Bound, FreeInv, Unbound, ClearedInv, Cleared, allVars,
         poolVars, vars
<1>4. RollInv' /\ NamesInv' /\ FillIds' /\ FillReverted' /\ FillCleared'
  BY DEF PoolIInv, RollInv, NamesInv, Names, FillIds, FillReverted, FillCleared, Filling,
         allVars, poolVars, vars
<1> QED
  BY <1>1, <1>2, <1>3, <1>4 DEF PoolIInv

\* The invariant of the pools holds in every state, whatever rollbacks, drains,
\* fills, cleanups and crashes interleave.
THEOREM PoolInductive == PoolSpec => []PoolIInv
<1>1. PoolIInv /\ [PoolNext]_allVars => PoolIInv'
  BY PoolInductiveStep, PoolStutters
<1> QED
  BY <1>1, InitPools, PTL DEF PoolSpec

\* The claim binds a member and its lease, and the release of the pool lets
\* them go, each in one transaction: no released lease holds a member, and a
\* ready one holds the member that its record names.
THEOREM MembersHeld == PoolSpec => []HeldTogether
<1>1. PoolIInv => HeldTogether
  <2> SUFFICES ASSUME PoolIInv PROVE HeldTogether OBVIOUS
  <2>0. MemberInv /\ HoldInv /\ FreeInv /\ pooled \subseteq Leases
    BY PoolParts
  <2>1. ASSUME NEW v \in Vmids, NEW l \in Leases \ overtaken, member[v].lease = l
        PROVE  lease[l].state # "released" /\ record[l].vmid = v
    BY <2>0, <2>1, Apart DEF MemberInv, FreeInv, Unbound
  <2>2. ASSUME NEW l \in pooled \ overtaken, lease[l].state = "ready"
        PROVE  \E v \in Vmids : member[v].lease = l /\ member[v].state = "leased"
    BY <2>0, <2>2 DEF HoldInv, Early, Bound
  <2> QED
    BY <2>1, <2>2 DEF HeldTogether
<1> QED
  BY <1>1, PoolInductive, PTL

\* A member returns from a lease that reverted it, or from a fill that did.
LEMMA ReturnsClean ==
    ASSUME PoolIInv, PoolNext, NEW w \in Vmids, member[w].lease \notin overtaken',
           member[w].state # "available", member'[w].state = "available"
    PROVE  "used" \notin dirt[w]
<1>0. /\ Ground /\ TypeOK /\ CopyInv /\ EarlyInv /\ PoolTypes /\ PoolCopies
      /\ MemberInv /\ RevertInv /\ HoldInv /\ FreeInv /\ ClearedInv /\ RollInv
      /\ NamesInv /\ FillIds /\ FillReverted /\ FillCleared
      /\ pooled \subseteq Leases /\ pooled' = pooled
  BY PoolParts, PoolCases
<1>1. CASE Quiet
  BY <1>0, <1>1, QuietDoes
<1>2. ASSUME NEW l \in pooled, PoolBegin(l)
      PROVE  "used" \notin dirt[w]
  BY <1>0, <1>2, PoolBeginDoes DEF poolVars
<1>3. ASSUME NEW l \in pooled, Claim(l)
      PROVE  "used" \notin dirt[w]
  BY <1>0, <1>3, ClaimDoes DEF MemberGoes, Kept
<1>4. ASSUME NEW l \in pooled, PoolStart(l)
      PROVE  "used" \notin dirt[w]
  BY <1>0, <1>4, PoolStartDoes
<1>5. ASSUME NEW l \in pooled, PoolWait(l)
      PROVE  "used" \notin dirt[w]
  BY <1>0, <1>5, PoolWaitDoes DEF poolVars
<1>6. ASSUME NEW l \in pooled, NEW a \in Attempts, PoolCleanStart(l, a)
      PROVE  "used" \notin dirt[w]
  BY <1>0, <1>6, PoolCleanStartDoes DEF poolVars
<1>7. ASSUME NEW l \in pooled, NEW a \in Attempts, PoolPlan(l, a)
      PROVE  "used" \notin dirt[w]
  BY <1>0, <1>7, PoolPlanDoes DEF poolVars
<1>8. ASSUME NEW l \in pooled, NEW a \in Attempts, PoolRevert(l, a)
      PROVE  "used" \notin dirt[w]
  <2>1. l \in Leases /\ TypeOK /\ PoolTypes
    BY <1>0
  <2>2. member' = member
    BY <1>8, <2>1, PoolRevertDoes
  <2> QED
    BY <1>0, <2>2
<1>9. ASSUME NEW l \in pooled, NEW a \in Attempts, PoolQuarantine(l, a)
      PROVE  "used" \notin dirt[w]
  BY <1>0, <1>9, PoolQuarantineDoes
<1>10. ASSUME NEW l \in pooled, NEW a \in Attempts, PoolRelease(l, a)
      PROVE  "used" \notin dirt[w]
  <2>1. l \in Leases /\ TypeOK /\ PoolTypes
    BY <1>0
  <2>2. member[w].lease = l /\ cleaner[l][a].pc = "reverted" /\ overtaken' = overtaken
    BY <1>10, <2>1, PoolReleaseDoes
  <2>3. child[<<l, a>>].pc = "succeeded"
    BY <1>0, <2>2 DEF RevertInv, RevertAt
  <2> QED
    BY <1>0, <2>2, <2>3 DEF ClearedInv, Cleared
<1>11. ASSUME NEW key \in Keys, ChildStep(key)
      PROVE  "used" \notin dirt[w]
  BY <1>0, <1>11, ChildStepDoes
<1>12. ASSUME NEW v \in Vmids, RollbackEnds(v)
      PROVE  "used" \notin dirt[w]
  BY <1>0, <1>12, RollbackEndsDoes
<1>13. ASSUME NEW f \in Fillers, FillRevert(f)
      PROVE  "used" \notin dirt[w]
  <2>1. FillIds /\ PoolTypes
    BY <1>0
  <2>2. member' = member
    BY <1>13, <2>1, FillRevertDoes
  <2> QED
    BY <2>2
<1>14. ASSUME NEW f \in Fillers, FillFinish(f)
      PROVE  "used" \notin dirt[w]
  <2>1. FillIds /\ PoolTypes
    BY <1>0
  <2>2. Filling(w) /\ member[w].id = filler[f].id /\ filler[f].pc = "reverted"
    BY <1>14, <2>1, FillFinishDoes
  <2>3. child[<<"fill", member[w].id>>].pc = "succeeded"
    BY <1>0, <2>2 DEF FillReverted
  <2> QED
    BY <1>0, <2>2, <2>3 DEF FillCleared
<1>15. ASSUME NEW v \in Vmids, FillRequest(v)
      PROVE  "used" \notin dirt[w]
  BY <1>0, <1>15, FillRequestDoes DEF Kept
<1>16. ASSUME NEW v \in Vmids, Drain(v)
      PROVE  "used" \notin dirt[w]
  BY <1>0, <1>16, DrainDoes
<1>17. ASSUME NEW f \in Fillers, NEW v \in Vmids, FillStart(f, v)
      PROVE  "used" \notin dirt[w]
  BY <1>0, <1>17, FillStartDoes
<1> QED
  BY <1>1, <1>2, <1>3, <1>4, <1>5, <1>6, <1>7, <1>8, <1>9, <1>10, <1>11, <1>12,
     <1>13, <1>14, <1>15, <1>16, <1>17, PoolCases

\* A member becomes available only when it was rolled back since its last lease
\* used it, or since it was registered: revert_member takes no rollback that
\* failed, that an earlier member ran or that still runs for it.
THEOREM OnlyCleanReturn == PoolSpec => ReturnedReverted
<1>1. PoolIInv /\ [PoolNext]_allVars => [\A v \in Vmids :
          /\ member[v].state # "available" /\ member'[v].state = "available"
          /\ member[v].lease \notin overtaken'
          => "used" \notin dirt[v]]_allVars
  BY ReturnsClean
<1> QED
  BY <1>1, PoolInductive, PTL DEF PoolSpec, ReturnedReverted

-----------------------------------------------------------------------------
\* Of the steps of LabLeases a pooled lease takes those from its boot on; its
\* own move a saga that has not ended, or end a cleanup and release the lease.
SagaGoesOn(l) ==
    /\ SagaWhole(l) /\ saga[l].pc # "done" /\ saga'[l].pc # "done"
    /\ record'[l].state \in {record[l].state, "booting"} /\ Same(l, record, record')
CleanupGoesOn(l, a) ==
    /\ CleanerWhole(l, a)
    /\ \A k \in Leases :
           \/ lease'[k] = lease[k]
           \/ lease'[k].state = "released" /\ lease'[k].attempts = lease[k].attempts

LEMMA PoolStepKinds ==
    ASSUME PoolIInv, PoolNext
    PROVE  \/ [Next]_vars
           \/ \E l \in pooled : SagaGoesOn(l)
           \/ \E l \in pooled, a \in Attempts : CleanupGoesOn(l, a)
<1>0. TypeOK /\ PoolTypes /\ PoolCopies /\ pooled \subseteq Leases
  BY PoolParts
<1>1. ASSUME NEW l \in pooled, Boot(l)
      PROVE  SagaGoesOn(l)
  BY <1>0, <1>1, BootDoes DEF SagaGoesOn, SagaGoes, RecordGets, Same
<1>2. CASE Quiet
  BY <1>0, <1>1, <1>2, ElsewhereIs DEF Quiet, PoolCrash
<1>3. ASSUME NEW l \in pooled,
             PoolBegin(l) \/ Claim(l) \/ PoolStart(l) \/ PoolWait(l)
      PROVE  SagaGoesOn(l)
  <2>1. SagaWhole(l) /\ l \in Leases
    BY <1>0, <1>3, PoolSagaWhole
  <2>2. CASE PoolBegin(l)
    BY <1>0, <2>1, <2>2, PoolBeginDoes DEF SagaGoesOn, SagaGoes, Same
  <2>3. CASE Claim(l)
    BY <1>0, <2>1, <2>3, ClaimDoes DEF SagaGoesOn, SagaGoes, RecordGets, Same
  <2>4. CASE PoolStart(l)
    BY <1>0, <2>1, <2>4, PoolStartDoes DEF SagaGoesOn, SagaGoes, Same
  <2>5. CASE PoolWait(l)
    BY <1>0, <2>1, <2>5, PoolWaitDoes DEF SagaGoesOn, SagaGoes, Same
  <2> QED
    BY <1>3, <2>2, <2>3, <2>4, <2>5
<1>4. ASSUME NEW l \in pooled, NEW a \in Attempts,
             \/ PoolCleanStart(l, a) \/ PoolPlan(l, a) \/ PoolRevert(l, a)
             \/ PoolQuarantine(l, a)
      PROVE  CleanupGoesOn(l, a)
  <2>1. CleanerWhole(l, a)
    BY <1>0, <1>4, PoolCleanerWhole
  <2>2. lease' = lease
    BY <1>4 DEF PoolCleanStart, PoolPlan, PoolRevert, PoolQuarantine, OnlyCleaner, rows
  <2> QED
    BY <2>1, <2>2 DEF CleanupGoesOn
<1>5. ASSUME NEW l \in pooled, NEW a \in Attempts, PoolRelease(l, a)
      PROVE  CleanupGoesOn(l, a)
  <2>1. CleanerWhole(l, a)
    BY <1>0, <1>5, PoolCleanerWhole
  <2>2. lease' = lease \/ LeaseState(l, "released", lease[l].link)
    BY <1>0, <1>5, PoolReleaseDoes
  <2> QED
    BY <2>1, <2>2 DEF CleanupGoesOn, LeaseState, Same
<1>6. ASSUME \/ \E c \in Keys : ChildStep(c)
             \/ \E v \in Vmids : RollbackEnds(v) \/ FillRequest(v) \/ Drain(v)
             \/ \E f \in Fillers : FillRevert(f) \/ FillFinish(f)
             \/ \E f \in Fillers, v \in Vmids : FillStart(f, v)
      PROVE  UNCHANGED vars
  BY <1>6 DEF ChildStep, ChildClaim, ChildPost, ChildErrs, RollbackEnds, FillRequest, Drain,
         FillRevert, FillFinish, FillStart
<1> QED
  BY <1>2, <1>3, <1>4, <1>5, <1>6, PoolCases

LEMMA PoolReadyStep ==
    ASSUME PoolIInv, PoolNext, ReadyInv, ClaimInv
    PROVE  ReadyInv' /\ ClaimInv'
<1>0. Ground /\ pooled \subseteq Leases
  BY PoolParts
<1>1. CASE [Next]_vars
  BY <1>0, <1>1, ReadyStep, ClaimStep
<1>2. ASSUME NEW l \in pooled, SagaGoesOn(l)
      PROVE  ReadyInv' /\ ClaimInv'
  <2>1. ReadyInv'
    BY <1>0, <1>2 DEF ReadyInv, SagaGoesOn, SagaWhole, Same
  <2>2. ClaimInv'
    BY <1>0, <1>2 DEF ClaimInv, RightUntilMoved, SagaGoesOn, SagaWhole, Same
  <2> QED
    BY <2>1, <2>2
<1>3. ASSUME NEW l \in pooled, NEW a \in Attempts, CleanupGoesOn(l, a)
      PROVE  ReadyInv' /\ ClaimInv'
  <2>1. UNCHANGED <<record, saga, sweep, lapsed>>
        /\ \A k \in Leases : lease'[k] = lease[k] \/ lease'[k].state = "released"
    BY <1>3 DEF CleanupGoesOn, CleanerWhole
  <2> QED
    BY <2>1 DEF ReadyInv, ClaimInv, RightUntilMoved
<1> QED
  BY <1>1, <1>2, <1>3, PoolStepKinds

LEMMA InitReady == InitialRows => ReadyInv /\ ClaimInv
BY InitRows DEF ReadyInv, ClaimInv

\* What holds of every lease, pooled or not.
LEMMA PoolPromises == PoolSpec => [](PoolIInv /\ ReadyInv /\ ClaimInv)
<1>1. PoolInit => PoolIInv /\ ReadyInv /\ ClaimInv
  BY InitPools, InitReady DEF PoolInit
<1>2. PoolIInv /\ ReadyInv /\ ClaimInv /\ [PoolNext]_allVars =>
          (PoolIInv /\ ReadyInv /\ ClaimInv)'
  <2> SUFFICES ASSUME PoolIInv, ReadyInv, ClaimInv, [PoolNext]_allVars
               PROVE  PoolIInv' /\ ReadyInv' /\ ClaimInv'
    OBVIOUS
  <2>1. CASE PoolNext
    BY <2>1, PoolInductiveStep, PoolReadyStep
  <2>2. CASE UNCHANGED allVars
    <3>1. Ground
      BY PoolParts
    <3> QED
      BY <2>2, <3>1, PoolStutters, ReadyStep, ClaimStep DEF allVars
  <2> QED
    BY <2>1, <2>2
<1> QED
  BY <1>1, <1>2, PTL DEF PoolSpec

\* A pooled lease that is ready has its ready record too, although it takes its
\* guest from the pool and its cleanup is another.
THEOREM PoolReadyHasRecord == PoolSpec => []ReadyLeaseHasReadyRecord
<1>1. ReadyInv => ReadyLeaseHasReadyRecord
  BY DEF ReadyInv, ReadyLeaseHasReadyRecord
<1> QED
  BY <1>1, PoolPromises, PTL

\* The steps of a pool release no ready lease that the sweep has claimed.
LEMMA PoolClaimedWhenLapsed ==
    ASSUME NEW k \in Leases, sweep.pc = "claim", sweep.lease = k, sweep' # sweep,
           lease[k].state = "ready", lease'[k].state = "releasing",
           PoolIInv, ClaimInv, PoolNext
    PROVE  k \in lapsed
<1>0. Ground
  BY PoolParts
<1>1. CASE [Next]_vars
  BY <1>0, <1>1, ClaimedWhenLapsed
<1> QED
  BY <1>1, PoolStepKinds DEF SagaGoesOn, SagaWhole, CleanupGoesOn, CleanerWhole

\* With pools as without, an extension that landed after the scan wins.
THEOREM PoolExtensionsWin == PoolSpec => ExtensionWins
<1>1. PoolIInv /\ ReadyInv /\ ClaimInv /\ [PoolNext]_allVars => [\A l \in Leases :
          (/\ sweep.pc = "claim" /\ sweep.lease = l /\ sweep' # sweep
           /\ lease[l].state = "ready" /\ lease'[l].state = "releasing") =>
              l \in lapsed]_vars
  BY PoolClaimedWhenLapsed DEF allVars
<1> QED
  BY <1>1, PoolPromises, PTL DEF PoolSpec, ExtensionWins

\* The count that names the next cleanup of a lease, and with it the rollback
\* that a pooled lease asks for, is not taken back by the steps of a pool.
THEOREM PoolAttemptsGrow == PoolSpec => AttemptsNeverGoBack
<1>1. ASSUME PoolIInv, PoolNext, NEW k \in Leases
      PROVE  k \in overtaken' \/ lease'[k].attempts >= lease[k].attempts
  <2>1. Ground /\ lease[k].attempts >= lease[k].attempts
    BY <1>1, PoolParts, SameCount
  <2>2. CASE [Next]_vars
    BY <2>1, <2>2, CountStays
  <2>3. CASE \E l \in pooled : SagaGoesOn(l)
    BY <2>1, <2>3 DEF SagaGoesOn, SagaWhole
  <2>4. CASE \E l \in pooled, a \in Attempts : CleanupGoesOn(l, a)
    BY <2>1, <2>4 DEF CleanupGoesOn
  <2> QED
    BY <1>1, <2>2, <2>3, <2>4, PoolStepKinds
<1>2. PoolIInv /\ [PoolNext]_allVars => [\A l \in Leases :
          l \in overtaken' \/ lease'[l].attempts >= lease[l].attempts]_vars
  BY <1>1 DEF allVars
<1> QED
  BY <1>2, PoolInductive, PTL DEF PoolSpec, AttemptsNeverGoBack

\* Where no lease is pooled the pools add nothing: what the theorems above say
\* of LabLeases alone holds of the composition.
THEOREM WithoutPools == PoolSpec /\ pooled = {} => Spec
<1>1. PoolInit /\ pooled = {} => Init
  BY DEF PoolInit, Init
<1>2. PoolIInv /\ pooled = {} /\ [PoolNext]_allVars => (pooled = {})' /\ [Next]_vars
  <2> SUFFICES ASSUME PoolIInv, pooled = {}, [PoolNext]_allVars
               PROVE  pooled' = {} /\ [Next]_vars
    OBVIOUS
  <2>1. CASE PoolNext
    BY <2>1, PoolStepKinds, PoolCases
  <2>2. CASE UNCHANGED allVars
    BY <2>2 DEF allVars
  <2> QED
    BY <2>1, <2>2
<1> QED
  BY <1>1, <1>2, PoolInductive, PTL DEF PoolSpec, Spec

-----------------------------------------------------------------------------
(***************************************************************************)
(* Where guests are prebuilt they are named after no record, for good: no  *)
(* saga clones, since it finds no free VMID, and no cleanup deletes.       *)
(***************************************************************************)
Prebuilt ==
    /\ \A v \in Vmids : guest[v] = Stranger
    /\ \A l \in Leases :
           /\ task[l] = Nothing /\ saga[l].pc \notin {"reserve", "clone", "mark"}
           /\ saga[l].pc \in Holding \/ record[l].state = "ready" => record[l].vmid \in Vmids
    /\ \A l \in Leases, a \in Attempts :
           /\ cleaner[l][a].pc = "identify" => record[l].vmid \in Vmids
           /\ cleaner[l][a].pc # "delete"

\* Nobody reaches a reservation or a clone, so nothing is made ready without a VMID.
Onward(k) ==
    /\ saga'[k].pc \notin {"reserve", "clone", "mark"}
    /\ saga'[k].pc \in Holding => saga[k].pc \in Holding
    /\ record'[k].state = "ready" => record[k].state = "ready" \/ saga[k].pc \in Holding

LEMMA NoneReserves ==
    ASSUME Ground, Prebuilt, [Next]_vars, NEW k \in Leases
    PROVE  Onward(k)
<1>0. TypeOK /\ CopyInv /\ saga[k].pc \notin {"reserve", "clone", "mark"}
  BY DEF Ground, Prebuilt
<1>1. CASE UNCHANGED <<saga, record>>
  BY <1>0, <1>1 DEF Onward
<1>2. ASSUME NEW l \in Leases, Begin(l)
      PROVE  Onward(k)
  <2>1. SagaGoes(l, "queued", "fail")
    <3>1. At(l, "queued", "fail")
      BY <1>2, BoundsAssumption DEF Begin, Prebuilt
    <3> QED
      BY <1>0, <3>1, AtDoes
  <2> QED
    BY <1>0, <1>2, <2>1, BeginDoes DEF SagaGoes, Same, Onward, Holding, Booted
<1>3. ASSUME NEW l \in Leases, Reserve(l) \/ CloneCall(l) \/ Mark(l)
      PROVE  FALSE
  BY <1>0, <1>3, ReserveDoes, CloneCallDoes, MarkDoes DEF SagaGoes, Prebuilt
<1>4. ASSUME NEW l \in Leases, Abandon(l)
      PROVE  Onward(k)
  BY <1>0, <1>4, AbandonDoes DEF SagaGoes, RecordGets, Same, Onward, Holding, Booted
<1>5. ASSUME NEW l \in Leases, BootRecord(l)
      PROVE  Onward(k)
  BY <1>0, <1>5, BootRecordDoes DEF SagaGoes, RecordGets, Same, Onward, Holding, Booted
<1>6. ASSUME NEW l \in Leases, BootLease(l)
      PROVE  Onward(k)
  BY <1>0, <1>6, BootLeaseDoes DEF SagaGoes, RecordGets, Same, Onward, Holding, Booted
<1>7. ASSUME NEW l \in Leases, Wait(l)
      PROVE  Onward(k)
  BY <1>0, <1>7, WaitDoes DEF SagaGoes, RecordGets, Same, Onward, Holding, Booted
<1>8. ASSUME NEW l \in Leases, StrapRead(l)
      PROVE  Onward(k)
  BY <1>0, <1>8, StrapReadDoes DEF SagaGoes, RecordGets, Same, Onward, Holding, Booted
<1>9. ASSUME NEW l \in Leases, StrapWrite(l)
      PROVE  Onward(k)
  BY <1>0, <1>9, StrapWriteDoes DEF SagaGoes, RecordGets, Same, Onward, Holding, Booted
<1>10. ASSUME NEW l \in Leases, Strap(l)
      PROVE  Onward(k)
  BY <1>0, <1>10, StrapDoes DEF SagaGoes, RecordGets, Same, Onward, Holding, Booted
<1>11. ASSUME NEW l \in Leases, Ready(l)
      PROVE  Onward(k)
  BY <1>0, <1>11, ReadyDoes DEF SagaGoes, RecordGets, Same, Onward, Holding, Booted
<1>12. ASSUME NEW l \in Leases, SagaErrs(l)
      PROVE  Onward(k)
  BY <1>0, <1>12, SagaErrsDoes DEF SagaGoes, RecordGets, Same, Onward, Holding, Booted
<1>13. ASSUME NEW l \in Leases, FailRecord(l)
      PROVE  Onward(k)
  BY <1>0, <1>13, FailRecordDoes DEF SagaGoes, RecordGets, Same, Onward, Holding, Booted
<1>14. ASSUME NEW l \in Leases, FailWrite(l)
      PROVE  Onward(k)
  BY <1>0, <1>14, FailWriteDoes DEF SagaGoes, RecordGets, Same, Onward, Holding, Booted
<1>15. ASSUME NEW l \in Leases, CompensateRead(l)
      PROVE  Onward(k)
  BY <1>0, <1>15, CompensateReadDoes DEF SagaGoes, RecordGets, Same, Onward, Holding, Booted
<1>16. ASSUME NEW l \in Leases, CompensateWrite(l)
      PROVE  Onward(k)
  BY <1>0, <1>16, CompensateWriteDoes DEF SagaGoes, RecordGets, Same, Onward, Holding, Booted
<1>17. ASSUME NEW l \in Leases, CompensateQueue(l)
      PROVE  Onward(k)
  BY <1>0, <1>17, CompensateQueueDoes DEF SagaGoes, RecordGets, Same, Onward, Holding, Booted
<1>18. ASSUME NEW l \in Leases, Provision(l)
      PROVE  Onward(k)
  BY <1>0, <1>18, ProvisionDoes DEF SagaGoes, RecordGets, Same, Onward, Holding, Booted
<1>19. ASSUME NEW l \in Leases, QueueProvision(l)
      PROVE  Onward(k)
  BY <1>0, <1>19, QueueProvisionDoes DEF SagaGoes, RecordGets, Same, Onward, Holding, Booted
<1>20. CASE Crash
  BY <1>0, <1>20, CrashDoes DEF Onward, Holding, Booted
<1>21. ASSUME NEW l \in Leases, SagaStep(l)
      PROVE  Onward(k)
  BY <1>21, <1>2, <1>3, <1>4, <1>5, <1>6, <1>7, <1>8, <1>9, <1>10, <1>11, <1>12,
     <1>13, <1>14, <1>15, <1>16, <1>17
  DEF SagaStep
<1>22. ASSUME NEW l \in Leases, NEW a \in Attempts, CleanerStep(l, a)
      PROVE  Onward(k)
  BY <1>22, <1>1
  DEF CleanerStep, CleanStart, CleanIdentify, CleanDelete, CleanErrs, CleanRelease,
       CleanFail, OnlyCleaner, CleanerAndLease
<1>23. ASSUME NEW c \in Callers, CallStep(c)
      PROVE  Onward(k)
  BY <1>23, <1>1 DEF CallStep, ReleaseWrite, RetryWrite, ExtendWrite, CallQueue,
       CallAndLease
<1>24. ASSUME NEW l \in Leases, SweepStep(l)
      PROVE  Onward(k)
  BY <1>24, <1>1, <1>4
  DEF SweepStep, ExpiryScan, ExpiryClaim, StuckRecords, StuckLeases, StuckMove,
       CleanupQueue, CleanupScan, CleanupCount, GuestScan, Judge, OnlySweep,
       SweepAndLease
<1> QED
  BY <1>1, <1>18, <1>19, <1>20, <1>21, <1>22, <1>23, <1>24
  DEF Next, Progress, Requests, vars, CloneLands, CloneFails, AskRelease, AskRetry,
       AskExtend, TtlPasses, Asked

\* No cleanup reaches its delete: the guest at its VMID is another's.
Harmlessly(k, b) ==
    /\ cleaner'[k][b].pc = "identify" =>
           cleaner[k][b].pc = "identify" \/ record[k].vmid \in Vmids
    /\ cleaner'[k][b].pc # "delete"

LEMMA NoneDeletes ==
    ASSUME Ground, Prebuilt, [Next]_vars, NEW k \in Leases, NEW b \in Attempts
    PROVE  Harmlessly(k, b)
<1>0. /\ TypeOK /\ CopyInv /\ cleaner[k][b].pc # "delete"
  BY DEF Ground, CopyInv, Prebuilt
<1>1. CASE UNCHANGED <<cleaner>>
  BY <1>0, <1>1 DEF Harmlessly
<1>2. ASSUME NEW l \in Leases, CompensateQueue(l)
      PROVE  Harmlessly(k, b)
  BY <1>0, <1>2, CompensateQueueDoes, QueueDoes, RowFields, RowTypes DEF CopyInv,
         SagaCopies, SagaHolds, SagaGoes, CallCopies, CallHolds, Same, Harmlessly
<1>3. ASSUME NEW l \in Leases, NEW a \in Attempts, CleanStart(l, a)
      PROVE  Harmlessly(k, b)
  BY <1>0, <1>3, CleanStartDoes DEF CleanerGoes, Same, Harmlessly
<1>4. ASSUME NEW l \in Leases, NEW a \in Attempts, CleanIdentify(l, a)
      PROVE  Harmlessly(k, b)
  <2>1. guest[record[l].vmid] \notin {l, Nothing}
    <3>1. record[l].vmid \in Vmids
      BY <1>4 DEF Prebuilt, CleanIdentify, Clean
    <3> QED
      BY <3>1, Apart, BoundsAssumption DEF Prebuilt
  <2>2. Clean(l, a, "identify", "release") \/ Clean(l, a, "identify", "fail")
    BY <1>4, <2>1 DEF CleanIdentify
  <2> QED
    BY <1>0, <2>2, CleanDoes DEF CleanerGoes, Same, Harmlessly
<1>5. ASSUME NEW l \in Leases, NEW a \in Attempts, CleanDelete(l, a)
      PROVE  Harmlessly(k, b)
  BY <1>0, <1>5, CleanDeleteDoes DEF CleanerGoes, Same, Harmlessly
<1>6. ASSUME NEW l \in Leases, NEW a \in Attempts, CleanErrs(l, a)
      PROVE  Harmlessly(k, b)
  BY <1>0, <1>6, CleanErrsDoes DEF CleanerGoes, Same, Harmlessly
<1>7. ASSUME NEW l \in Leases, NEW a \in Attempts, CleanRelease(l, a)
      PROVE  Harmlessly(k, b)
  BY <1>0, <1>7, CleanReleaseDoes DEF CleanerGoes, Same, Harmlessly
<1>8. ASSUME NEW l \in Leases, NEW a \in Attempts, CleanFail(l, a)
      PROVE  Harmlessly(k, b)
  BY <1>0, <1>8, CleanFailDoes DEF CleanerGoes, Same, Harmlessly
<1>9. ASSUME NEW c \in Callers, CallQueue(c)
      PROVE  Harmlessly(k, b)
  BY <1>0, <1>9, CallQueueDoes, QueueDoes, RowFields, RowTypes DEF CopyInv,
         SagaCopies, SagaHolds, CallCopies, CallHolds, CallGoes, Same, Harmlessly
<1>10. ASSUME NEW l \in Leases, CleanupQueue(l)
      PROVE  Harmlessly(k, b)
  BY <1>0, <1>10, CleanupQueueDoes, QueueDoes, RowFields, RowTypes DEF CopyInv,
         SagaCopies, SagaHolds, CallCopies, CallHolds, Same, Harmlessly
<1>11. CASE Crash
  BY <1>0, <1>11, CrashDoes DEF Harmlessly
<1>12. ASSUME NEW l \in Leases, SagaStep(l)
      PROVE  Harmlessly(k, b)
  BY <1>12, <1>1, <1>2
  DEF SagaStep, Begin, Reserve, CloneCall, Mark, BootRecord, BootLease, Wait,
       StrapRead, StrapWrite, Strap, Ready, SagaErrs, FailRecord, FailWrite,
       CompensateRead, CompensateWrite, At, OnlySaga, rows, SagaAndRecord, Boot,
       Reading, Update, SagaAndLease, Written, Move
<1>13. ASSUME NEW l \in Leases, NEW a \in Attempts, CleanerStep(l, a)
      PROVE  Harmlessly(k, b)
  BY <1>13, <1>3, <1>4, <1>5, <1>6, <1>7, <1>8
  DEF CleanerStep
<1>14. ASSUME NEW c \in Callers, CallStep(c)
      PROVE  Harmlessly(k, b)
  BY <1>14, <1>1, <1>9
  DEF CallStep, ReleaseWrite, RetryWrite, ExtendWrite, Update, CallAndLease, Move,
       rows
<1>15. ASSUME NEW l \in Leases, SweepStep(l)
      PROVE  Harmlessly(k, b)
  BY <1>15, <1>1, <1>10
  DEF SweepStep, ExpiryScan, ExpiryClaim, StuckRecords, StuckLeases, StuckMove,
       Abandon, CleanupScan, CleanupCount, GuestScan, Judge, Scan, OnlySweep, rows,
       Swept, Move, SweepAndLease
<1>16. ASSUME Requests \/ (\E l \in Leases : CloneLands(l) \/ CloneFails(l) \/ TtlPasses(l))
       PROVE  Harmlessly(k, b)
  BY <1>16, <1>1 DEF Requests, Provision, QueueProvision, CloneLands, CloneFails,
       AskRelease, AskRetry, AskExtend, Asked, TtlPasses
<1>17. CASE UNCHANGED vars
  BY <1>17, <1>1 DEF vars
<1> QED
  BY <1>11, <1>12, <1>13, <1>14, <1>15, <1>16, <1>17 DEF Next, Progress

\* No guest comes or goes, and no clone task is started.
LEMMA GuestsStay ==
    ASSUME Ground, Prebuilt, [Next]_vars
    PROVE  guest' = guest /\ task' = task
<1>0. TypeOK
  BY DEF Ground
<1>1. ASSUME NEW l \in Leases, CloneCall(l) \/ CloneLands(l) \/ CloneFails(l)
      PROVE  FALSE
  BY <1>0, <1>1, CloneCallDoes DEF SagaGoes, Prebuilt, CloneLands, CloneFails
<1>2. ASSUME NEW l \in Leases, NEW a \in Attempts, CleanDelete(l, a)
      PROVE  FALSE
  BY <1>0, <1>2, CleanDeleteDoes DEF CleanerGoes, Prebuilt
<1>3. ASSUME NEW l \in Leases, SagaStep(l)
      PROVE  guest' = guest /\ task' = task
  BY <1>3, <1>1
  DEF SagaStep, Begin, Reserve, Mark, BootRecord, BootLease, Wait, StrapRead,
       StrapWrite, Strap, Ready, SagaErrs, FailRecord, FailWrite, CompensateRead,
       CompensateWrite, CompensateQueue, OnlySaga, SagaAndRecord, Boot, SagaAndLease
<1>4. ASSUME NEW l \in Leases, NEW a \in Attempts, CleanerStep(l, a)
      PROVE  guest' = guest /\ task' = task
  BY <1>4, <1>2
  DEF CleanerStep, CleanStart, CleanIdentify, CleanErrs, CleanRelease, CleanFail,
       OnlyCleaner, CleanerAndLease
<1>5. ASSUME NEW c \in Callers, CallStep(c)
      PROVE  guest' = guest /\ task' = task
  BY <1>5 DEF CallStep, ReleaseWrite, RetryWrite, ExtendWrite, CallQueue, CallAndLease
<1>6. ASSUME NEW l \in Leases, SweepStep(l)
      PROVE  guest' = guest /\ task' = task
  BY <1>6
  DEF SweepStep, ExpiryScan, ExpiryClaim, StuckRecords, StuckLeases, StuckMove,
       Abandon, CleanupQueue, CleanupScan, CleanupCount, GuestScan, Judge, OnlySweep,
       SweepAndLease
<1> QED
  BY <1>1, <1>3, <1>4, <1>5, <1>6
  DEF Next, Progress, Requests, vars, Provision, QueueProvision, AskRelease, AskRetry,
       AskExtend, TtlPasses, Crash, Asked

LEMMA PrebuiltStep ==
    ASSUME PoolIInv, Prebuilt, PoolNext
    PROVE  Prebuilt' /\ guest' = guest
<1>0. Ground /\ pooled \subseteq Leases
  BY PoolParts
<1>1. CASE [Next]_vars
  <2>1. \A k \in Leases : record'[k].vmid = record[k].vmid
    <3> SUFFICES ASSUME NEW k \in Leases
                 PROVE  record'[k].vmid = record[k].vmid
      OBVIOUS
    <3>1. ~Reserve(k)
      BY <1>0, ReserveDoes DEF Ground, Prebuilt, SagaGoes
    <3> QED
      BY <1>0, <1>1, <3>1, VmidByReserve
  <2>2. guest' = guest /\ task' = task
    BY <1>0, <1>1, GuestsStay
  <2>3. \A k \in Leases : Onward(k)
    BY <1>0, <1>1, NoneReserves
  <2>4. \A k \in Leases, b \in Attempts : Harmlessly(k, b)
    BY <1>0, <1>1, NoneDeletes
  <2> QED
    BY <2>1, <2>2, <2>3, <2>4 DEF Prebuilt, Onward, Harmlessly
<1>2. ASSUME NEW l \in pooled, SagaGoesOn(l)
      PROVE  Prebuilt' /\ guest' = guest
  BY <1>0, <1>2 DEF Prebuilt, SagaGoesOn, SagaWhole, Same
<1>3. ASSUME NEW l \in pooled, NEW a \in Attempts, CleanupGoesOn(l, a)
      PROVE  Prebuilt' /\ guest' = guest
  BY <1>0, <1>3 DEF Prebuilt, CleanupGoesOn, CleanerWhole, Same
<1> QED
  BY <1>1, <1>2, <1>3, PoolStepKinds

LEMMA PoolsArePrebuilt == PoolSpec /\ pooled # {} => [](PoolIInv /\ Prebuilt)
<1>1. PoolInit /\ pooled # {} => Prebuilt
  BY InitRows DEF PoolInit, Prebuilt, Holding, Booted
<1>2. PoolIInv /\ Prebuilt /\ [PoolNext]_allVars => Prebuilt'
  <2>1. Prebuilt /\ UNCHANGED allVars => Prebuilt'
    BY DEF Prebuilt, allVars, vars, rows
  <2> QED
    BY <2>1, PrebuiltStep
<1> QED
  BY <1>1, <1>2, PoolInductive, PTL DEF PoolSpec

\* A ready lease's guest stands at the VMID of its record whatever is pooled:
\* without pools as in LabLeases, and a pool's guests are named after no record.
THEOREM PoolReadyOwnsGuest == PoolSpec => []ReadyLeaseOwnsItsGuest
<1>1. ReadyInv /\ Prebuilt => ReadyLeaseOwnsItsGuest
  BY DEF ReadyInv, Prebuilt, ReadyLeaseOwnsItsGuest
<1>2. PoolSpec /\ pooled = {} => []ReadyLeaseOwnsItsGuest
  BY WithoutPools, ReadyOwnsGuest, PTL
<1>3. PoolSpec /\ pooled # {} => []ReadyLeaseOwnsItsGuest
  BY <1>1, PoolsArePrebuilt, PoolPromises, PTL
<1>4. pooled = {} \/ pooled # {}
  OBVIOUS
<1> QED
  BY <1>2, <1>3, <1>4, PTL

\* Nor does any cleanup destroy a guest that another lease answers for: where
\* guests are pooled none is destroyed at all.
THEOREM PoolNoForeignDelete == PoolSpec => NoForeignGuestDestroyed
<1>1. PoolIInv /\ Prebuilt /\ [PoolNext]_allVars => [\A v \in Vmids, l \in Leases, a \in Attempts :
          /\ cleaner[l][a].pc = "delete" /\ cleaner'[l][a].pc = "release"
          /\ guest[v] # Nothing /\ guest'[v] = Nothing
          => \/ guest[v] = l
             \/ /\ guest[v] \in Leases
                /\ record[guest[v]].state = "never_ready"
                /\ lease[guest[v]].state = "released" \/ guest[v] \in overtaken]_vars
  BY DEF Prebuilt, allVars
<1>2. PoolSpec /\ pooled = {} => NoForeignGuestDestroyed
  BY WithoutPools, NoForeignDelete, PTL
<1>3. PoolSpec /\ pooled # {} => NoForeignGuestDestroyed
  BY <1>1, PoolsArePrebuilt, PTL DEF PoolSpec, NoForeignGuestDestroyed
<1>4. pooled = {} \/ pooled # {}
  OBVIOUS
<1> QED
  BY <1>2, <1>3, <1>4, PTL

=============================================================================
