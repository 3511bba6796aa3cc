------------------------------ MODULE LabLeases ------------------------------
(***************************************************************************)
(* A lab lease from its provision to the end of its cleanup: the provision *)
(* saga of the worker, the compensation that follows a failed one, the     *)
(* cleanup operations, the sweeper's tick, the calls of the API, and the   *)
(* crashes of the controller that end all of them at once.                 *)
(*                                                                         *)
(* A lease and its provision record have one name: the record names its    *)
(* lease for good, the lease names its record once `link` is TRUE.  Some   *)
(* of the writes of a lease compare the row first; the others write a copy *)
(* read earlier over whatever is there, and `overtaken` remembers that     *)
(* such a write replaced a row its writer had not read, or one in a state  *)
(* its writer does not expect.  Pools, devices, capacity, accounts and the *)
(* machine record are left out.  `lapsed` rises at any time while a lease  *)
(* is ready; that a readiness deadline has passed, or a backoff, is a      *)
(* choice of the step that looks at it.                                    *)
(***************************************************************************)
EXTENDS Naturals

CONSTANTS Leases,        \* the leases, each with its record
          Vmids,         \* the VMIDs of the one Proxmox account
          Callers,       \* requests to the API, one call each
          Nothing,       \* no guest, no VMID, no copy
          Stranger,      \* a guest that is named after no record
          MaxAttempts,   \* failed attempts of a cleanup round
          MaxFailures,   \* bound on the failed attempts of a lease
          MaxExtensions, \* bound on the extensions of a lease
          MaxCrashes     \* bound on the crashes of the controller

ASSUME BoundsAssumption ==
    /\ MaxAttempts \in Nat \ {0} /\ MaxFailures \in Nat \ {0}
    /\ MaxFailures % MaxAttempts = 0
    /\ MaxExtensions \in Nat /\ MaxCrashes \in Nat
    /\ {Nothing, Stranger} \cap (Leases \cup Vmids) = {}
    /\ Nothing # Stranger

VARIABLES
    lease,      \* the lease rows
    record,     \* the provision records
    guest,      \* the guest at each VMID, by the record it is named after
    task,       \* the VMID a clone task of the record has still to fill
    saga,       \* the execution of the lease's lab.provision
    cleaner,    \* the lab.cleanup operations of a lease, one per attempt
    call,       \* the API requests
    sweep,      \* the lease the sweeper is at, and the step of its tick
    lapsed,     \* the TTL deadline of the lease has passed
    reported,   \* the VMIDs the sweeper reported as orphans
    crashes,    \* the crashes so far
    overtaken   \* the leases a blind write hit

rows == <<lease, overtaken>>
vars == <<lease, record, guest, task, saga, cleaner, call, sweep, lapsed,
          reported, crashes, overtaken>>

-----------------------------------------------------------------------------
InSaga == {"provisioning", "booting", "bootstrapping"}
Terminal == {"released", "failed", "cleanup_failed"}
LeaseStates == {"requested", "ready", "releasing"} \cup InSaga \cup Terminal
RecordStates == {"none", "ready", "never_ready"} \cup InSaga
Attempts == 0 .. MaxFailures

Rows == [state : LeaseStates, link : BOOLEAN, attempts : Attempts,
         cleanup : {"destroy", "revert", "keep"}, expires : 0 .. MaxExtensions + 1]
Records == [state : RecordStates, vmid : Vmids \cup {Nothing}, upid : BOOLEAN,
            cloneFailed : BOOLEAN]

NoCleaner == [pc |-> "absent", row |-> Nothing, sure |-> FALSE]
NoSaga == [pc |-> "none", vmid |-> Nothing, row |-> Nothing]
NoSweep == [pc |-> "idle", lease |-> Nothing, row |-> Nothing, seen |-> Nothing]

\* Mutant: a failed lease is taken for one that owes nothing.
CompensationSkipsFailed(s, allocated) ==
    CASE s \in InSaga /\ allocated  -> "releasing"
      [] s \in InSaga /\ ~allocated -> "failed"
      [] OTHER                       -> "stay"

\* Compensation(s, a): where a lease in state s goes after its provision
\* stopped, or "stay".
Compensation(s, allocated) ==
    CASE s \in InSaga \cup {"failed"} /\ allocated -> "releasing"
      [] s \in InSaga /\ ~allocated                -> "failed"
      [] OTHER                                     -> "stay"

Allocated(row, vmid) == row.link /\ vmid # Nothing

\* provision_to_abandon: the record is in flight, its lease left the saga.
ToAbandon(l) ==
    /\ lease[l].state \notin InSaga \cup {"requested", "ready"}
    /\ record[l].state \in InSaga
    /\ lease[l].link

\* guest_owned: the guest of l at VMID v is accounted for.
GuestOwned(l, v) ==
    /\ record[l].vmid = v
    /\ lease[l].link
    /\ lease[l].state = "released" => lease[l].cleanup = "keep"
    /\ lease[l].state # "failed"

\* record_cleanup_failure.
Failed(row) ==
    LET n == IF row.attempts < MaxFailures THEN row.attempts + 1 ELSE MaxFailures
    IN  [row EXCEPT !.attempts = n,
                    !.state = IF n % MaxAttempts = 0 THEN "cleanup_failed"
                              ELSE "releasing"]

\* LeasePort::update: the row a writer made of `copy` replaces the stored one.
Update(l, copy, row, expected) ==
    /\ lease' = [lease EXCEPT ![l] = row]
    /\ overtaken' = IF lease[l] = copy /\ copy.state \in expected THEN overtaken
                    ELSE overtaken \cup {l}

\* A write that compares the row first moves it to `row`.
Move(l, row) == lease' = [lease EXCEPT ![l] = row] /\ UNCHANGED overtaken

\* create_lab_cleanup: the operation of attempt a, unless it exists already.
Queue(l, a) ==
    cleaner' = [cleaner EXCEPT ![l][a].pc = IF @ = "absent" THEN "queued" ELSE @]

\* Mutant: only a running saga holds its VMID.
HeldWhileProvisioning(l, v) ==
    \E m \in Leases \ {l} :
        record[m].vmid = v /\ record[m].state = "provisioning"

\* A reservation of v by l is refused while another record holds v: its saga
\* has not booted a guest, or its lease is not released.
Held(l, v) ==
    \E m \in Leases \ {l} :
        /\ record[m].vmid = v
        /\ record[m].state = "provisioning" \/ lease[m].state # "released"

-----------------------------------------------------------------------------
\* The request that starts the provision: the record is created and attached
\* to a lease that is still `requested`; then its operation is queued, if the
\* caller lives to see that.
Provision(l) ==
    /\ lease[l].state = "requested" /\ ~lease[l].link /\ saga[l].pc = "none"
    /\ Move(l, [lease[l] EXCEPT !.state = "provisioning", !.link = TRUE])
    /\ record' = [record EXCEPT ![l].state = "provisioning"]
    /\ saga' = [saga EXCEPT ![l].pc = "attached"]
    /\ UNCHANGED <<guest, task, cleaner, call, sweep, lapsed, reported,
                   crashes>>

QueueProvision(l) ==
    /\ saga[l].pc = "attached"
    /\ saga' = [saga EXCEPT ![l].pc = "queued"]
    /\ UNCHANGED <<rows, record, guest, task, cleaner, call, sweep,
                   lapsed, reported, crashes>>

-----------------------------------------------------------------------------
\* The saga.  At(l, here, next): l's saga steps from one place to the next;
\* it keeps its copy of the lease only where the next step writes it.
At(l, here, next) ==
    /\ saga[l].pc = here
    /\ saga' = [saga EXCEPT ![l].pc = next, ![l].row = Nothing]

Reading(l, here, next) ==
    /\ saga[l].pc = here
    /\ saga' = [saga EXCEPT ![l].pc = next, ![l].row = lease[l]]

OnlySaga == UNCHANGED <<rows, record, guest, task, cleaner, call, sweep,
                        lapsed, reported, crashes>>
SagaAndRecord == UNCHANGED <<rows, guest, task, cleaner, call, sweep, lapsed,
                             reported, crashes>>
SagaAndLease == UNCHANGED <<record, guest, task, cleaner, call, sweep,
                            lapsed, reported, crashes>>

\* The linked lease still awaits its guest.
Awaited(l) ==
    /\ lease[l].link /\ lease[l].state \in InSaga
    /\ record[l].state # "never_ready"

\* Proxmox offers a free VMID.
Begin(l) ==
    /\ saga[l].pc = "queued"
    /\ IF Awaited(l)
       THEN \E v \in Vmids :
                /\ guest[v] = Nothing
                /\ saga' = [saga EXCEPT ![l] =
                                [pc |-> "reserve", vmid |-> v, row |-> Nothing]]
       ELSE At(l, "queued", "fail")
    /\ OnlySaga

\* reserve_clone_target: the holder check and the write are one transaction.
Reserve(l) ==
    LET v == saga[l].vmid IN
    /\ IF record[l].state = "provisioning" /\ ~Held(l, v)
       THEN /\ At(l, "reserve", "clone")
            /\ record' = [record EXCEPT ![l].vmid = v]
       ELSE /\ At(l, "reserve", "fail")
            /\ UNCHANGED record
    /\ SagaAndRecord

\* The clone call starts a task; its answer may be lost.  A guest that is
\* already at the VMID is a conflict.
CloneCall(l) ==
    /\ saga[l].pc = "clone"
    /\ \/ /\ guest[saga[l].vmid] = Nothing
          /\ At(l, "clone", "mark") \/ At(l, "clone", "fail")
          /\ task' = [task EXCEPT ![l] = saga[l].vmid]
       \/ /\ At(l, "clone", "fail")
          /\ UNCHANGED task
    /\ UNCHANGED <<rows, record, guest, cleaner, call, sweep, lapsed,
                   reported, crashes>>

\* A record that ended never_ready refuses every later write of the saga.
Written(l, here, next, state) ==
    IF record[l].state = "never_ready"
    THEN At(l, here, "fail") /\ UNCHANGED record
    ELSE At(l, here, next) /\ record' = [record EXCEPT ![l].state = state]

Mark(l) ==
    /\ IF record[l].state = "never_ready"
       THEN At(l, "mark", "fail") /\ UNCHANGED record
       ELSE At(l, "mark", "settle") /\ record' = [record EXCEPT ![l].upid = TRUE]
    /\ SagaAndRecord

\* A lease that was compensated while its guest was made is not booted.  The
\* boot is written to the record, then to the copy of the lease read before.
Boot(l) ==
    /\ saga[l].pc = "settle"
    /\ IF lease[l].state \in InSaga \cup {"ready"} /\ record[l].state # "never_ready"
       THEN /\ Reading(l, "settle", "bootlease")
            /\ record' = [record EXCEPT ![l].state = "booting"]
       ELSE At(l, "settle", "fail") /\ UNCHANGED record
    /\ SagaAndRecord

\* The clone has landed and carries this record's name.
BootRecord(l) ==
    /\ saga[l].pc = "settle" /\ guest[saga[l].vmid] = l
    /\ Boot(l)

BootLease(l) ==
    /\ At(l, "bootlease", "wait")
    /\ Update(l, saga[l].row, [saga[l].row EXCEPT !.state = "booting"], InSaga)
    /\ SagaAndLease

\* A guest at the VMID answers with an address: the start and the agent
\* query name the VMID alone.
Wait(l) ==
    /\ Written(l, "wait", "strapread", record[l].state)
    /\ guest[saga[l].vmid] # Nothing
    /\ SagaAndRecord

StrapRead(l) == Reading(l, "strapread", "strapwrite") /\ OnlySaga

StrapWrite(l) ==
    /\ At(l, "strapwrite", "strap")
    /\ Update(l, saga[l].row, [saga[l].row EXCEPT !.state = "bootstrapping"],
              InSaga)
    /\ SagaAndLease

Strap(l) ==
    /\ Written(l, "strap", "ready", "bootstrapping")
    /\ guest[saga[l].vmid] # Nothing
    /\ SagaAndRecord

\* Mutant: the transaction looks at the lease alone.
ReadyIgnoresRecord(l) ==
    /\ IF lease[l].state \in InSaga /\ lease[l].link /\ lease[l].expires = 0
       THEN /\ At(l, "ready", "done")
            /\ Move(l, [lease[l] EXCEPT !.state = "ready", !.expires = 1])
            /\ UNCHANGED record
       ELSE At(l, "ready", "fail") /\ UNCHANGED <<rows, record>>
    /\ UNCHANGED <<guest, task, cleaner, call, sweep, lapsed, reported,
                   crashes>>

\* complete_ready: the lease and the record become ready in one transaction,
\* which each of them can refuse.
Ready(l) ==
    /\ IF /\ lease[l].state \in InSaga /\ lease[l].link /\ lease[l].expires = 0
          /\ record[l].state \in InSaga
       THEN /\ At(l, "ready", "done")
            /\ Move(l, [lease[l] EXCEPT !.state = "ready", !.expires = 1])
            /\ record' = [record EXCEPT ![l].state = "ready"]
       ELSE At(l, "ready", "fail") /\ UNCHANGED <<rows, record>>
    /\ UNCHANGED <<guest, task, cleaner, call, sweep, lapsed, reported,
                   crashes>>

\* A provider or store call fails, a deadline passes, a cancel is seen.
SagaErrs(l) ==
    /\ \E here \in {"queued", "clone", "settle", "wait", "strap"} :
           At(l, here, "fail")
    /\ OnlySaga

-----------------------------------------------------------------------------
\* The failure of the saga: persist_failure ends the record and an in-flight
\* lease, then compensate decides on rows it reads again.
FailRecord(l) ==
    /\ IF lease[l].state \in InSaga THEN Reading(l, "fail", "failwrite")
                                    ELSE At(l, "fail", "compensate")
    /\ \E c \in {record[l].state = "provisioning", record[l].cloneFailed} :
           record' = [record EXCEPT ![l].state = "never_ready",
                                    ![l].cloneFailed = c]
    /\ SagaAndRecord

FailWrite(l) ==
    /\ At(l, "failwrite", "compensate")
    /\ Update(l, saga[l].row, [saga[l].row EXCEPT !.state = "failed"], InSaga)
    /\ SagaAndLease

CompensateRead(l) ==
    /\ IF Compensation(lease[l].state, Allocated(lease[l], record[l].vmid)) = "stay"
       THEN At(l, "compensate", "done")
       ELSE Reading(l, "compensate", "compwrite")
    /\ OnlySaga

CompensateWrite(l) ==
    LET copy == saga[l].row
        to == Compensation(copy.state, Allocated(copy, record[l].vmid))
        row == [copy EXCEPT !.state = to]
    IN  /\ saga[l].pc = "compwrite"
        /\ saga' = [saga EXCEPT
                        ![l].pc = IF to = "releasing" THEN "compqueue" ELSE "done",
                        ![l].row = IF to = "releasing" THEN row ELSE Nothing]
        /\ Update(l, copy, row, InSaga \cup {"failed"})
        /\ SagaAndLease

CompensateQueue(l) ==
    /\ At(l, "compqueue", "done")
    /\ Queue(l, saga[l].row.attempts)
    /\ UNCHANGED <<rows, record, guest, task, call, sweep, lapsed,
                   reported, crashes>>

\* The clone task of Proxmox goes on by itself: it fills its VMID, or ends
\* without a guest; it cannot fill a VMID that is taken.
CloneLands(l) ==
    /\ task[l] # Nothing /\ guest[task[l]] = Nothing
    /\ guest' = [guest EXCEPT ![task[l]] = l]
    /\ task' = [task EXCEPT ![l] = Nothing]
    /\ UNCHANGED <<rows, record, saga, cleaner, call, sweep, lapsed,
                   reported, crashes>>

CloneFails(l) ==
    /\ task[l] # Nothing
    /\ task' = [task EXCEPT ![l] = Nothing]
    /\ UNCHANGED <<rows, record, guest, saga, cleaner, call, sweep,
                   lapsed, reported, crashes>>

-----------------------------------------------------------------------------
\* A cleanup operation (l, a).  Goes and Fails are its steps.
Clean(l, a, here, next) ==
    /\ cleaner[l][a].pc = here
    /\ cleaner' = [cleaner EXCEPT ![l][a] =
                       IF next \in {"done", "not_pooled"} THEN [NoCleaner EXCEPT !.pc = next]
                       ELSE [@ EXCEPT !.pc = next]]

OnlyCleaner == UNCHANGED <<rows, record, guest, task, saga, call, sweep,
                           lapsed, reported, crashes>>
CleanerAndLease == UNCHANGED <<record, guest, task, saga, call, sweep,
                               lapsed, reported, crashes>>

\* A lease that is not releasing ends the operation, and one to be reverted is
\* refused, for no pool holds its guest: neither writes the lease.  A kept one
\* is released, and so is one whose record holds no VMID.  The record says
\* whether a guest was ever confirmed at its VMID.
CleanStart(l, a) ==
    /\ cleaner[l][a].pc = "queued"
    /\ \/ lease[l].state # "releasing" /\ Clean(l, a, "queued", "done")
       \/ /\ lease[l].state = "releasing" /\ lease[l].cleanup = "revert"
          /\ Clean(l, a, "queued", "not_pooled")
       \/ /\ lease[l].state = "releasing" /\ lease[l].cleanup # "revert"
          /\ cleaner' = [cleaner EXCEPT ![l][a] =
                [pc |-> IF \/ lease[l].cleanup = "keep"
                           \/ ~Allocated(lease[l], record[l].vmid)
                        THEN "release" ELSE "identify",
                 row |-> lease[l],
                 sure |-> record[l].upid /\ ~record[l].cloneFailed]]
    /\ OnlyCleaner

\* refuse_foreign_guest, prepare_destroy: only the record's own guest, or an
\* empty VMID, reaches the delete.
CleanIdentify(l, a) ==
    LET g == guest[record[l].vmid]
        sure == cleaner[l][a].sure
    IN  /\ cleaner[l][a].pc = "identify"
        /\ \/ g = l /\ Clean(l, a, "identify", "delete")
           \/ g = Nothing /\ sure /\ Clean(l, a, "identify", "delete")
           \/ g # l /\ ~sure /\ Clean(l, a, "identify", "release")
           \/ g \notin {l, Nothing} /\ sure /\ Clean(l, a, "identify", "fail")
        /\ OnlyCleaner

\* The delete names the VMID alone.
CleanDelete(l, a) ==
    /\ Clean(l, a, "delete", "release")
    /\ guest' = [guest EXCEPT ![record[l].vmid] = Nothing]
    /\ UNCHANGED <<rows, record, task, saga, call, sweep, lapsed,
                   reported, crashes>>

CleanErrs(l, a) ==
    /\ Clean(l, a, "identify", "fail") \/ Clean(l, a, "delete", "fail")
    /\ OnlyCleaner

CleanRelease(l, a) ==
    /\ Clean(l, a, "release", "done")
    /\ Update(l, cleaner[l][a].row,
              [cleaner[l][a].row EXCEPT !.state = "released"], {"releasing"})
    /\ CleanerAndLease

CleanFail(l, a) ==
    /\ Clean(l, a, "fail", "done")
    /\ Update(l, cleaner[l][a].row, Failed(cleaner[l][a].row), {"releasing"})
    /\ CleanerAndLease

-----------------------------------------------------------------------------
\* The API.  A request reads the lease, records an audit event and writes; a
\* release or a re-arm then queues the cleanup of the row it wrote.
Asked(c, l, kind) ==
    /\ call[c].pc = "ready"
    /\ call' = [call EXCEPT ![c] = [pc |-> kind, lease |-> l, row |-> lease[l]]]
    /\ UNCHANGED <<rows, record, guest, task, saga, cleaner, sweep, lapsed,
                   reported, crashes>>

Answered(c) == [pc |-> "done", lease |-> Nothing, row |-> Nothing]

CallAndLease == UNCHANGED <<record, guest, task, saga, cleaner, sweep,
                            reported, crashes>>

AskRelease(c, l) ==
    /\ lease[l].state \notin Terminal
    /\ \E kind \in {"release", "keep"} : Asked(c, l, kind)

AskRetry(c, l) ==
    /\ lease[l].state = "cleanup_failed" /\ lease[l].attempts < MaxFailures
    /\ Asked(c, l, "retry")

AskExtend(c, l) ==
    /\ lease[l].state = "ready" /\ l \notin lapsed
    /\ lease[l].expires <= MaxExtensions
    /\ Asked(c, l, "extend")

\* release_lease writes the row it read, whatever happened since.
ReleaseWrite(c) ==
    LET l == call[c].lease
        row == [call[c].row EXCEPT !.state = "releasing",
                          !.cleanup = IF call[c].pc = "keep" THEN "keep" ELSE @]
    IN  /\ call[c].pc \in {"release", "keep"}
        /\ Update(l, call[c].row, row, LeaseStates \ Terminal)
        /\ call' = [call EXCEPT ![c].pc = "queue", ![c].row = row]
        /\ lapsed' = lapsed \ {l}
        /\ CallAndLease

\* Mutant: a re-armed cleanup starts to count again.
RetryWriteResets(c) ==
    LET l == call[c].lease
    IN  /\ call[c].pc = "retry"
        /\ IF lease[l].state = "cleanup_failed"
           THEN /\ Move(l, [lease[l] EXCEPT !.state = "releasing", !.attempts = 0])
                /\ call' = [call EXCEPT ![c].pc = "queue", ![c].row = lease'[l]]
           ELSE call' = [call EXCEPT ![c] = Answered(c)] /\ UNCHANGED rows
        /\ UNCHANGED lapsed
        /\ CallAndLease

\* retry_cleanup: only the failed cleanup with the count it read is re-armed.
RetryWrite(c) ==
    LET l == call[c].lease
        row == [call[c].row EXCEPT !.state = "releasing"]
    IN  /\ call[c].pc = "retry"
        /\ IF lease[l].state = "cleanup_failed"
              /\ lease[l].attempts = row.attempts
           THEN /\ Move(l, [lease[l] EXCEPT !.state = "releasing",
                                            !.attempts = row.attempts])
                /\ call' = [call EXCEPT ![c].pc = "queue", ![c].row = row]
           ELSE /\ call' = [call EXCEPT ![c] = Answered(c)]
                /\ UNCHANGED rows
        /\ UNCHANGED lapsed
        /\ CallAndLease

\* extend_ready: only the deadline it read is replaced, by a later one.
ExtendWrite(c) ==
    LET l == call[c].lease
    IN  /\ call[c].pc = "extend"
        /\ call' = [call EXCEPT ![c] = Answered(c)]
        /\ IF lease[l].state = "ready" /\ lease[l].expires = call[c].row.expires
           THEN /\ Move(l, [lease[l] EXCEPT !.expires = @ + 1])
                /\ lapsed' = lapsed \ {l}
           ELSE UNCHANGED <<rows, lapsed>>
        /\ CallAndLease

\* queue_cleanup: a lease that backs off is left to the sweeper.
CallQueue(c) ==
    /\ call[c].pc = "queue"
    /\ call' = [call EXCEPT ![c] = Answered(c)]
    /\ \/ Queue(call[c].lease, call[c].row.attempts)
       \/ call[c].row.attempts > 0 /\ UNCHANGED cleaner
    /\ UNCHANGED <<rows, record, guest, task, saga, sweep, lapsed,
                   reported, crashes>>

-----------------------------------------------------------------------------
\* The sweeper.  A tick takes its steps one after the other over all leases,
\* each by a list and a conditional write.  A step that finds nothing to do
\* leaves no trace and the tick repeats, so the model takes any step for any
\* lease that has work for it, one at a time.
Scan(l, next, row, seen) ==
    /\ sweep.pc = "idle"
    /\ sweep' = [pc |-> next, lease |-> l, row |-> row, seen |-> seen]

Swept(l, here) ==
    /\ sweep.pc = here /\ sweep.lease = l
    /\ sweep' = NoSweep

OnlySweep == UNCHANGED <<rows, record, guest, task, saga, cleaner, call, lapsed,
                         reported, crashes>>
SweepAndLease == UNCHANGED <<record, guest, task, saga, cleaner, call, reported,
                             crashes>>

\* Step 1: the leases whose deadline has passed are listed, then claimed by
\* comparing the state and the deadline.
ExpiryScan(l) ==
    /\ lease[l].state = "ready" /\ l \in lapsed
    /\ Scan(l, "claim", lease[l], Nothing)
    /\ OnlySweep

\* Mutant: the claim compares the state alone.
ExpiryClaimAnyDeadline(l) ==
    /\ Swept(l, "claim")
    /\ IF lease[l].state = "ready"
       THEN /\ Move(l, [lease[l] EXCEPT !.state = "releasing"])
            /\ lapsed' = lapsed \ {l}
       ELSE UNCHANGED <<rows, lapsed>>
    /\ SweepAndLease

ExpiryClaim(l) ==
    /\ Swept(l, "claim")
    /\ IF lease[l].state = "ready" /\ lease[l].expires = sweep.row.expires
       THEN /\ Move(l, [lease[l] EXCEPT !.state = "releasing"])
            /\ lapsed' = lapsed \ {l}
       ELSE UNCHANGED <<rows, lapsed>>
    /\ SweepAndLease

\* Step 2: the records are listed, then the leases.  A failed lease that holds
\* a guest is moved at once, one in flight when its readiness deadline or its
\* lifetime has passed; transition compares the state and the link.
StuckRecords(l) ==
    /\ Compensation(lease[l].state, Allocated(lease[l], record[l].vmid)) # "stay"
    /\ Scan(l, "stuck", Nothing, record[l].vmid)
    /\ OnlySweep

StuckLeases(l) ==
    LET to == Compensation(lease[l].state, Allocated(lease[l], sweep.seen))
    IN  /\ sweep.pc = "stuck" /\ sweep.lease = l
        /\ sweep' = IF to = "stay" THEN NoSweep
                    ELSE [sweep EXCEPT !.pc = "move", !.row = lease[l], !.seen = to]
        /\ OnlySweep

StuckMove(l) ==
    /\ Swept(l, "move")
    /\ IF lease[l].state = sweep.row.state /\ lease[l].link = sweep.row.link
       THEN Move(l, [lease[l] EXCEPT !.state = sweep.seen])
       ELSE UNCHANGED rows
    /\ UNCHANGED lapsed
    /\ SweepAndLease

\* Step 2b: a record left in flight by a lease that left the saga is ended.
Abandon(l) ==
    /\ sweep.pc = "idle" /\ ToAbandon(l)
    /\ record' = [record EXCEPT ![l].state = "never_ready"]
    /\ UNCHANGED <<rows, guest, task, saga, cleaner, call, sweep, lapsed,
                   reported, crashes>>

\* Step 3: the cleanup of a releasing lease is queued.  An attempt whose
\* operation a crash ended is counted, by comparing the state and the count.
CleanupQueue(l) ==
    /\ sweep.pc = "idle" /\ lease[l].state = "releasing"
    /\ cleaner[l][lease[l].attempts].pc = "absent"
    /\ Queue(l, lease[l].attempts)
    /\ UNCHANGED <<rows, record, guest, task, saga, call, sweep, lapsed,
                   reported, crashes>>

CleanupScan(l) ==
    /\ lease[l].state = "releasing"
    /\ cleaner[l][lease[l].attempts].pc = "abandoned"
    /\ Scan(l, "count", lease[l], Nothing)
    /\ OnlySweep

CleanupCount(l) ==
    /\ Swept(l, "count")
    /\ IF lease[l].state = "releasing" /\ lease[l].attempts = sweep.row.attempts
       THEN Move(l, Failed(lease[l]))
       ELSE UNCHANGED rows
    /\ UNCHANGED lapsed
    /\ SweepAndLease

\* Step 4: the guests are listed, then the rows that may own them; a guest
\* that none owns is reported.
GuestScan(l) ==
    \E v \in Vmids \ reported :
        /\ guest[v] = l /\ ~GuestOwned(l, v)
        /\ Scan(l, "judge", Nothing, v)
        /\ OnlySweep

\* Mutant: a record that names the VMID is enough to own the guest.
JudgeByRecord(l) ==
    /\ Swept(l, "judge")
    /\ reported' = IF record[l].vmid = sweep.seen THEN reported
                   ELSE reported \cup {sweep.seen}
    /\ UNCHANGED <<rows, record, guest, task, saga, cleaner, call, lapsed,
                   crashes>>

Judge(l) ==
    /\ Swept(l, "judge")
    /\ reported' = IF GuestOwned(l, sweep.seen) THEN reported
                   ELSE reported \cup {sweep.seen}
    /\ UNCHANGED <<rows, record, guest, task, saga, cleaner, call, lapsed,
                   crashes>>

-----------------------------------------------------------------------------
\* Time passes: the deadline of a ready lease.
TtlPasses(l) ==
    /\ lease[l].state = "ready" /\ l \notin lapsed
    /\ lapsed' = lapsed \cup {l}
    /\ UNCHANGED <<rows, record, guest, task, saga, cleaner, call, sweep,
                   reported, crashes>>

\* The controller dies.  Operations that had not started wait for the next
\* one; those that ran are failed by the worker maintenance, which writes
\* nothing on the lease; requests, the tick and its memory are gone.
Crash ==
    /\ crashes < MaxCrashes
    /\ crashes' = crashes + 1
    /\ saga' = [l \in Leases |->
                   IF saga[l].pc \in {"none", "attached", "queued", "done"}
                   THEN saga[l] ELSE [NoSaga EXCEPT !.pc = "done"]]
    /\ cleaner' = [l \in Leases |-> [a \in Attempts |->
                   IF cleaner[l][a].pc \in {"absent", "queued", "not_pooled", "done"}
                   THEN cleaner[l][a] ELSE [NoCleaner EXCEPT !.pc = "abandoned"]]]
    /\ call' = [c \in Callers |->
                   IF call[c].pc = "ready" THEN call[c] ELSE Answered(c)]
    /\ sweep' = NoSweep
    /\ reported' = {}
    /\ UNCHANGED <<rows, record, guest, task, lapsed>>

-----------------------------------------------------------------------------
InitialRows ==
    /\ lease \in [Leases -> {[state |-> "requested", link |-> FALSE,
                    attempts |-> 0, cleanup |-> how, expires |-> 0] :
                    how \in {"destroy", "revert"}}]
    /\ record = [l \in Leases |-> [state |-> "none", vmid |-> Nothing,
                    upid |-> FALSE, cloneFailed |-> FALSE]]
    /\ task = [l \in Leases |-> Nothing]
    /\ saga = [l \in Leases |-> NoSaga]
    /\ cleaner = [l \in Leases |-> [a \in Attempts |-> NoCleaner]]
    /\ call = [c \in Callers |-> [pc |-> "ready", lease |-> Nothing,
                                  row |-> Nothing]]
    /\ sweep = NoSweep
    /\ lapsed = {} /\ reported = {} /\ overtaken = {}
    /\ crashes = 0

Init == InitialRows /\ guest = [v \in Vmids |-> Nothing]

SagaStep(l) ==
    \/ Begin(l) \/ Reserve(l) \/ CloneCall(l) \/ Mark(l) \/ BootRecord(l)
    \/ BootLease(l) \/ Wait(l) \/ StrapRead(l) \/ StrapWrite(l) \/ Strap(l)
    \/ Ready(l) \/ SagaErrs(l) \/ FailRecord(l) \/ FailWrite(l)
    \/ CompensateRead(l) \/ CompensateWrite(l) \/ CompensateQueue(l)

CleanerStep(l, a) ==
    \/ CleanStart(l, a) \/ CleanIdentify(l, a) \/ CleanDelete(l, a)
    \/ CleanErrs(l, a) \/ CleanRelease(l, a) \/ CleanFail(l, a)

CallStep(c) == ReleaseWrite(c) \/ RetryWrite(c) \/ ExtendWrite(c) \/ CallQueue(c)

SweepStep(l) ==
    \/ ExpiryScan(l) \/ ExpiryClaim(l)
    \/ StuckRecords(l) \/ StuckLeases(l) \/ StuckMove(l) \/ Abandon(l)
    \/ CleanupQueue(l) \/ CleanupScan(l) \/ CleanupCount(l)
    \/ GuestScan(l) \/ Judge(l)

\* What the worker, the handlers, the sweeper and Proxmox do sooner or later.
\* None of it goes on for ever, so one weak fairness for all of it is enough.
Progress ==
    \/ \E l \in Leases :
           SagaStep(l) \/ CloneLands(l) \/ CloneFails(l) \/ SweepStep(l)
    \/ \E l \in Leases, a \in Attempts : CleanerStep(l, a)
    \/ \E c \in Callers : CallStep(c)

Requests ==
    \/ \E l \in Leases : Provision(l) \/ QueueProvision(l)
    \/ \E c \in Callers, l \in Leases :
           AskRelease(c, l) \/ AskRetry(c, l) \/ AskExtend(c, l)

Next ==
    \/ Progress \/ Requests \/ Crash
    \/ \E l \in Leases : TtlPasses(l)

\* Nobody has to ask for anything, and no deadline has to pass.
Fairness == WF_vars(Progress)

Spec == Init /\ [][Next]_vars
FairSpec == Spec /\ Fairness
=============================================================================
