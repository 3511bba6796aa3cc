------------------------------ MODULE LabPools ------------------------------
(***************************************************************************)
(* Lab leases with pools of prebuilt guests.  A lease whose template       *)
(* version has a pool takes a member of it instead of a clone, and its     *)
(* cleanup rolls the member back to its baseline snapshot, checks it and   *)
(* returns it; a member whose rollback failed, or that a lease keeps, is   *)
(* quarantined.  Everything else in the life of the lease is LabLeases.    *)
(*                                                                         *)
(* A rollback is an operation of its own, found again by its idempotency   *)
(* key: one per attempt of a cleanup, one per member that is filled.  Its  *)
(* Proxmox task goes on by itself and holds the guest's config lock.       *)
(* There is one pool, whose VMIDs are Vmids; `dirt` remembers what ran in  *)
(* a guest since it was last rolled back.  Devices, audio, machine records *)
(* and the node of a member are left out, and so is a failing store.       *)
(***************************************************************************)
EXTENDS LabLeases

CONSTANTS Fillers,    \* the fill operations that can run at a time
          MaxFills    \* bound on the members a fill registers

\* The keys of the cleanups and of the fills never clash.
ASSUME FillAssumption == MaxFills \in Nat /\ "fill" \notin Leases

VARIABLES
    pooled,     \* the leases whose template version has a pool, for good
    member,     \* the pool's row of each VMID
    fills,      \* the members registered so far
    child,      \* the rollback operations, by their key
    rollback,   \* the key whose task rolls the guest of a VMID back
    filler,     \* the member each fill operation is at, and where
    dirt        \* what the guest of a VMID ran since its last rollback

poolVars == <<member, fills, child, rollback, filler, dirt>>
allVars == <<vars, pooled, poolVars>>

-----------------------------------------------------------------------------
Keys == (Leases \X Attempts) \cup ({"fill"} \X (1 .. MaxFills))

NoMember == [state |-> "none", id |-> 0, lease |-> Nothing, draining |-> FALSE]
NoChild == [pc |-> "none", vmid |-> Nothing]
NoFiller == [pc |-> "idle", vmid |-> Nothing, id |-> 0]

BoundTo(l) == {v \in Vmids : member[v].lease = l}
Free(v) == member[v].state = "available" /\ ~member[v].draining

\* A member that leaves its lease or its fill: a drained one leaves the pool.
Leaves(m, state) ==
    IF m.draining THEN NoMember ELSE [m EXCEPT !.state = state, !.lease = Nothing]

-----------------------------------------------------------------------------
\* The saga of a pooled lease: a claim instead of a clone.
PoolBegin(l) ==
    /\ At(l, "queued", IF Awaited(l) THEN "claim" ELSE "fail")
    /\ OnlySaga /\ UNCHANGED poolVars

\* One transaction binds a free member to a lease that is still provisioning
\* and writes its VMID to a record that has none.  The saga runs once, so no
\* member is bound to the lease before.
Claim(l) ==
    /\ saga[l].pc = "claim"
    /\ IF /\ lease[l].state = "provisioning" /\ record[l].state = "provisioning"
          /\ record[l].vmid = Nothing
          /\ \E v \in Vmids : Free(v)
       THEN \E v \in {w \in Vmids : Free(w)} :
                /\ saga' = [saga EXCEPT ![l] =
                                [pc |-> "settle", vmid |-> v, row |-> Nothing]]
                /\ record' = [record EXCEPT ![l].vmid = v]
                /\ member' = [member EXCEPT ![v].state = "leased", ![v].lease = l]
       ELSE At(l, "claim", "fail") /\ UNCHANGED <<record, member>>
    /\ SagaAndRecord /\ UNCHANGED <<fills, child, rollback, filler, dirt>>

\* The start names the VMID alone, some steps after the lease was looked at;
\* a guest that is being rolled back is locked and refuses it.
PoolStart(l) ==
    LET v == saga[l].vmid
        awaited == member[v].lease = l /\ lease[l].state \in InSaga \cup {"ready"}
    IN  /\ At(l, "wait", "agent")
        /\ rollback[v] = Nothing
        /\ dirt' = [dirt EXCEPT ![v] = @ \cup {IF awaited THEN "used" ELSE "stray"}]
        /\ OnlySaga /\ UNCHANGED <<member, fills, child, rollback, filler>>

PoolWait(l) ==
    /\ \/ Written(l, "agent", "strapread", record[l].state)
       \/ At(l, "agent", "fail") /\ UNCHANGED record
    /\ SagaAndRecord /\ UNCHANGED poolVars

-----------------------------------------------------------------------------
\* Mutant: a rollback that ended is taken for one that succeeded.
RevertingEnded(pc, k, v) ==
    CASE pc = "observe" -> {"child", "refused", "fail"}
      [] pc = "child"   -> {"wait"}
      [] pc = "wait"    -> IF child[k].pc \in {"succeeded", "failed"}
                           THEN {"verify"} ELSE {"fail"}
      [] pc = "verify"  -> {"fail", IF rollback[v] = Nothing THEN "reverted"
                                    ELSE "refused"}
      [] OTHER          -> {}

\* revert_member: from one place, the places that can follow.  The guest is
\* looked at, its rollback is asked for and awaited, and the config is read
\* back, which shows the lock of a task that still runs.  A guest that is not
\* the member, a rollback that failed and a config that is not the baseline
\* condemn the member ("refused"); what cannot be read, and a rollback that
\* does not end in time, only the attempt ("fail").
Reverting(pc, k, v) ==
    CASE pc = "observe" -> {"child", "refused", "fail"}
      [] pc = "child"   -> {"wait"}
      [] pc = "wait"    -> CASE child[k].pc = "succeeded" -> {"verify"}
                             [] child[k].pc = "failed"    -> {"refused"}
                             [] OTHER                     -> {"fail"}
      [] pc = "verify"  -> {"fail", IF rollback[v] = Nothing THEN "reverted"
                                    ELSE "refused"}
      [] OTHER          -> {}

\* The child is created, or found again by its key.
Asks(pc, k, v) ==
    child' = IF pc = "child" /\ child[k].pc = "none"
             THEN [child EXCEPT ![k] = [pc |-> "pending", vmid |-> v]] ELSE child

\* The rollback operation.  Its parent claims it, or the worker does.
ChildClaim(k) ==
    /\ child[k].pc = "pending"
    /\ child' = [child EXCEPT ![k].pc = "claimed"]
    /\ UNCHANGED <<vars, member, fills, rollback, filler, dirt>>

\* One operation at a time holds the guest's lock in the controller.  Proxmox
\* refuses a guest another task has locked; the answer to the call may be lost.
ChildPost(k) ==
    LET v == child[k].vmid IN
    /\ child[k].pc = "claimed"
    /\ \A j \in Keys : child[j].pc = "posted" => child[j].vmid # v
    /\ IF rollback[v] = Nothing
       THEN /\ \E pc \in {"posted", "failed"} : child' = [child EXCEPT ![k].pc = pc]
            /\ rollback' = [rollback EXCEPT ![v] = k]
       ELSE child' = [child EXCEPT ![k].pc = "failed"] /\ UNCHANGED rollback
    /\ UNCHANGED <<vars, member, fills, filler, dirt>>

\* A step fails, the status cannot be read, the deadline passes, a cancel.
ChildErrs(k) ==
    /\ child[k].pc \in {"claimed", "posted"}
    /\ child' = [child EXCEPT ![k].pc = "failed"]
    /\ UNCHANGED <<vars, member, fills, rollback, filler, dirt>>

\* The task ends in Proxmox, and the operation that still polls it sees how.
RollbackEnds(v) ==
    LET k == rollback[v] IN
    /\ k # Nothing
    /\ rollback' = [rollback EXCEPT ![v] = Nothing]
    /\ \E ok \in BOOLEAN :
           /\ dirt' = IF ok THEN [dirt EXCEPT ![v] = {}] ELSE dirt
           /\ child' = IF child[k].pc # "posted" THEN child
                       ELSE [child EXCEPT ![k].pc = IF ok THEN "succeeded" ELSE "failed"]
    /\ UNCHANGED <<vars, member, fills, filler>>

-----------------------------------------------------------------------------
\* The cleanup of a pooled lease: cleanup_plan on the lease it read and the
\* member it reads then.  A pool takes only versions whose cleanup is revert.
PoolCleanStart(l, a) ==
    /\ cleaner[l][a].pc = "queued"
    /\ IF lease[l].state # "releasing" THEN Clean(l, a, "queued", "done")
       ELSE cleaner' = [cleaner EXCEPT ![l][a] =
                           [pc |-> "plan", row |-> lease[l], sure |-> FALSE]]
    /\ OnlyCleaner /\ UNCHANGED poolVars

PoolPlan(l, a) ==
    LET keep == cleaner[l][a].row.cleanup = "keep"
        bound == BoundTo(l) # {}
    IN  /\ cleaner[l][a].pc = "plan"
        /\ \/ keep /\ bound /\ Clean(l, a, "plan", "keep")
           \/ keep /\ ~bound /\ Clean(l, a, "plan", "release")
           \/ ~keep /\ bound /\ Clean(l, a, "plan", "observe")
           \/ ~keep /\ ~bound /\ Clean(l, a, "plan", "not_pooled")
           \/ Clean(l, a, "plan", "fail")
        /\ OnlyCleaner /\ UNCHANGED poolVars

PoolRevert(l, a) ==
    LET pc == cleaner[l][a].pc
        v == record[l].vmid
    IN  /\ \E next \in Reverting(pc, <<l, a>>, v) : Clean(l, a, pc, next)
        /\ Asks(pc, <<l, a>>, v)
        /\ OnlyCleaner /\ UNCHANGED <<member, fills, rollback, filler, dirt>>

\* quarantine_bound: the member stays bound, so the lease still owes a revert.
PoolQuarantine(l, a) ==
    /\ Clean(l, a, "refused", "fail")
    /\ member' = [v \in Vmids |-> IF member[v].lease = l
                     THEN [member[v] EXCEPT !.state = "quarantined"] ELSE member[v]]
    /\ OnlyCleaner /\ UNCHANGED <<fills, child, rollback, filler, dirt>>

\* release_lease of the pool: one transaction lets the member go and releases
\* the lease, if both are still as they were.
PoolRelease(l, a) ==
    LET pc == cleaner[l][a].pc
        state == IF pc = "keep" THEN "quarantined" ELSE "available"
    IN  /\ pc \in {"keep", "reverted"}
        /\ IF BoundTo(l) # {} /\ lease[l].state = "releasing"
           THEN /\ Clean(l, a, pc, "done")
                /\ Move(l, [lease[l] EXCEPT !.state = "released"])
                /\ member' = [v \in Vmids |-> IF member[v].lease = l
                                 THEN Leaves(member[v], state) ELSE member[v]]
           ELSE Clean(l, a, pc, "fail") /\ UNCHANGED <<rows, member>>
        /\ CleanerAndLease /\ UNCHANGED <<lapsed, fills, child, rollback, filler, dirt>>

-----------------------------------------------------------------------------
\* Fill and drain.  A fill registers a guest nothing is known about, as a new
\* member; an operation queued then or later takes the members one by one.
FillRequest(v) ==
    /\ member[v].state = "none" /\ fills < MaxFills
    /\ fills' = fills + 1
    /\ member' = [member EXCEPT ![v] = [NoMember EXCEPT !.state = "filling",
                                                        !.id = fills + 1]]
    /\ dirt' = [dirt EXCEPT ![v] = {"used"}]
    /\ UNCHANGED <<vars, child, rollback, filler>>

FillStart(f, v) ==
    /\ filler[f].pc = "idle" /\ member[v].state = "filling"
    /\ filler' = [filler EXCEPT ![f] =
                     [pc |-> IF member[v].draining THEN "refused" ELSE "observe",
                      vmid |-> v, id |-> member[v].id]]
    /\ UNCHANGED <<vars, member, fills, child, rollback, dirt>>

\* A member whose audio device is not the template's is refused as well; an
\* undecided one stays filling.
FillRevert(f) ==
    LET pc == filler[f].pc
        k == <<"fill", filler[f].id>>
        wrong == IF pc = "verify" THEN {"refused"} ELSE {}
    IN  /\ \E next \in Reverting(pc, k, filler[f].vmid) \cup wrong :
               filler' = IF next = "fail" THEN [filler EXCEPT ![f] = NoFiller]
                         ELSE [filler EXCEPT ![f].pc = next]
        /\ Asks(pc, k, filler[f].vmid)
        /\ UNCHANGED <<vars, member, fills, rollback, dirt>>

\* finish_fill: the member, unless another fill or a drain ended its filling.
FillFinish(f) ==
    LET v == filler[f].vmid
        state == IF filler[f].pc = "reverted" THEN "available" ELSE "quarantined"
    IN  /\ filler[f].pc \in {"refused", "reverted"}
        /\ filler' = [filler EXCEPT ![f] = NoFiller]
        /\ member' = IF member[v].id = filler[f].id /\ member[v].state = "filling"
                     THEN [member EXCEPT ![v] = Leaves(@, state)] ELSE member
        /\ UNCHANGED <<vars, fills, child, rollback, dirt>>

\* Mutant: a drain takes a member from its lease.
DrainBound(v) ==
    /\ member[v].state # "none"
    /\ member' = IF member[v].state = "filling"
                 THEN [member EXCEPT ![v].draining = TRUE]
                 ELSE [member EXCEPT ![v] = NoMember]
    /\ UNCHANGED <<vars, fills, child, rollback, filler, dirt>>

\* A bound or a filling member leaves when that ends, any other at once.
Drain(v) ==
    /\ member[v].state # "none"
    /\ member' = IF member[v].lease # Nothing \/ member[v].state = "filling"
                 THEN [member EXCEPT ![v].draining = TRUE]
                 ELSE [member EXCEPT ![v] = NoMember]
    /\ UNCHANGED <<vars, fills, child, rollback, filler, dirt>>

\* What ran is failed by the worker maintenance; the tasks of Proxmox go on.
PoolCrash ==
    /\ Crash
    /\ child' = [k \in Keys |-> IF child[k].pc \in {"claimed", "posted"}
                                THEN [child[k] EXCEPT !.pc = "failed"] ELSE child[k]]
    /\ filler' = [f \in Fillers |-> NoFiller]
    /\ UNCHANGED <<member, fills, rollback, dirt>>

-----------------------------------------------------------------------------
PoolInit ==
    /\ InitialRows
    /\ pooled \in SUBSET {l \in Leases : lease[l].cleanup = "revert"}
    /\ guest = [v \in Vmids |-> IF pooled = {} THEN Nothing ELSE Stranger]
    /\ member = [v \in Vmids |-> NoMember]
    /\ fills = 0
    /\ child = [k \in Keys |-> NoChild]
    /\ rollback = [v \in Vmids |-> Nothing]
    /\ filler = [f \in Fillers |-> NoFiller]
    /\ dirt = [v \in Vmids |-> {}]

\* The steps a pooled lease shares with every other.
SharedStep(l) ==
    \/ saga[l].pc = "settle" /\ Boot(l)
    \/ BootLease(l) \/ StrapRead(l) \/ StrapWrite(l) \/ Strap(l) \/ Ready(l)
    \/ SagaErrs(l) \/ FailRecord(l) \/ FailWrite(l) \/ CompensateRead(l)
    \/ CompensateWrite(l) \/ CompensateQueue(l)
    \/ \E a \in Attempts : CleanRelease(l, a) \/ CleanFail(l, a)

LeaseStep ==
    /\ \/ \E l \in Leases \ pooled : SagaStep(l)
       \/ \E l \in Leases \ pooled, a \in Attempts : CleanerStep(l, a)
       \/ \E l \in pooled : SharedStep(l)
       \/ \E l \in Leases : CloneLands(l) \/ CloneFails(l) \/ SweepStep(l)
       \/ \E c \in Callers : CallStep(c)
    /\ UNCHANGED poolVars

PoolStep(l) ==
    \/ PoolBegin(l) \/ Claim(l) \/ PoolStart(l) \/ PoolWait(l)
    \/ \E a \in Attempts :
           \/ PoolCleanStart(l, a) \/ PoolPlan(l, a) \/ PoolRevert(l, a)
           \/ PoolQuarantine(l, a) \/ PoolRelease(l, a)

ChildStep(k) == ChildClaim(k) \/ ChildPost(k) \/ ChildErrs(k)

\* As in LabLeases, none of this goes on for ever.
PoolProgress ==
    \/ LeaseStep
    \/ \E l \in pooled : PoolStep(l)
    \/ \E k \in Keys : ChildStep(k)
    \/ \E v \in Vmids : RollbackEnds(v)

FillStep(f) == FillRevert(f) \/ FillFinish(f)

PoolNext ==
    /\ \/ PoolProgress
       \/ \E f \in Fillers : FillStep(f)
       \/ Requests /\ UNCHANGED poolVars
       \/ (\E l \in Leases : TtlPasses(l)) /\ UNCHANGED poolVars
       \/ PoolCrash
       \/ \E v \in Vmids : FillRequest(v) \/ Drain(v)
       \/ \E f \in Fillers, v \in Vmids : FillStart(f, v)
    /\ UNCHANGED pooled

PoolFairness ==
    /\ WF_allVars(PoolProgress /\ UNCHANGED pooled)
    /\ \A f \in Fillers : WF_allVars(FillStep(f) /\ UNCHANGED pooled)

PoolSpec == PoolInit /\ [][PoolNext]_allVars /\ PoolFairness
=============================================================================
