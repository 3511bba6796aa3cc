--------------------------- MODULE LabLeasesProps ---------------------------
(***************************************************************************)
(* What a lab lease promises.  Where a property excepts the overtaken      *)
(* leases, a write that compared nothing has replaced a row its writer had *)
(* not read, and the promise is known to be lost (README, section 12).     *)
(***************************************************************************)
EXTENDS LabLeases

Copies == Rows \cup {Nothing}

\* Where a saga, a cleanup operation, a request and the sweeper can be, the
\* places of a pooled lease included.
SagaPcs == {"none", "attached", "queued", "reserve", "clone", "mark", "settle",
            "bootlease", "wait", "strapread", "strapwrite", "strap", "ready", "fail",
            "failwrite", "compensate", "compwrite", "compqueue", "done"}
           \cup {"claim", "agent"}
CleanerPcs == {"absent", "queued", "identify", "delete", "release", "fail", "done",
               "not_pooled", "abandoned"}
              \cup {"plan", "keep", "observe", "child", "wait", "verify", "refused",
                    "reverted"}
CallPcs == {"ready", "release", "keep", "retry", "extend", "queue", "done"}
SweepPcs == {"idle", "claim", "stuck", "move", "count", "judge"}

Sagas == [pc : SagaPcs, vmid : Vmids \cup {Nothing}, row : Copies]
Cleaners == [pc : CleanerPcs, row : Copies, sure : BOOLEAN]
Calls == [pc : CallPcs, lease : Leases \cup {Nothing}, row : Copies]
Sweeps == [pc : SweepPcs, lease : Leases \cup {Nothing}, row : Copies,
           seen : Vmids \cup {Nothing, "releasing", "failed"}]

\* Every variable has its type.
TypeOK ==
    /\ lease \in [Leases -> Rows]
    /\ record \in [Leases -> Records]
    /\ guest \in [Vmids -> Leases \cup {Nothing, Stranger}]
    /\ task \in [Leases -> Vmids \cup {Nothing}]
    /\ saga \in [Leases -> Sagas]
    /\ cleaner \in [Leases -> [Attempts -> Cleaners]]
    /\ call \in [Callers -> Calls]
    /\ sweep \in Sweeps
    /\ lapsed \subseteq Leases
    /\ reported \subseteq Vmids /\ overtaken \subseteq Leases
    /\ crashes \in 0 .. MaxCrashes

\* A lease is ready only with a record that is ready: the readiness
\* transaction refuses a record that the sweeper or a failure has ended, even
\* when a blind write has put the lease back into the saga.
ReadyLeaseHasReadyRecord ==
    \A l \in Leases : lease[l].state = "ready" =>
        record[l].state = "ready" /\ lease[l].link

\* The guest of a ready lease stands at the VMID of its record: no cleanup
\* has destroyed it and no other lease has cloned over it.  (The guests of a
\* pool are named after no record.)
ReadyLeaseOwnsItsGuest ==
    \A l \in Leases \ overtaken :
        lease[l].state = "ready" => guest[record[l].vmid] \in {l, Stranger}

\* A cleanup never deletes a guest another lease still answers for, although
\* the delete names a VMID that was checked a step earlier: what it deletes is
\* its own, or the late clone of a failed saga whose lease was released.
NoForeignGuestDestroyed ==
    [][\A v \in Vmids, l \in Leases, a \in Attempts :
          /\ cleaner[l][a].pc = "delete" /\ cleaner'[l][a].pc = "release"
          /\ guest[v] # Nothing /\ guest'[v] = Nothing
          => \/ guest[v] = l
             \/ /\ guest[v] \in Leases
                /\ record[guest[v]].state = "never_ready"
                /\ lease[guest[v]].state = "released" \/ guest[v] \in overtaken]_vars

\* The failed attempts of a lease are never counted back: the count names the
\* next cleanup operation, and a name that was used queues nothing.
AttemptsNeverGoBack ==
    [][\A l \in Leases :
          l \in overtaken' \/ lease'[l].attempts >= lease[l].attempts]_vars

\* The expiry sweep releases a lease only while its deadline has passed: an
\* extension that landed after the scan wins.
ExtensionWins ==
    [][\A l \in Leases :
          (/\ sweep.pc = "claim" /\ sweep.lease = l /\ sweep' # sweep
           /\ lease[l].state = "ready" /\ lease'[l].state = "releasing") =>
              l \in lapsed]_vars

\* A cleanup that found nothing to revert left the lease to its operator.
Refused(l) == /\ lease[l].state = "releasing"
              /\ cleaner[l][lease[l].attempts].pc = "not_pooled"

\* A lease rests where nothing is owed: with no record in flight to hold a
\* VMID, and never failed while it still holds a guest.
Settled(l) ==
    /\ lease[l].state \in Terminal \cup {"requested", "ready"} \/ Refused(l)
    /\ lease[l].state = "failed" => ~Allocated(lease[l], record[l].vmid)
    /\ ~ToAbandon(l)

\* Whatever crashes and calls happen, every lease comes to rest: by its saga,
\* its compensation, its cleanup or the sweeper.
LeasesSettle == <>[](\A l \in Leases \ overtaken : Settled(l))

\* A guest no lease answers for is reported by the sweeper.
OrphansReported ==
    <>[](\A v \in Vmids : guest[v] \in Leases =>
            GuestOwned(guest[v], v) \/ v \in reported)

\* A releasing lease that its operator asked to keep is released: the way out
\* that the refusal of a cleanup names.
KeepReleases ==
    \A l \in Leases :
        lease[l].state = "releasing" /\ lease[l].cleanup = "keep" ~>
            lease[l].state # "releasing" \/ l \in overtaken
=============================================================================
