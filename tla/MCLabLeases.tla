---------------------------- MODULE MCLabLeases ----------------------------
(***************************************************************************)
(* Five small worlds for Lab leases, with two leases and one VMID.         *)
(*   OneLife      one lease with a clone lives its whole life, with one    *)
(*                API request and one crash at any moment; the other was   *)
(*                released long ago;                                       *)
(*   LateCleanup  the saga of l1 has failed and its cleanup is still owed, *)
(*                while l2 is provisioned on the only VMID; nobody calls   *)
(*                and nothing crashes;                                     *)
(*   PooledLife   a ready lease on a member of a pool, which may be        *)
(*                drained, with one API request and one crash;             *)
(*   PooledPair   the same lease, while l2 waits for the only member: its  *)
(*                claim, its start, its failure and its own cleanup;       *)
(*   Filling      a pool is filled by two operations, drained and filled   *)
(*                again, across a crash; no lease lives.                   *)
(***************************************************************************)
EXTENDS LabPoolsProps

CONSTANTS l1, l2, v1

Fresh == [state |-> "requested", link |-> FALSE, attempts |-> 0,
          cleanup |-> "destroy", expires |-> 0]
Over == [Fresh EXCEPT !.state = "released"]
NoRecord == [state |-> "none", vmid |-> Nothing, upid |-> FALSE,
             cloneFailed |-> FALSE]
Pair(x, y) == [l \in Leases |-> IF l = l1 THEN x ELSE y]
Pooled(row) == [row EXCEPT !.cleanup = "revert"]
Quiet == call = [c \in Callers |-> Answered(c)]
Asking == call = [c \in Callers |-> [pc |-> "ready", lease |-> Nothing,
                                     row |-> Nothing]]
SagaOver == [NoSaga EXCEPT !.pc = "done"]
NoTask == task = Pair(Nothing, Nothing)
NoPool ==
    /\ pooled = {} /\ member = [v \in Vmids |-> NoMember] /\ fills = MaxFills
OnePool ==
    /\ guest = [v \in Vmids |-> Stranger]
    /\ member = [v \in Vmids |-> [NoMember EXCEPT !.state = "leased", !.lease = l1]]
    /\ fills = MaxFills

\* What a failed saga can leave: a clone call whose answer was lost, a guest
\* that stands, a guest that was removed by hand.
Left ==
    {[upid |-> FALSE, task |-> v1, guest |-> Nothing],
     [upid |-> TRUE, task |-> Nothing, guest |-> l1],
     [upid |-> TRUE, task |-> Nothing, guest |-> Nothing]}

OneLife ==
    /\ lease = Pair(Fresh, Over)
    /\ record = Pair(NoRecord, NoRecord)
    /\ guest = [v \in Vmids |-> Nothing]
    /\ NoTask /\ saga = Pair(NoSaga, SagaOver)
    /\ Asking /\ NoPool /\ crashes = 0

LateCleanup ==
    \E left \in Left, how \in {"destroy", "revert"} :
        /\ lease = Pair([Fresh EXCEPT !.state = "releasing", !.link = TRUE,
                                      !.cleanup = how], Fresh)
        /\ record = Pair([state |-> "never_ready", vmid |-> v1,
                          upid |-> left.upid, cloneFailed |-> ~left.upid],
                         NoRecord)
        /\ guest = [v \in Vmids |-> left.guest]
        /\ task = Pair(left.task, Nothing)
        /\ saga = Pair(SagaOver, NoSaga)
        /\ Quiet /\ NoPool /\ crashes = MaxCrashes

OnMember == Pooled([Fresh EXCEPT !.state = "ready", !.link = TRUE, !.expires = 1])
MemberRecord == [NoRecord EXCEPT !.state = "ready", !.vmid = v1]

PooledLife ==
    /\ lease = Pair(OnMember, Over) /\ pooled = {l1}
    /\ record = Pair(MemberRecord, NoRecord)
    /\ NoTask /\ saga = Pair(SagaOver, SagaOver)
    /\ Asking /\ OnePool /\ crashes = 0

PooledPair ==
    /\ lease = Pair(OnMember,
                    Pooled([Fresh EXCEPT !.state = "provisioning", !.link = TRUE]))
    /\ pooled = {l1, l2}
    /\ record = Pair(MemberRecord, [NoRecord EXCEPT !.state = "provisioning"])
    /\ NoTask /\ saga = Pair(SagaOver, [NoSaga EXCEPT !.pc = "queued"])
    /\ Quiet /\ OnePool /\ crashes = MaxCrashes

Filling ==
    /\ lease = Pair(Over, Over) /\ pooled = {}
    /\ record = Pair(NoRecord, NoRecord)
    /\ guest = [v \in Vmids |-> Stranger]
    /\ NoTask /\ saga = Pair(SagaOver, SagaOver)
    /\ member = [v \in Vmids |-> NoMember] /\ fills = 0
    /\ Quiet /\ crashes = 0

MCInit ==
    /\ OneLife \/ LateCleanup \/ PooledLife \/ PooledPair \/ Filling
    /\ cleaner = [l \in Leases |-> [a \in Attempts |-> NoCleaner]]
    /\ sweep = NoSweep
    /\ lapsed = {} /\ reported = {} /\ overtaken = {}
    /\ child = [k \in Keys |-> NoChild]
    /\ rollback = [v \in Vmids |-> Nothing]
    /\ filler = [f \in Fillers |-> NoFiller]
    /\ dirt = [v \in Vmids |-> IF member[v].lease = l1 THEN {"used"} ELSE {}]

MCSpec == MCInit /\ [][PoolNext]_allVars /\ PoolFairness
=============================================================================
