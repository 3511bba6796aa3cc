# Fleet Manager in TLA+

Fleet Manager is a controller for development machines: one Rust process over
one SQLite file, node agents (`fleetd`) that call in over a web socket, and
provider adapters that drive external services. This directory holds TLA+
modules of its core state machines, TLC configurations that check them on small
instances, and TLAPS proofs of the properties that matter most.

Paths below are relative to `src/crates/` unless they start with `docs/`.

## 1. Inventory

The controller process runs one tokio runtime. All durable state is in SQLite
(`docs/adr/0007`): statements of different tasks interleave freely, a statement
(or a `BEGIN IMMEDIATE` transaction) is atomic, and everything in memory is lost
when the process ends. Most hazards come from exactly three things: a row read
in one statement and written in a later one, a task that dies or is aborted
between two statements, and work outside the process whose outcome is unknown.

| Component | State it keeps | Operations | Interacts with | What is hard, and what makes it correct |
|---|---|---|---|---|
| **Operation queue and worker host** (`fleet-storage-sqlite/operations.rs`, `fleet-application/worker.rs`, `operation.rs`, `fleet-controller/worker.rs`, `fleet-core/operation.rs`) | the `operations` table; the host's in-flight map and permits; a task and a heartbeat per claim | create, claim, claim by id, renew, recover, sweep deadlines, cancel, complete, drain | everything that is not a plain read goes through it | claims race, leases expire under live tasks, completion and cancellation read before they write, a crash at any point. *Nothing runs twice; a live claim is not failed; every operation settles; resolved work stays resolved.* |
| **Action broker** (`fleet-application/broker.rs`, `fleet-storage-sqlite/action_requests.rs`, `fleet-core/action_request.rs`, `persistent_request.rs`) | the `action_requests` table; policy and permissions fixed at start-up | create, replay, approve, deny, read (expire, recover, sync), abandon | creates operations and follows them | concurrent deciders, lazy expiry, a crash between decision, operation and link, policy changed by a restart, a quota counted over several statements. *Decided once; nothing done unapproved; recovered, not orphaned.* |
| **Lab leases and provisions** (`lab.rs` in core, application and storage, `lab_sweeper.rs`, `lab_cleanup.rs`) | `lab_leases`, `lab_provisions` | request, provision saga, ready, extend, release, keep, expire, cleanup with bounded retries, re-arm | operations, hypervisor, USB reservations | conditional and unconditional writes on one row, sagas running on stale copies, hypervisor tasks of unknown outcome. *A guest is owned or reported, a VMID has one holder, owed cleanup is not forgotten.* |
| **Lab placement, pools, build addresses** | capacity, pool members, address holds | place, claim a member, allocate and quarantine an address | leases, images | immediate transactions against each other. *No over-allocation, no member leased twice.* |
| **Node gateway and command channel** (`fleet-controller/gateway.rs`) | registry of sessions, waiters and in-flight counter per session | serve a session, dispatch, route a result, time out, supersede, mark stale | operations, node agent | at-least-once delivery, superseded sessions, late results, a counter given back twice. *A command's result reaches its own operation; slots are conserved.* |
| **Node agent** (`fleetd/journal.rs`, `commands.rs`) | a journal file and its index | accept, execute, record, replay, compact, reopen | gateway | duplicate delivery on concurrent tasks, crash between accept and result, torn tail, compaction. *A journalled command never runs again.* |
| **Node identity** (`node.rs`, `nodes.rs`) | enrollment tokens, credentials, challenges, sessions | enroll, challenge, prove, rotate, revoke, rebind | gateway | single-use tokens and challenges under concurrent use. *Nothing revoked opens a session.* |
| **Desired source** (`source.rs`, `source_poller.rs`) | candidates, active revision, auto-activation hold | fetch, activate, auto-activate, roll back | registry, projects | verification before a serialized switch; a rollback racing the poller. *Only a fetched valid revision is active; a rollback is not undone by a poll.* |
| **USB reservations** (`hardware*.rs`, `machine_usb.rs`) | devices, reservations | reserve, attach, detach, release, quarantine, override, reconcile | leases, machines, hypervisor | each step may fail or be interrupted, the hypervisor is changed by hand. *A device is never free while a guest refers to it; only Fleet's own entry is deleted.* |
| **Audit ledger** (`audit.rs`) | append-only intents and outcomes | record, attach an outcome | every mutation | ordering of intent and effect. *No effect without its intent.* |
| **Authorization** (`authz.rs`) | none (static tables) | decide | everything | a pure function. |
| **Apply and ready workflows** (`apply.rs`, `ready.rs`) | operation rows of their steps | create and claim inner operations by id | operations | a step cancelled, recovered or aborted under its parent. |
| **Persistent machines** (`persistent_machines.rs`) | machine requests, saga records | create, resume, delete | broker, operations, hypervisor | hypervisor task ids polled across restarts. |
| **Proxmox executors, image builds** | operation rows, task links | run, poll, clean up | hypervisor, Packer | outcome of an external task unknown after a crash. |
| **Access, terminals, consoles** | in-memory single-use sessions | issue, redeem, expire | machines | redeem against expiry and removal. |
| **Machines, removal, onboarding** | machine rows with revisions, drafts | register, update, remove | gateway, leases | removal against a connecting node. |
| **Projects, skills, catalogue** | declared resources | register, render | source | mostly validation. |
| **Registry, DNS, Coolify, external accounts** | observations | refresh, compare | external services | staleness only. |
| **Event hub** | bounded fan-out | publish, subscribe | console | best effort by design. |
| **Protocol, API, CLI, console, secrets, configuration** | none, or encrypted blobs | parse, render, encrypt | all | pure I/O and conversion. |

`PROJECT.json` lists the same components with their sources and the hazards at
their lines.

## 2. The modules

| Component | Specification | Properties | Instance for TLC | Proofs |
|---|---|---|---|---|
| queue and worker host | `Operations` (on `OperationStates`), with `OperationRecord` as what it implements | `OperationsProps`, `OperationsLive` | `MCOperations` | `OperationsProofs` |
| action broker | `ActionBroker`, implementing `ActionRecord` | `ActionBrokerProps` | `MCActionBroker` | `ActionBrokerProofs` |
| node gateway | `NodeGateway` | `NodeGatewayProps` | `MCNodeGateway` | `NodeGatewayProofs` |
| node agent | `NodeJournal` | `NodeJournalProps` | (none needed) | `NodeJournalProofs` |
| lab leases | `LabLeases` | `LabLeasesProps` | `MCLabLeases` | `LabLeasesProofs` |
| lab pools | `LabPools` (on `LabLeases`) | `LabPoolsProps` | `MCLabLeases` | `LabLeasesProofs` |
| node identity | `NodeIdentity` | `NodeIdentityProps` | `MCNodeIdentity` | `NodeIdentityProofs` |
| desired source | `DesiredSource` | `DesiredSourceProps` | `MCDesiredSource` | `DesiredSourceProofs` |
| USB reservations | `UsbReservations` | `UsbReservationsProps` | `MCUsbReservations` | `UsbReservationsProofs` |

A specification holds the state, the actions and the fairness; its `Props` module
states what it promises; an `MC` module gives the constants values and, where the
full product of everything is too large for TLC, splits it into *worlds*: a
constant of the behaviour that says which part of the environment is awake. The
specification itself, and with it every theorem, is not restricted by a world.

The components meet at rows of SQLite. Where one reads another's rows the model
of the reader takes what it reads as the other module leaves it: the broker sees
an operation as `Operations` allows it to move (including the return of a
resolved one), the gateway's dispatches are executors of the queue, USB
reservations see a lease move as `LabLeases` moves it, the identity rows are what
the gateway validates.

What is left, in order: the provision's placement and capacity (one transaction
each), the persistent machines' saga and its quota guard, image builds and their
addresses, the apply and ready workflows over `Operations`.

## 3. Operations: the queue and the worker host

`Operations.tla` models the `operations` table (one variable per column that
control depends on: `state`, `cancelRequested`, `deadlineAt`, `claimedAt`,
`workerId`) and everything that reads and writes it at once. One action is one
SQL statement, or one immediate transaction, with the in-memory work up to the
next await.

| Code | Model |
|---|---|
| the state enum and `can_transition` (`fleet-core/operation.rs`) | `OperationStates`: `OperationState`, `Successors`, `CanTransition` |
| `create` | `Create`, ids in `created_at` order |
| the host's loop (`WorkerHost::run`): reap, tick, maintain, permit, claim, spawn | `HostReap`, `HostTick`, `HostRecover`, `HostFindOverdue`, `HostSweepRead`, `HostSweepWrite`, `HostAcquire`, `HostClaim`, `HostClaimNone`, `HostSpawn`, sequenced by `hostPc` |
| shutdown: cancel each in-flight task, grace, abort | `HostShutdown`, `HostDrainNext`, `HostDrained`, `HostStop`, `HostAbort` |
| the cancel route: read, then the store's read, flag, re-read, write | `CancelBegin`, `CancelGet`, `CancelFlag`, `CancelReread`, `CancelWrite` |
| `execute_claimed` in a spawned task | `TaskStart`, `TaskStop`, `TaskStopWrite`, `TaskResolve`, `TaskWrite`; what an executor may do is `ExecutorComplete`, `ExecutorError`, `ExecutorPanic` |
| the heartbeat task | `BeatClock`, `BeatRenew` |
| `claim_only_execute`, used by executors for inner steps | `InlineClaim` |
| the process ends, another starts over the same file | `Restart` |

`transition` and `complete` each become two actions because the code reads the
row, validates, and then writes by id alone; the finding comes
from that gap. A tick's clock (`tickNow`) is read once and used by all its
statements, as in the code; a heartbeat reads its own (`beatNow`). The worker id
is a fresh UUID per process, so `boot` stands for it.

Executors are external to this module: one reports success, failure, a manual
block, a cancellation once it has seen the flag, an error, or panics. `starts`
and `askedPending` are history.

Not modelled: progress and result payloads, audit rows and events, the replay of
a create with a used idempotency key (it returns the row and writes nothing),
statements that fail, and the single-process `tick` helper, which strings the
same statements together.

### What the runs show

| Run | Properties | Instance |
|---|---|---|
| `OperationsRaces` | `ExecutedOnce`, `ActiveBound`, `FlaggedPendingNeverQueued`, `DrainAsksEveryTask`, `RecoveryRespectsLease`, `ImplementsRecord` | world *Races*: one operation, with or without a deadline, claimable by id as well; one canceller; lease 1 on a clock to 3; two boots; panics. World *Host*: two operations, one claimable by id; one permit; one canceller; two boots; no clock, no deadlines, no panics |
| `OperationsSettle` | `EveryOperationSettles` | one operation, one canceller, two boots, fair, clock without end; neither panics nor claims by id (with claims by id it was checked once, 0.9 million states) |
| `OperationsTerminal` | `TerminalIsFinal` violated | the smallest instance that shows it |

- **ExecutedOnce.** "Nothing auto-retries" (`fleet-application/worker.rs`): over
  the queue's claim, claims by id, recovery, sweeps and crashes the executor of
  an operation is started at most once.
- **RecoveryRespectsLease.** At the write that fails a claim, the row's claim is
  older than the lease by the tick's clock, although a heartbeat may have landed
  since the select. The compare on `claimed_at` is what makes it so.
- **ImplementsRecord.** The system, seen per row, implements `OperationRecord`:
  accepted, claimed once, run once and only after its claim, resolved; a
  cancellation request is never forgotten. The abstract specification also says
  exactly what the store does not keep: a resolved row may come back to life, but
  only one that was claimed and was asked to cancel.
- **ActiveBound**, **FlaggedPendingNeverQueued**, **DrainAsksEveryTask** relate
  the loop's own counts and lists to what tasks and cancellers do meanwhile.
- **EveryOperationSettles.** Accepted work reaches a terminal state through its
  executor, a deadline, or lease expiry after its process died.

### Bounds

One operation suffices for properties of a row, because rows interact only
through the permit and the order of claims; those are what the world *Host* is
for. One canceller besides the drain gives two cancels of one row at once.
`Lease = 1` on a clock to 3 lets a claim be made, renewed, expire and be selected
while a renewal is in flight. Two boots give one crash or shutdown at any point
and a full life after it. The counters `MaxTime`, `MaxBoots` and `NumOps` appear
in guards, so the models stop at their bounds; the real system may also stop (a
host that was shut down), so deadlock is not checked.

For liveness a clock that ends would make the program stop being fair to
anything timed. `OperationsLive` therefore keeps the clock at `MaxTime` and lets
`Age` make every stored timestamp one tick older instead, with 0 standing for
"long ago": the code only compares timestamps with one another. `MaxStall`
bounds how old a clock value may be when the statement it was read for runs; it
stands for SQLite's busy timeout, which is well inside the lease. The assumption
`LiveAssumption` states when the quotient tells all timestamps in use apart.

### Fairness

`Fairness` assumes weak fairness of the host's loop (a tokio interval), of each
task and each heartbeat once it is spawned (tokio polls what is ready), of each
cancel call, of time, and of starting the process again after a shutdown. An
executor is assumed to return some day: the architecture asks a deadline of every
remote and provider call (`docs/architecture/overview.md:118`), and the run assumes
it rather than derives it. Nothing obliges a crash, a panic, a cancel or a claim by id. Strong
fairness is not needed: while a pending row can be claimed, the loop's next step
is always enabled.

## 4. ActionBroker: durable approvals

`ActionBroker.tla` models the `action_requests` table and the API calls over it
for `proxmox.machine.create`, the action with every feature: operator override,
bounds with a per-principal quota, and a permission of its own for the approver.
A call (`call[c]`) reads the clock once on arrival and then goes statement by
statement:

| Code | Model |
|---|---|
| `create`: replay by key, classify, insert | `Begin`, `Lookup`, `Count`, `Insert`, `Made` |
| `count_for`: one statement per quota state, with its own clock | `QuotaStates`, `Counted`, `Tally`, `Count` |
| `approve`, `deny` and reads: load, reconcile, check, decide | `Load`, `PolicyDeny`, `Decide` |
| `reconcile` | `Due`, then `Expire`, `Find` or `Operation` |
| `start`: find the operation, recheck, create, link | `Find`, `Recheck`, `Count` (the recount), `Open`, `OpenFails`, `Link`, `Fail` |
| sync with the operation | `Operation`, `Succeed`, `End` |
| `abandon` by a provider that cannot go on | `Abandon` |
| the store's compare-and-set | `Transition` |
| the operation queue, seen from here | `OperationMoves` (external to this module; a resolved operation may come back, as Operations shows) |
| another process with another policy | `Restart` |

Abstractions: a request is its (requester, key) pair, and all of one model
belong to one requester, since the quota is per principal. `mayApprove` merges
`action.approve` with the action's approver permission; the two are asked before
and after the reconcile, so a refused approver may or may not trigger it
(`Load`). `action.deny` is not revocable here. The executing operation's own
permission check is not repeated on the brokered path, and operations are never
deleted, so the branches for a refused or missing operation are unreachable.
Parameter validation and comparison, notes and audit rows are left out; an audit
row commits in its statement's transaction. A listing is several reads with one
clock.

### What the runs show

| Run | Properties | Instance |
|---|---|---|
| `BrokerDecisions` | `QuotaKept`, `ImplementsRecord`, `OpenedUnderCurrentPolicy`, `Recovery` | world *Decisions*: one request, two concurrent calls, one approver, a deadline that passes, one restart into any policy and permissions. World *Quota*: two requests, two calls, quota 1, one boot, policy auto, nobody decides in person. World *Recovers*: one request, one call at a time, a clock to 2, one restart, fair |

- **ImplementsRecord.** The table and the operations implement `ActionRecord`:
  decided once, nothing opened before approval, refused means never opened,
  running only over its operation.
- **OpenedUnderCurrentPolicy.** However old the approval and whatever other calls
  do, an operation is opened only under a policy that allows it now and on behalf
  of people who still may.
- **QuotaKept.** The quota bounds what runs without a person. It holds because the
  four states are counted in the order a request passes through them and because a
  request counts itself as approved before it recounts; counting backwards breaks
  it. Requests in excess end failed, they never run.
- **Recovery** (`StrandedApprovalRecovers` in the world *Recovers*). An approval whose process died before the operation
  was created or linked does not stay approved.

Two calls at once are the smallest number that race; two requests are the
smallest that overrun a quota of one. `Ttl = 1` and `Grace = 0` put the deadline
and the recovery inside the clock. In *Recovers* the premise asks that the
grace end before the bounded clock does. Its fairness: a call that arrived goes
on; reads keep coming (the console polls its inbox; strong fairness because a
crash may take a read away again and again); and the operation store answers once
in a while (strong fairness of `Open`, against `OpenFails`).

## 5. NodeGateway: sessions and commands

`NodeGateway.tla` models the gateway for one machine; nothing in its maps crosses
machines. Every task is a process of its own: the loops that serve sessions, the
staleness sweeper, the executors that dispatch, the removal of the machine.

| Code (`fleet-controller/gateway.rs`) | Model |
|---|---|
| a connection: validate, hello, register, welcome, loop, end | `Connect`, `Negotiate`, `Register`, `Welcome`, `Heartbeat`, `Disconnect`, `TakeSupersede`, `Finish` |
| `persist_transition`: compare the session's own note, then write the row | `Mark`, `Write` |
| the sweeper: find, mark, write | `SweepFind`, `SweepMark`, `SweepWrite` |
| `execute_node`: look up, claim a slot, enqueue, wait, release | `Lookup`, `ClaimSlot`, `Enqueue`, `TimeOut`, `Release` |
| the loop's result branch | `RouteResult` |
| the node and the socket | `NodeActs`, `GoQuiet`, `CloseSession` (external) |
| removal of the machine | `DeleteMachine` |

The in-flight counter is an unsigned number that wraps (`Less` is
`(n + Wrap - 1) % Wrap`), because a slot is given back on whatever session is
registered by then. Left out: the branch for a duplicate operation id (the queue
never dispatches one twice), an outbound channel that is full (its capacity is
above the in-flight bound), failed store writes, and restarts of the controller,
which end every session and dispatch.

Run `Gateway`: two sessions and two dispatches, either every connection and no
dispatch or all but one of the connections and the dispatches. It checks that an
open session nobody told to end is the registered one (`RegistryTracksSessions`),
that no node without a session stays stored as connected (`NoGhostConnected`),
that a removed machine stays out (`RemovedStaysOut`), that a dispatch is answered
only by what the node did on its own session (`AnsweredByTheNode`), and that
dispatches and sessions told to end do end. Two sessions are what a takeover
needs; a third only repeats it.

Fairness: each loop, each dispatch and the sweeper go on when they can (tokio
polls them; `select!` picks branches at random, so a branch that is ready again
and again is taken: strong fairness for the supersede signal and the writes of a
busy loop).

## 6. NodeJournal: commands on the node

`NodeJournal.tla` models `fleetd/journal.rs` and `commands.rs`: the journal file
as a sequence of pieces (a record's text and its newline are two writes), the
index in memory, and one task per delivered command on a blocking thread of its
own. `Replay`, `RefuseInFlight`, `Accept`, `WriteLine`, `Sync`, `Work`,
`SetResult` and `Report` are the steps of a delivery; `Copy`, `Rename` and
`Reopen` those of a compaction; `Crash` keeps what was synced and any part of the
rest, and `Open` cuts the file after the last line that parses.

Run `NodeJournal`: two deliveries of three operations, three boots, compaction
after two lines. `RunsOnce`: an accepted command's work runs once however often
it is delivered and whenever the agent dies. `FileMatchesIndex`: a load of the
file finds what memory has. `AnsweredIsDurable`: what was answered survives a
crash. `DeliveriesEnd`: tasks and compactions do not wait for each other for
ever. The first three except deliveries of one command that overlap
(`overlapped`: look-up and acceptance are two steps) and files that lost lines
(`damaged`); section 12 says how each happens. Two deliveries are the least that
race; instances with more (three deliveries and one start, 1.2 million states; 4.4
million with more starts) were checked once.

A file loses lines when a line goes behind one that was never ended or into a file
that was replaced, or when a compaction renames a copy that is behind: every line
and every rename marks the copies still to be renamed (`Behind`). Comparing a copy
with the file at the rename would not do: with three deliveries and two compactions
at once the file can come back to the contents that were copied while the lines
between them are in neither.

Assumed: there are finitely many operations, a rename is durable, a write does not fail, a crash is a loss of power.
The controller does not redeliver today; the journal is written for one that
does, and so is the model.

## 7. LabLeases: from provision to cleanup

`LabLeases.tla` models `lab_leases` and `lab_provisions` and all who write them:

| Code | Model |
|---|---|
| the saga of `lab.provision` (`proxmox_exec.rs`, `lab.rs`) | `Begin`, `Reserve`, `CloneCall`, `Mark`, `BootRecord`, `BootLease`, `Wait`, `StrapRead`, `StrapWrite`, `Strap`, `Ready`; its failures `SagaErrs`, `FailRecord`, `FailWrite` |
| compensation | `CompensateRead`, `CompensateWrite`, `CompensateQueue` |
| the clone task of the hypervisor | `CloneLands`, `CloneFails` (external) |
| `lab.cleanup` (`lab_cleanup.rs`) | `CleanStart`, `CleanIdentify`, `CleanDelete`, `CleanErrs`, `CleanRelease`, `CleanFail` |
| release, retry and extend of the API (`fleet-application/lab.rs`) | `AskRelease`, `AskRetry`, `AskExtend`, `ReleaseWrite`, `RetryWrite`, `ExtendWrite`, `CallQueue` |
| the sweeper's tick (`lab_sweeper.rs`) | `ExpiryScan`, `ExpiryClaim`, `StuckRecords`, `StuckLeases`, `StuckMove`, `Abandon`, `CleanupScan`, `CleanupCount`, `CleanupQueue`, `GuestScan`, `Judge` |
| the process ends | `Crash` |

Some writes compare the row and some write back a copy read earlier; the model
keeps the copies. `overtaken` remembers that a blind write replaced a row its
writer had not read, and the properties that are lost then except those leases
(section 12 lists what may happen to them).

`LabPools.tla` adds the pools of prebuilt guests (`lab_pool.rs` in application,
storage and controller). A pooled lease claims a member where another would clone,
and its cleanup rolls the member back, verifies it and returns it:

| Code | Model |
|---|---|
| the saga on a member | `PoolBegin`, `Claim`, `PoolStart`, `PoolWait`, then as above |
| `cleanup_plan`, `revert_pooled`, `keep_pooled` | `PoolCleanStart`, `PoolPlan`, `PoolRevert`, `PoolQuarantine`, `PoolRelease` |
| `revert_member`, shared by cleanup and fill | `Reverting`, `Asks` |
| the rollback operation and its Proxmox task | `ChildClaim`, `ChildPost`, `ChildErrs`, `RollbackEnds` (external) |
| fill and drain | `FillRequest`, `FillStart`, `FillRevert`, `FillFinish`, `Drain` |

A rollback is found again by its key (one per cleanup attempt, one per filled
member), its operation may end while its task goes on, and the task holds the
guest's config lock. `dirt` is what ran in a guest since it was last rolled back.

Run `LabLeases`, five worlds on one VMID. *OneLife*: one lease from request to rest
with one API call and one crash at any step. *LateCleanup*: a failed lease whose
cleanup is owed (its clone's answer lost, its guest standing, or removed by hand)
while another lease is provisioned on the VMID. *PooledLife*: a ready lease on a
member that may be drained, one call, one crash. *PooledPair*: the same lease
while another waits for the member, claims it, starts it, fails and is cleaned up.
*Filling*: two fills, drains and a crash. The run checks that a ready lease has a
ready record and its own guest, that a cleanup deletes no guest but its own, or
the late clone of a failed saga whose lease was released (or overtaken), although it
checked a step earlier, that failed attempts are not
counted back, that an extension beats the expiry sweep, that a member becomes
available only rolled back since its last use (`ReturnedReverted`), that a member
and its lease let go of each other together (`HeldTogether`), that every lease
comes to rest and that an orphaned guest is reported. Instances with two full
leases (5.8 million states), with finer steps (1.8 million), and parts of the
pooled worlds with a whole second saga and a call (0.8 million each, unfinished)
were checked once. Run `LabKeep` shows finding 3.

Fairness: the worker, the sweeper, the hypervisor's tasks and a started fill go on
(`Progress`, `PoolProgress`, weakly fair as a whole, since one tick does everything
that is owed); nothing obliges calls, deadlines, fills, drains or crashes. Left
out: devices (section 10), capacity, accounts, machine records, the members' nodes
and audio devices, a store that fails, a saga that resumes a claim, and time as
such (a back-off that has passed is a choice of the step that looks). There is one
pool, and whether a lease is pooled does not change; where a lease is pooled every
VMID of the model is the pool's, so no lease beside it is cloned there.

## 8. NodeIdentity: enrollment, proofs, revocation

`NodeIdentity.tla` models `fleet-application/node.rs` over
`fleet-storage-sqlite/nodes.rs`: `CreateToken`, `Enroll`, `Revoke` by operators and
nodes; a proof is `Present`, `Issue`, `Verify`, then `ClaimSession` or
`ClaimRotation`; the gateway's validation is `ReadSession`, `ReadCredential`,
`Confirm`, three reads of three rows. Only the write transactions are atomic.
Signatures are perfect and a key is a name. Expiry, store errors and the end of
the process all end a request early (`Stop`).

Run `NodeIdentity`: two keys, tokens, challenges, sessions and requests, three
credentials, all interchangeable (symmetry). `NothingOutlivesItsKey`: no
credential or session survives the key it was proved with. `ValidAnswerIsCurrent`:
the gateway is told "valid" only about a session that is. `RevocationLasts`: a
revoked identity comes back only by a token made after the revocation. Three
credentials are an enrollment, a rotation, and an enrollment after a revocation.

## 9. DesiredSource: fetch, activation, rollback

`DesiredSource.tla` models `fleet-application/source.rs`, its store, executor and
poller. A fetch and a manual activation hold one mutex over the worktrees (`work`
is what its holder does); a rollback, a settings change and the poller do not.
`FetchStart`, `FetchRecord`, then `AutoExpect`, `AutoCompare`, `AutoSwitch` (the
compare-and-set) are a fetch with auto-activation; `ActivateStart`,
`ActivateSwitch`, `ActivateRelease`, `ActivateClear` a manual activation, which
releases the hold in statements of its own after the switch; `RollbackStart`,
`RollbackHold`, `RollbackSwitch` a rollback; `PollLook`, `CaughtUp`, `PollQueue`
the poller. `Push` moves the remote's head, also backwards.

Run `DesiredSource`: two commits, two fetches, one failed call or restart.
`AutoMovesForward`: by itself the controller replaces what is active at that
moment, only by a descendant that changes only the Registry. `RollbackHolds`: a
rollback is not undone by a poll, except after the overlap that section 12
describes (`overlapped`). `PollerCatchesUp`: a head that stays is recorded.
Instances with three commits, an invalid one (1.6 million states) or a fork and a
history limit that bites (12.9 million) were checked once.

Fairness: the mutex is first come, first served, so a queued fetch gets it (strong
fairness of `FetchStart`); its holder goes on (weak fairness of `Working`); the
poller's tick recurs and meets a moment without a fetch if there are such moments
again and again (strong fairness of `Poll`, and the premise of the property).

## 10. UsbReservations: a device and its entries

`UsbReservations.tla` models one device that leases reserve one after the other,
and the entries that name it in their guests' configurations. Three parties move a
lease's row, each by a compare-and-set on the row's state, and none holds a lock
the others take:

| Code | Model |
|---|---|
| the writer: `attach_for_lease`, `attach_held` and the hotplug requests (`lab_hardware.rs`, `lab_hardware_hotplug.rs`) | `StartProvision`, `RefuseProvision`, `Ask`, `Serve`, `Look`, `ClaimAttach`, `CountBeforeWrite`, `Write`, `RecordAttached`, `CountAfterWrite`, `Undo`, `FailUnwritten`, `Back`, `LeaveUnknown`, `GiveUp` |
| `detach_reservation`, shared by all three | `ReadBeforeDetach`, `Unproven`, `StartDetach`, `PutDelete`, `Confirm`, `Finish`, `FailDetach` |
| the cleanup: `detach_for_lease`, the fate of the guest, `release_unattached` | `CleanStart`, `Free`, `Reread`, `Resync`, `ResyncDetach`, `Decide`, `Delete`, `Settle`, `BareHolds`, `ReleaseUnattached`, `AttemptFails` |
| the reconciler's pass (`hardware_reconciler.rs`) | `PassStart`, `PassView`, then `detach_reservation`'s steps |
| `reserve` (`hardware_reservation_store.rs`) | `Reserve` |
| the lease's own life, the guest, an operator, a restart | `LeaseMoves`, `GuestRestart`, `OperatorAttach`, `Restart` |

An entry is a slot, who wrote it, and whether it is applied, waits for the guest's
restart, or waits to be removed by it; a party sees the slot and the view, never
who wrote it, which is what makes the deletes delicate. A digest-conditional write
is one step with its read and its read-back. Audit refusals are failed calls.

Run `UsbReservations`, two worlds. *Disturbed*: one lease with two slots, one
hotplug request waiting at a time, and one fault (a failed or unanswered call, a
restart, or an operator's entry) at any step. *Handover*: a second lease reserves
the device after the first. `EntryAccounted`: an entry of Fleet's always has a row
behind it. `AttachedIsThere`: a row that says attached is right. `OnePlace`: the
device is not on two guests. `Resolves`: a row that outlived its lease and that
reading the guest settles is settled. Writers that are about to record or undo,
and entries the code itself gives up with `hardware_attach_unrecorded`
(`wrote = "left"`), are excepted. Run `UsbUnwritten` shows finding 2. Larger
instances were checked once: two faults (2.2 million states, the two invariants),
two full leases (6.8 million, `OnePlace`), three waiting requests (5.0 million).

Fairness: a writer's task and the reconciler's passes go on; nothing makes a
cleanup start again or succeed. Left out: machines' devices and their quota,
fingerprint pins, the override release, templates, other devices' entries, the
reconciler's freshness, back-off and budgets, a write that lands after its
answer was given up, and a lease that reserves again after it released.

## 11. What is proved

All theorems hold for every value of the constants that satisfies the module's
assumption (sizes, leases and clocks are natural numbers, sentinels are not
members, and in `LabPools` no lease is called "fill", so that the key of a cleanup's
rollback is never that of a fill's, as the prefixes of the code's keys ensure).

| Module | Theorem | Statement |
|---|---|---|
| `OperationsProofs` | `TypeCorrect` | `Spec => []TypeOK` |
| | `NothingRunsTwice` | `Spec => []ExecutedOnce` |
| | `RecoveryIsSound` | `Spec => RecoveryRespectsLease` |
| | `QueueImplementsRecord` | `Spec => ImplementsRecord` |
| | `Inductive` | `Spec => []IInv` |
| | `ActiveIsBounded` | `Spec => []ActiveBound` |
| | `PendingCancelWins` | `Spec => []FlaggedPendingNeverQueued` |
| | `DrainIsComplete` | `Spec => []DrainAsksEveryTask` |
| `ActionBrokerProofs` | `TypeCorrect` | `Spec => []TypeOK` |
| | `PolicyIsCurrent` | `Spec => OpenedUnderCurrentPolicy` |
| | `BrokerImplementsRecord` | `Spec => ImplementsRecord` |
| | `Inductive` | `Spec => []IInv` |
| | `QuotaIsKept` | `Spec => []QuotaKept` |
| `NodeGatewayProofs` | `TypeCorrect` | `Spec => []TypeOK` |
| | `RegistryIsCurrent` | `Spec => []RegistryTracksSessions` |
| | `RemovalIsFinal` | `Spec => []RemovedStaysOut` |
| | `NoGhost` | `Spec => []NoGhostConnected` |
| | `AnswersAreOwn` | `Spec => []AnsweredByTheNode` |
| `NodeIdentityProofs` | `TypeCorrect` | `Spec => []TypeOK` |
| | `KeyBound` | `Spec => []NothingOutlivesItsKey` |
| | `AnswerCurrent` | `Spec => ValidAnswerIsCurrent` |
| | `RevocationFinal` | `Spec => RevocationLasts` |
| `DesiredSourceProofs` | `TypeCorrect` | `Spec => []TypeOK` |
| | `MovesForward` | `Spec => AutoMovesForward` |
| | `RollbackLasts` | `Spec => RollbackHolds` |
| `UsbReservationsProofs` | `TypeCorrect` | `Spec => []TypeOK` |
| | `EntriesAccounted` | `Spec => []EntryAccounted` |
| | `AttachedIsRight` | `Spec => []AttachedIsThere` |
| | `DeviceInOnePlace` | `Spec => []OnePlace` |
| `LabLeasesProofs` | `TypeCorrect` | `Spec => []TypeOK` |
| | `Inductive` | `Spec => []IInv` |
| | `ReadyHasRecord` | `Spec => []ReadyLeaseHasReadyRecord` |
| | `ReadyOwnsGuest` | `Spec => []ReadyLeaseOwnsItsGuest` |
| | `AttemptsGrow` | `Spec => AttemptsNeverGoBack` |
| | `ExtensionsWin` | `Spec => ExtensionWins` |
| | `NoForeignDelete` | `Spec => NoForeignGuestDestroyed` |
| | `PoolInductive` | `PoolSpec => []PoolIInv` |
| | `MembersHeld` | `PoolSpec => []HeldTogether` |
| | `OnlyCleanReturn` | `PoolSpec => ReturnedReverted` |
| | `PoolReadyHasRecord` | `PoolSpec => []ReadyLeaseHasReadyRecord` |
| | `PoolReadyOwnsGuest` | `PoolSpec => []ReadyLeaseOwnsItsGuest` |
| | `PoolAttemptsGrow` | `PoolSpec => AttemptsNeverGoBack` |
| | `PoolExtensionsWin` | `PoolSpec => ExtensionWins` |
| | `PoolNoForeignDelete` | `PoolSpec => NoForeignGuestDestroyed` |
| | `WithoutPools` | `PoolSpec /\ pooled = {} => Spec` |
| `NodeJournalProofs` | `TypeCorrect` | `Spec => []TypeOK` |
| | `Inductive` | `Spec => []IInv` |
| | `WorkRunsOnce` | `Spec => []RunsOnce` |
| | `FileIsMemory` | `Spec => []FileMatchesIndex` |
| | `AnswersSurvive` | `Spec => []AnsweredIsDurable` |

**The queue.** `ExecutedOnce` is not inductive: nothing in it forbids a started
operation from being pending, where it could be claimed again. `RowInv` says what
a row and its task owe each other (a pending row has no task and no claim, an
operation whose task has not reached the executor was never started, live rows
and rows with tasks are claimed). `HandInv` says what the host holds between two
statements, above all that the row between claim and spawn has no task and is not
pending. `CancelInv` says what a canceller has established at each of its
statements, which is why its late unconditional write can revive a resolved row
but never an unclaimed one. `ExpiredInv` keeps the age of a selected claim until
it is compared. `FlagInv` says that a flag taken while the row was pending is in
every snapshot the queue reads afterwards, so its task does not start the executor.
`DrainInv` divides the tasks in flight during a drain: asked, over, still in the
list, or the one being asked now. Each part has a lemma with one step per action.
Refinement follows: `RecordStep` maps each action to one of the record's actions or a
stutter.

**The broker.** `RowInv` relates a row's columns to its operation. `CallInv` says
for every place in a call what has been established there; the interesting part
is at `open`, where either the operation exists or the running policy admits it,
because policy changes only with the process and the decider of a begun request
never changes. `StepIInv` proves preservation together with `Advance` (a row only
moves forward), and `SoundStays` uses `Advance` to carry over the facts of the
calls that did not move.

`QuotaKept` counts, over a table that moves while four statements look at it one
after the other. Its invariant `QuotaInv` is about every set of contenders
(requests that run, or may still run, without a person) larger than the quota: one
of them is refused, that is, was not granted, and each recount of it under way has
found, or still has in front of it (`Ahead`), as many of the others as the quota
holds. It is the one whose recount began last: by then the others had been counted
as approved or beyond, and a request only moves on in the order in which the
statements look, so none slips behind the place a recount has reached.

**The gateway.** `Held` types what an executor holds between two steps.
`RegistryTracksSessions` and `RemovedStaysOut` are inductive with it.
`NoGhostConnected` is not: `OweInv` says that a stored "connected" is owed an end
by some session, one that is about to write, or that has not stored "offline" yet
by its own note. `AnswerInv` ties every waiter to the session its dispatch holds
and every result to a command that ran there.

**Identity.** `IInv` is `TypeOK`, `NothingOutlivesItsKey`, `Versions` (no row has
a version its credential's counter has not reached), `RequestInv` (what a request
has established where it stands) and `TokenInv`. `ValidAnswerIsCurrent` and
`RevocationLasts` are about single steps and follow from it: the three reads of a
validation hold together because `Versions` makes the first one vouch for the
others.

**Source.** `IInv` is `TypeOK`, `Compared` (where a switch is about to happen the
verdict of the comparison is about the revisions it will use) and `Held` (from
a rollback's write of the hold to the next manual activation the hold is there and
nobody is about to clear it). `OnlySwitch` says which steps move what is active.

**USB.** The invariant is stated per lease, on what is known of that lease alone:
its row, its guest's entries, what was given up, its writer and one other party at
a time. `WriterInv` says what the writer's place means for the row and the guest;
its last part, `Covered`, is `EntryAccounted` with the writer as the one who
answers. `PartyInv` says what a cleanup or a reconciler knows: once it acts no
write starts, and none `Straddles` (is between the row's claim and its record) a
row that it has read twice or moved, which is why it may release what it saw gone.
The parties meet in two relations: `Moves` is what any step of another party may do
to the writer's facts (`MovesKeepWriter`, `MovesKeepParty`), `WriterMoves` what the
writer may do to the others' (`WriterMovesKeepParty`); a step is then checked
against its own party's facts and one of the two. `OneRow` (one live row for the
device) is what only `Reserve` can break.

**Leases.** `NoForeignGuestDestroyed` is about a delete that names a VMID which was
checked a step earlier. It is safe because of how a VMID passes on: another record
may reserve it only when the lease of the first is released, and a lease is released
only by its last cleanup. Such a lease is `Spent`: that cleanup has finished, and no
copy of the row anywhere (a saga's, a cleanup's, a call's or the sweeper's) counts
further, so no blind write can make a cleanup with a new key and no delete can
follow. `Last` carries this through the writes of stale copies. `Excl` says that of
two records with one VMID one is over in this sense, and `Clear` what that one may
still have there: nothing, or the clone of a failed record that came late. `GuestInv`
(from the boot on the guest stands at the record's VMID) rests on `EarlyInv` (a lease
that nothing began to clean up has no cleanup), and `ClaimInv` says that a scan which
found a deadline passed is right until an extension moves it. The proof has three
layers: `TypeStep`; for each action a lemma `<Action>Does` that says what it changes,
field by field; and for each part of the invariant a lemma with one step per action
that touches it. The property says only what the invariant showed to be left: the
guest of another lease that a delete can meet is a late clone of a record that is
`never_ready`.

**The pools.** `PoolIInv` follows a member from its claim to its return. `HoldInv`
and `FreeInv` bind it to its lease: claimed in one transaction with the VMID of the
record (`MemberInv`), let go in one with the lease's release, and no cleanup of a
pooled lease releases it by any other way. `HeldTogether` follows. For
`ReturnedReverted` three things have to meet. A cleanup that is past its wait has a
rollback operation of its own key that succeeded on its record's guest
(`RevertInv`); a task that runs belongs to an operation about that guest
(`RollInv`), so only the right task can make it succeed, and clears that guest's
`dirt`; and from then on the guest is not used for this lease (`ClearedInv`),
because a saga starts a guest "used" only while the lease still awaits it, and a
lease that has a cleanup does not (`EarlyInv`). For a fill, whose operations and
rollback are tied to the member by the number of its registration alone, `NamesInv`
says that all of them name one guest and that a number is given once, `FillIds` that
they name one at all, and `FillReverted` and `FillCleared` say of them what
`RevertInv` and `ClearedInv` say of a cleanup. Everything is claimed of a lease only
until a blind write overtakes it. In `PoolStepKinds` a step of the composition is one
of `LabLeases`, or one of a saga or a cleanup that goes on (`SagaGoesOn`,
`CleanupGoesOn`), or leaves the variables of `LabLeases` alone; the theorems about
leases are carried over with it, and `WithoutPools` says that with nothing pooled
nothing is added. The two about guests are carried over in two halves: by
`WithoutPools`, and where something is pooled by `Prebuilt` (every guest there is
prebuilt and named after no record, so no saga finds a VMID to clone to and no
cleanup comes to delete), which says little more than that pools and clones do not
mix in one instance of the model.

**The journal.** The file is reasoned about through what a load finds in it, not
through its contents: `LoadAppend` says what one more line does to a load,
`LinesLoad` what the file written by a compaction loads, `LoadKept` that cutting an
unfinished end loses nothing, and `CrashKeepsSynced` that what was synced is loaded
after any crash. That a file with a record of an operation has a last one is the
least-number principle of the library. In `IInv`, `FileInv` says that an undamaged
file is whole lines, all synced but perhaps the last one, whose task is about to
sync it; `MemInv` that a load finds what memory has unless a line is to come;
`CopyInv` that a copy which is not behind says what the file says, or has a record
whose line is still to come. `RunInv` gives `RunsOnce`: work that ran is in the
synced part, and where a task is to run it, it has not run before. `Settled` gives
`AnsweredIsDurable`: a task past its sync that has the operation to itself finds in
the synced part what memory has.

**Only model-checked.** Every liveness property (`EveryOperationSettles`,
`StrandedApprovalRecovers`, `DispatchEnds`, `ToldToEndEnds`, `DeliveriesEnd`,
`LeasesSettle`, `OrphansReported`, `PollerCatchesUp`, `Resolves`): liveness under
fairness is out of the prover's reach, as are `ENABLED`, induction over data and
`RECURSIVE` operators (no module here declares one). Every other property of
a passing run is stated by a theorem.

## 12. Where the code and what is said of it differ

Shown by a run:

1. `OperationsTerminal`: `transition` and `complete` validate a stale read and
   write by id, so a cancel can overwrite a committed terminal state;
   `fleet-core/operation.rs:20` says no transition leaves one.
2. `UsbUnwritten`: after an attach that wrote nothing, `release_failed` moves the
   row to detaching and keeps the slot it meant to use; if it stops there, the next
   party takes the recorded slot for Fleet's own and deletes an operator's entry in
   it, against `lab_hardware.rs:32` ("Only what Fleet may have written is ever
   deleted").
3. `LabKeep`: a refused revert ends its cleanup operation and spends no attempt, so
   the release with keep, which `lab_cleanup.rs:20` and `docs/operations/lab.md:588`
   name as the way out, finds the ended operation by its key and queues nothing; the
   lease stays releasing.

Observed while modelling, without a run of its own. The models contain each of
these behaviours (but where noted), and the properties are stated around them.

*Queue.* A cancel that straddles the claim makes the task's own move to cancelling
illegal: the task ends and the operation is left cancelling until its lease
expires. An operation cancelled while pending still runs when its creator claims
it by id, against the comment in `claim_only_execute`. A panicking executor leaves
its heartbeat running, so the claim is renewed for as long as the process lives
and the recovery on which `fleet-controller/worker.rs:20` relies never comes. A
deadline sweep times out an operation whose task is about to complete. The comment
above the move in `request_cancel` says a pending operation can become cancelling,
which `can_transition` refuses.

*Broker.* A recovery whose recheck fails marks the request failed while a slower
start opens the operation (`broker.rs:1378`). The decision compares the deadline
with a clock read on arrival (`broker.rs:1309`). A failing operation store leaves
the row written (`broker.rs:1428`).

*Gateway.* The slot is released after a refusal that took none (`gateway.rs:963`),
and on a fresh session the counter wraps (`:783`). The waiter is never dropped
when a send fails (`:765`). A superseded loop can persist "offline" after its
successor connected (`:569`). A revocation leaves a live session open until its
next validation (`docs/architecture/security.md:51`).

*Journal.* A crash that loses only a newline glues the next record to the line, and
the next load drops both. The healing rewrite is a plain `fs::write`. A compaction
loses lines appended between its copy and its reopen. A late redelivery overwrites
a terminal result with `timed_out`. A duplicate of a command in flight is answered
"failed", not ignored (comment in `commands.rs:100`). An acceptance without a
result stays in flight for ever.

*Leases.* A release writes back a copy read before the audit: it may drop the link
to the provision, take a counted attempt back, and resurrect the row of a lease
that has moved on; the bootstrapping write does the same to a releasing lease. A
cleanup whose key has ended leaves such a lease releasing for ever. A guest cloned
after a release is only reported. A keep during a running destroy is overwritten.
The reported set is keyed by account and VMID only, and start and agent queries
name only the VMID. `failed_step` says "clone" for every error of that stage. The
answer-lost clone of a released lease can land at a VMID that was reserved again,
between another cleanup's check and its delete. A cleanup operation that is
cancelled, or that fails outside `fail_attempt`, leaves the lease as in finding 3.
A saga that was given up may start a member after its return, although
`MemberState::Available` says "At its baseline and free to lease"; `dirt` calls
that start a stray. A rollback operation that outlived its attempt runs when the
worker claims it, whoever holds the member then.

*Source.* After a manual activation and then a rollback, the manual's own
`release_hold`, which comes after its switch, clears the rollback's hold, and a
later fetch activates over it (comment at `source.rs:1380`). `prior_revisions`
hands out the 100 newest first-recorded rows, and recording a revision again keeps
its old place. A failed refetch removes the worktree of a recorded revision, which
then cannot be activated by hand. A poll may overlap a manual fetch (its comment
says never).

*USB.* `resync_detach` takes a row that is held again for detached and does not
release it, so an attach that follows writes into a guest that is being destroyed,
against `detach_for_lease`'s "no row is left for the destroy to orphan". A pending
write whose row was released meanwhile is given up and not undone, where
`lab_hardware_hotplug.rs:40` says a write is recorded or undone.

## 13. Not modelled

- *Within the modelled components*: what sections 3 to 10 name at their ends.
- *Placement and build addresses*: one SQL transaction each; what races is the code
  around them.
- *Artifacts, image builds, Proxmox executors*: long sequences of external calls
  whose difficulty is in what the hypervisor answers.
- *Persistent machines and their quota guard*: a saga of the shape of LabLeases
  with a counter; the first candidate for another module.
- *Apply and ready workflows*: sequences over `Operations`, one executor each.
- *Audit ledger, authorization catalogue, projects, skills, registry, DNS and
  Coolify settings*: single-row writes and pure functions. Their outcome appears
  as a choice (a refusal, a failed call) in the models that use them.
- *Event hub*: a broadcast channel whose loss is part of its contract.
- *Wire protocol, redaction, HTTP API, CLI, web console*: conversions and clients
  without a state of their own.
- *Terminals and consoles, onboarding, removal*: pure I/O around the identity and
  the gateway; removal's effect on the gateway is `DeleteMachine`.

## 14. Running

```
tlc -workers 2 -config OperationsRaces.cfg MCOperations
tlc -workers 2 -config OperationsSettle.cfg OperationsLive
tlc -workers 2 -config BrokerDecisions.cfg MCActionBroker
tlc -workers 2 -config LabLeases.cfg MCLabLeases
tlapm OperationsProofs.tla
```

Every run takes under three minutes on two cores. A configuration's module is named
in `PROJECT.json`, which also lists, for each property, a mutated definition that
breaks it. The mutated forms stand in the modules just before the definition they
mutate, marked `Mutant:`, and nothing else uses them.
