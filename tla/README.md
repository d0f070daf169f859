# Verification of durable-actors

Durable-actors runs actors: named objects with a private SQLite database, served
by exactly one host at a time, whose state survives the death of that host. This
directory models the protocols that make this true, checks them with TLC on small
instances, and proves the central ones with TLAPS for every value of the
constants. Paths below are relative to the crate (`src/src/`).

## The system and its modules

| Part | Source | Module | Proofs |
|---|---|---|---|
| Actor ownership | `bucket/runtime.rs`, `bucket/runtime/`, `host/storage.rs`, `host/lease_maintenance.rs` | `Ownership`, `OwnershipInv` | `OwnershipProofs`, `OwnershipActivation`, `OwnershipSafety` |
| Rapid log | `bucket/rapid.rs`, `bucket/rapid/{writer,segment,reader,archive}.rs` | `RapidLog`, `LogPromise` | `RapidLogProofs` |
| History, checkpoints, restore | `bucket/recovery.rs`, `bucket/runtime/history.rs`, `bucket/rapid/{checkpoint,index}.rs`, `litestream*` | `History` | |
| Mailbox and database service | `host/actor_host.rs`, `host/actor_database.rs`, `host/actor_database/` | `ActorHost` | `ActorHostProofs` |
| Executor connection | `actor/executor_connection.rs` | `Executor` | `ComponentProofs` |
| Routes, dispatch, deployments | `control_plane/{routes,invocation,service}.rs`, `host/{process,spare,assignment}.rs` | `Routing` | `RoutingProofs` |
| Alarms | `control_plane/alarms.rs` | `Alarms` | `AlarmsProofs` |
| Sandbox pool | `sandbox/pool.rs`, `sandbox/pool/`, `sandbox/gke/` | `SparePool` | `ComponentProofs` |
| Lifecycle, usage, admission limits | `host/lifecycle.rs`, `actor_lifecycle.rs`, `control_plane/organization_limits*` | `Lifecycle` | `ComponentProofs` |
| Residency | `actor_lifecycle/residency.rs` | `Residency` | |
| Sockets | `sockets/`, `control_plane/socket_bus.rs`, `control_plane/socket_gateway.rs` | `Sockets` | |

How they interact: the control plane resolves a request to a host through the
routes, or assigns a host from the pool, which then *activates* the actor by
claiming its ownership record. The host's mailbox starts requests on the executor;
the database calls of a method come back over the executor's connection and are run
by the database service, which writes snapshots through the ownership layer to a
bucket or a Rapid log. A response leaves only after its write was acknowledged
under a confirmed lease. Hosts report what they do to the control plane, which
derives routes, usage, admission and residency from it.

The modules rest on one another by what they promise:

- `LogPromise` is what `Ownership` needs of a log; `RapidLog` implements it
  (`KeepsPromise`, proved);
- `Ownership` gives `ActorHost` one authority at a time and the newest snapshot, and
  assumes of it that a drain which ends leaves nothing to publish
  (`DrainCompletes`); `ActorHost` shows that as `DrainedIsQuiet` (proved);
- `Routing` sees ownership as one live lease, which `Ownership` proves
  (`ExclusiveAuthority`), and a refusal by a host as a request that did not run,
  which `ActorHost` proves (`UnavailableNeverRan`);
- `ActorHost` sees an invocation whose method returned as one without calls under
  way, which `Executor` proves (`RepliedIsQuiet`);
- `Ownership`'s states are opaque; `History` shows that a snapshot is restored to
  exactly the state that was written (`RestoresExactly`).

### Ownership

One actor, any number of host sessions. Each storage call is a step of its own; `pc`
is the place of a session in activation and shutdown, `wr` its write in progress,
`rn` its renewal in progress.

| Code | Model |
|---|---|
| object in the authority bucket, its generation | `authority`, `authority.gen` (0 = absent) |
| snapshots under the prefix of an epoch | members of `store` with that `epoch` |
| a Rapid session that was reopened by a recovery | its epoch is in `fenced` |
| `RuntimeStorage.owned` | `own` |
| resident database, newest completed upload | `state` |
| `LeaseFence` (`deadline`, `fenced`), stop token | `deadline`, `cut`, `stop` |
| `register_activation` | `UseHint`, `LoadOwner`, `ReloadAfterHint`, `Recover*`, `Claim*`, `AbandonClaim`, `RefuseActivation` |
| `HostStorage::register` | `Confirm`, `ConfirmLate`; later `RenewLoad` ... `RenewLost` |
| `write_snapshot` and the checks around it | `StartWrite`, `Land`, `Acknowledge`, `FenceWrite`, `FailWrite` |
| `load_actor_state` | `ReloadOwner`, `ReloadState` |
| `HostStorage::finish`, `drain_activation`, `release_with_checkpoint` | `Drain*`, `Finish*`, `CloseFence`, `Release*` |
| death of the process | `Crash`; a put or a compare-and-swap already sent may still take effect |

`LogFences` chooses the store. FALSE is the bucket store, which has no fence and
relies on the lease, the margin of five seconds and clocks that agree up to that
margin (`SkewAssumption`). TRUE is a log whose recovery fences its writer: put and
fence are atomic at the store. A Rapid session that found no zones (`segment.rs:48`)
writes its snapshots to the bucket (`writer.rs:89`) without a fence; what is said with
`LogFences` TRUE is not about that session, which has the guarantees of the bucket
store. `DrainCompletes` is FALSE when the drain of the host
may time out, so that requests run into shutdown.

### Rapid log

One segment with replicas in several zones, its writer, archiver, concurrent
recoveries and sweeper. The segment is one sequence written by one session, so a
copy of it is the number of frames it holds, and a marker is a set with at most one
length. `LogPromise` is the abstract log: a recovery returns a prefix with every
acknowledged write, all recoveries return the same one, and nothing beyond it is
acknowledged later.

### Actor host

The mailbox, the executor and the database service of one actor on its host, and
the hosts that take it over. An *attempt* is a request as a host receives it;
attempts with the same request id are retries. The database is the sequence of its
transactions, each named by the attempt that made it, so a snapshot is a prefix.

| Code | Model |
|---|---|
| `pending`, `running`, `blocked_on`, `interleaved`, `draining` of `Actor` | `pending`, `st`, `blocked`, `interleaved`, `draining` |
| the admission channel of the executor | `grant`, and `granted` per attempt |
| `Completion` (result, recovery, failure code, sequence) | `out`, `seq` |
| `ResidentDatabase`, with its published position and its last completion | `cached` |
| `DatabaseService.ready`, `next_sequence` | `ready`, `next` |
| commands on their way to the database service | `Sent`, and `queue`: for each, the ones ahead of it |
| the actor instance in the executor | `inst` (`stale`: ahead of a database that was dropped) |
| the newest snapshot and the completion in it | `durable` |
| `submit_traced`, `receive`, `start_ready`, `drain`, `admitted` | `SubmitRefused`, `Submit`, `Drain`, `AdmitNext`, each with the top of the loop (`Settle`) |
| `executed`, `recovery`, `Drop` | `Executed`, `ExecutedStop`, `Stopped`, `EvictDrained` |
| `prepare_invocation` | `PrepareFails`, `Replay`, `Execute` |
| `database_call` | `ImmediateWrite`, `ImmediateWriteFails`; a transaction that the method leaves open is part of `Return` |
| `commit_outcome`, `DatabaseService::complete`, `DatabaseSession::complete` | `Receive`, `Complete`, `CompleteUnconfirmed`, `CompleteRefused`, `CompleteLate`, `CompleteStopped` |

The database service handles one command at a time and nobody else touches its
session, so a command is one step. `Actor::run` holds its requests in a
`FuturesUnordered` and polls them in the order in which they were woken; a request
that is started after another one's reply therefore sends its `Prepare` after the
other one's `Complete`. `queue` and `Arrives` model that order, and
`CompletedIsDurable` depends on it. The channel is a first-in, first-out queue with at
most one command of a request, so it is the relation of who is ahead of whom; the
command that nobody is ahead of arrives next.

### The other components

`Executor`: one driver task per connection. `exchange` is where each caller's
command is, `calling` and `looking` count what runs on its behalf, `database` and
`lookup` are the driver's `database_ids` and `connection_lookup_ids`. The process
runs customer code, so any message may come at any time, and one that breaks the
protocol ends the connection.

`History`: a database is the sequence of writes committed to it; a snapshot is named
by epoch and version, and a reference to it is that name. Modelled are the commit
with its LTX files, prune and compaction, the live cache and index objects, the
chain of parents, checkpoint tasks and what the host counts of them, rotation,
archiving and deletion of segments, restore, inspection and the pages of the
history. A put that fails ends the host and leaves behind any of the puts it could
make; a late put lands only in a bucket, which a Rapid session without zones writes to
as well. A reset drops the resident database, and the host restores the latest snapshot
while its log, its live cache and its checkpoint task go on. `Progress::logged` counts
the encoded snapshot (`writer.rs:109`), for what a restore replayed its LTX bytes; the
comment at `checkpoint.rs:245` says LTX bytes of both. `HeaderBytes` is the difference,
and `ProgressTruthful` states what is counted. What a fenced host checkpoints has no
live cache. Archiving a record is atomic here, since `RapidLog` checks its steps.
A version that was never acknowledged may be shown beyond the end of the chain.

`Routing`: the cache entry of one actor with its rank and generation, the
resolution, launch, dispatch and settlement of requests, hosts as the control plane
sees them, deployments, deletions and suspensions under the deployment lock. The route
store may fail at any read or write, and `RedisRoutes::run` only logs that: a deployment
whose `remove_project` failed, or that crashed before it, succeeds with the old routes
still served. `missed` is TRUE from then until the generation is incremented again, and
`NoStaleRoute` excuses just that time. `stopped` is set where a suspension did increment
it. It is taken for granted that a shutdown is remembered (`SHUTDOWN_RETENTION`) for
longer than a late report of the same host takes. A launch that waits for a host's
shutdown may go on at any time.

`Alarms`: the table of alarms, the polls and delivery slots of several replicas,
their clocks. All times are relative to the present, so time never has to stop.
`AlarmTiming` is the inequality the constants of `alarms.rs` satisfy: a claim
outlasts its delivery, the delay of the claiming query and the distance between two
clocks, of which one is the store's.

`SparePool`: the rows of `durable_actors_spares`, the pods they stand for, the
manager that builds, trims, retires and forgets, and launches that claim a spare or
create a sandbox of their own. A row's expiry is a flag. The creation of a pod is
answered, or given up within 110 seconds, before its row expires after 120, and one
that was given up lands before cleanup looks for it or never. `NoOrphan` is about
spares the pool built; a launch's own sandbox is the launch's to delete.

`Lifecycle`: reports of host sessions, which arrive late, out of order or not at
all, the usage updates made of them, and the slots of an organization. Time passes
between any two steps. Corrections are published for reports the session store
recorded (`docs/reference/configuration.md:194`). Each update is published by a task of
its own, later, in any order or never (`docs/reference/configuration.md:188`): `landed`
are the ones that were. `UsageConverges` is about what landed; an estimated stop that is
belied by a later recorded report is the greatest only while the correction has not
landed. A report that arrives after a
release can take the slot again for 35 seconds; `lapsed` keeps such sessions apart.

`Residency`: the reports of successive hosts, what the store keeps, and the periods
and the inventory derived from them. Hosts and control plane read one clock.

`Sockets`: gateways with a registry and a Redis connection, sessions of browsers,
questions to other gateways and the automatic response. Each change of the response has
a task that stores it and then publishes it, so changes overtake one another between the
two. `announced` is the change published last, and `AutoResponseFresh` speaks of states
in which that is the one stored; where two tasks ended in opposite orders, or a publish
failed, the code leaves gateways with the older response until the next change or
subscription. A load that failed, and a change left unread by an earlier subscription
(see `cleared`), are recorded in `apart` and excused. `Reconnect`
makes the subscriptions of a new session in one step. Broadcasts published before a socket
opened may be seen with gaps. The disconnect of a browser may overtake a handler
that takes longer than five seconds.

`MC*` modules instantiate these for TLC. `MCComponents` and `MCProgress` put
components that share no state side by side: a behaviour is one of one of them,
chosen by `part`, and the others stay as they begin.

Operators whose comment starts with "Mutant of", or that come directly before the
definition they vary, are small plausible bugs. They are not part of any
specification; replacing the named definition by one of them makes TLC find the
property that the pair is listed for in `PROJECT.json` violated.

## Runs

| Run | Instance | Shows |
|---|---|---|
| `leases` | no log fencing; 2 sessions, lease 3, margin 1, skew up to 1 with writes; 2 sessions with up to 4 renewals and a release; 3 sessions handing over | `AckedSurvives`, `ExclusiveAuthority`, `ReleaseTriesSuffice`, `ReleasedNotRevived` |
| `rapid` | log fencing; 2 sessions, lease 1, skew 1 (more than the margin), 2 versions | `Inv`, `OneHistory`, `VisibleGrows` |
| `rapid_log` | 2 zones, 2 recoveries, 2 frames | `KeepsPromise`, `DeletedIsArchived`, `ReplicatedCovers` |
| `host` | 2 attempts (a request and its retry, or a disconnect), serial or interleaving, 2 transactions, 2 hosts | `CompletedIsDurable`, `UnavailableNeverRan`, `CompletedOnce`, `DrainedIsQuiet` |
| `interleaving` | 3 attempts of an interleaving actor, 2 transactions, 1 host | `CompletedIsDurable`, `SerialUnlessGranted`, `InstanceMatchesDatabase` |
| `host_live` | 2 attempts, both modes, 1 transaction, 1 host, fairness | `EveryRequestAnswered` |
| `routing` | one request over two regions with a retry, during a deployment, deletion or suspension; or a request and an alarm that race one another; 2 hosts; the route store fails | `OutcomeTruthful`, `NoRevivedRoute`, `NoStaleRoute`, `NoSuspendedRoute` |
| `components` | 2 spares, 1 launch, 1 restart; 1 session's usage, or the slots of 2; 1 or 2 gateways, 1 or 2 sockets; 2 callers, 3 calls; 2 or 3 epochs with 2 or 3 writes, crashes, a failure or reset; 2 epochs with 4 reports | `NoOrphan`, `NoActiveDeleted`, `UsageConverges`, `QuotaHeld`, `NoGap`, `AnswerCovers`, `AutoResponseFresh`, `RepliedIsQuiet`, `RestoresExactly`, `ProgressTruthful`, `InspectsHistory`, `PeriodsAsReported`, `ViewsAgree` |
| `progress` | 1 alarm, 2 replicas, 2 attempts, 1 crash; 1 gateway with room for one of 2 sockets; 3 writes of a host that fails or is reset once, 2 of one that does twice; fairness | `OneDelivery`, `OnlyHandledIsCleared`, `AlarmsSettle`, `SocketsLeave`, `CheckpointsCatchUp` |
| `unclean_drain` | 1 session whose drain times out | a violation of `AckedSurvives` |
| `partial_flush` | as `rapid_log` | a violation of `RemainsRecoverable` |
| `cleared` | 1 gateway, 2 sockets, 2 changes of the response | a violation of `ClearedDoesNotReturn` |

The bounds are the smallest at which the interesting cases happen. Two sessions give
an old and a new owner; a third only matters for hand-offs of a hand-off, which make
the hint of another stale. A lease of 3 with margin 1 has a window in which the
fence is closed and the lease is not, and the clock runs past both. The generation
bound of 5 leaves room for the three lost compare-and-swaps after which a release
gives up. Two frames are one acknowledged and one uncertain frame, two zones one
that has it and one that has not. In `host`, two hosts give a retry of a request
whose outcome was lost with the first, and two transactions one that is published
and one that is not. In `interleaving`, three attempts are one that runs, one that
completes out of order and one that fails and resets the database between them. In
`routing`, two hosts give an old and a new owner; `Busy` keeps hosts from stopping
when no request is left to notice. In `components`, one gateway has room for two
sockets and the other for one, a checkpoint is due after two versions, and a page
holds at most two of three versions. In `progress`, a claim (6) outlasts two
attempts of 1, a pause of 1, a query delay of 1 and a clock offset of 1 by the least
that `AlarmTiming` allows; a query delay of 0 would let time stand still.

Five runs leave out interleavings that would only multiply the states, by an action
constraint or a restricted start. `leases` asks three questions on one instance, told
apart by the clocks (`Asked` of `MCLeases`): writes with few renewals, renewals against
releases without writes, handoffs of a third session without time passing. `rapid`
starts with at least one clock that is ahead (`RapidInit`). In `rapid_log` the sweeper
is at work next to one recovery, not two (`Contenders`). In `routing`, a route expires
just before another is remembered, and not where two requests race one another, as a
read may miss it at any time; the reports of one host, or next to an operation one
report, are under way at once; and next to an operation a lease ends when its host is
gone or of another deployment (`Asked` of `MCRouting`). In `components`, two reports of
residency are under way at once and of two sessions only one sends three reports
(`FewReports`). What is proved below holds without the constraints.

Symmetry is used where names are only compared: sessions, zones, recoveries,
attempts, spares, configurations; never in a run with a liveness property. Deadlock
is not checked: a session activates at most once, a request is made once, and the
models end when everything is over or a bound is reached.

### Fairness

`host_live`: the mailbox task, the database service and the request futures are
scheduled by the runtime, so each of their steps is weakly fair, and a method is
assumed to return or fail (the host sets no time limit on it). Requests, drains,
failures and the loss of authority are not fair.

`progress`: replicas poll for ever and timers fire (weak fairness); a claiming query
and a finish that are tried again and again succeed in the end (strong fairness: the
store is not down for ever). Crashes are bounded, the suspension of the organization
is excused by the property. The listener of a gateway and the session of a socket
are tasks the runtime keeps running; a browser is assumed to read what it is sent, since
`send_frame` has no time limit, though `SocketsLeave` does not need that. Restores and checkpoint tasks likewise; their
failures are bounded.

### What the violations show

- `unclean_drain`: `stop_executor` (`host/process.rs:617`) logs a drain that times
  out and goes on. The database service still completes requests while
  `HostStorage::finish` runs, so a write can start after `upload_checkpoint` chose
  the checkpoint and be acknowledged before the fence is closed. The record is then
  sealed with the older checkpoint and the acknowledged write is lost. The window is
  the time between the two calls, and needs a request that outlived the drain.
- `partial_flush`: an append that reached one zone leaves a frame that a recovery
  sees or does not see, depending on which zones it can read. Two recoveries at the
  same time can therefore archive the longer log and mark the shorter length, after
  which reads of the segment fail. No acknowledged write is lost
  (`KeepsPromise` still holds), but the actor cannot be activated.
- `cleared`: a gateway's listener takes commands and messages in any order. A change
  of the automatic response that is unread when the gateway unsubscribes is applied
  after the next subscription has loaded the stored value, so a response that was
  cleared meanwhile comes back.

## Proofs

The proofs hold for every value of the constants that satisfies the named
assumptions of the module: any number of sessions, zones, recoveries, attempts,
requests, hosts, alarms, replicas, callers, spares and launches, and any value of the
bounds, which therefore do not matter.

| Theorem | Module | States |
|---|---|---|
| `TypeCorrect` | `OwnershipProofs` | the types of `Ownership` |
| `Invariance` | `OwnershipSafety` | `Inv` |
| `AcknowledgedWritesSurvive` | `OwnershipSafety` | `AckedSurvives` |
| `AcknowledgedWritesAgree` | `OwnershipSafety` | `OneHistory` |
| `AuthorityIsExclusive` | `OwnershipSafety` | `ExclusiveAuthority` |
| `VisibleStateGrows` | `OwnershipSafety` | `VisibleGrows` |
| `ReleaseSucceedsInTime` | `OwnershipSafety` | `ReleaseTriesSuffice` |
| `ReleaseIsFinal` | `OwnershipSafety` | `ReleasedNotRevived` |
| `SegmentKeepsPromise` | `RapidLogProofs` | `KeepsPromise`: `RapidLog` refines `LogPromise` |
| `DeletionIsSafe` | `RapidLogProofs` | `DeletedIsArchived` |
| `MarkersCover` | `RapidLogProofs` | `ReplicatedCovers` |
| `UnavailableIsRetryable` | `ActorHostProofs` | `UnavailableNeverRan` |
| `ExecutionIsSerial` | `ActorHostProofs` | `SerialUnlessGranted` |
| `InstanceIsCurrent` | `ActorHostProofs` | `InstanceMatchesDatabase` |
| `DrainIsFinal` | `ActorHostProofs` | `DrainedIsQuiet` |
| `RetryCommitsOnce` | `ActorHostProofs` | `CompletedOnce` |
| `CompletedStaysDurable` | `ActorHostProofs` | `CompletedIsDurable` |
| `AnswersAreTrue` | `RoutingProofs` | `OutcomeTruthful` |
| `RoutesAreOfTheDeployment` | `RoutingProofs` | `NoStaleRoute` |
| `SuspendedIsNotRouted` | `RoutingProofs` | `NoSuspendedRoute` |
| `ShutdownsAreRemembered` | `RoutingProofs` | `NoRevivedRoute` |
| `DeliveredOnceAtATime` | `AlarmsProofs` | `OneDelivery` |
| `ClearedAfterHandled` | `AlarmsProofs` | `OnlyHandledIsCleared` |
| `RepliesAreQuiet` | `ComponentProofs` | `RepliedIsQuiet` |
| `NoSpareIsLeaked` | `ComponentProofs` | `NoOrphan` |
| `DeletedIsUnused` | `ComponentProofs` | `NoActiveDeleted` |
| `PublishedUsageConverges` | `ComponentProofs` | `UsageConverges` |
| `ActiveActorsWithinQuota` | `ComponentProofs` | `QuotaHeld` |

**Ownership.** `Invariance`, the three theorems after it and `VisibleStateGrows`
assume `DrainCompletes`; `unclean_drain` shows that the assumption is needed. `AckedSurvives` is not inductive: that the next
owner's base holds an acknowledged write depends on what a session that is about to
claim has read, on whether a put still in flight can be acknowledged afterwards, and
on the lease that separates the two. `Inv` (checked by `rapid`) adds: `EpochInv` and
`Distinct` (an epoch belongs to one session), `CasInv` (a generation that still
matches means that the record read is the record stored), `RecoverInv` (what a
session that can still win the claim has recovered holds every acknowledged write,
and the epoch it recovered is fenced or its lease is over), `ResidentInv` (the
resident state of an owner is the newest of its stream), `WriteInv` (a put of an
epoch that is over can be acknowledged only if the next owner has recovered it),
`LinearInv` (a snapshot holds a version once) and `TimeInv` (without fencing, the
stored lease outlasts, on every clock, each window the owner has confirmed or may
still confirm). There is one lemma per action: activation in `OwnershipActivation`,
renewal, shutdown, writing and the passage of time in `OwnershipSafety`, which
combines them. For `VisibleGrows`, the lemmas of the four steps that change the record
or the store also show that nothing recoverable is lost: a claim takes over the newest
snapshot, and a seal names it.

The two theorems about releases need no assumption. Their invariant, `ReleaseInv`, says
that a renewal whose generation still matches finds a lease that has not been given
back, and counts the attempts a release can lose: one to the renewal in flight, if it
is stored first, and one to a new owner, after which there is nothing to release.

**Rapid log.** The key is `Seals(n)`: no frame beyond the first `n` can be
acknowledged any more, because a replica that does not hold it is fenced, or because
the writer has retired the segment. A sealed length stays sealed, the archive and
the replicated marker never shrink (`Grows`, shown for every step), and the
invariant says that each closed and replicated marker, and each length a recovery or
the sweeper is about to mark, is sealed, and archived where it has to be. Since the
replicated marker is created once and every recovery returns its length, all
recoveries agree and cover what was acknowledged. The refinement has one step lemma:
a step of `RapidLog` acknowledges a frame, adds the marker's length to the results,
or stutters in `LogPromise`.

**Actor host.** One inductive invariant (`IInv`) carries the first five theorems. `AttemptInv`: a request that waits has neither run nor let anybody
start, and one that is about to be answered as unavailable never ran. `BlockInv`: a
busy request that has not let the next one start is the one the mailbox is blocked
on, so there is at most one. `StopInv`: a mailbox that stopped has nothing busy, and
after a drain no completion is left either. `CompletingInv`: a serial actor has one
completion at a time, also across the end of its mailbox, and the completions of an
interleaving actor are numbered, which makes the failure of one stop the service.
`StaleInv`: an instance whose database was dropped belongs to the request whose
recovery evicts it before the mailbox starts another. `LastInv`: under authority, the
resident database has the newest snapshot's completion, and no serial request that
runs or completes has the id recorded there, because `prepare` would have replayed
it. A lemma says what one turn of the mailbox's loop may do to a request
(`SettleSettles`); the steps of the mailbox rest on it, those of the service, the
executor and the hosts follow. For the two action properties, `DurableMoves` says who
may change the newest snapshot: an immediate write, or a completion under authority.

`CompletedStaysDurable` needs a second invariant, `DurableInv`, which the steps
preserve from states in `IInv`. A completion is confirmed against the database that
is resident when its turn comes, and that may not be the one its method saw: the
database can be dropped by a failed publication or a reset and be loaded again from
the newest snapshot. `ResidentInv`: under authority, what is resident continues the
newest snapshot. `SeenInv`: a completion whose turn can still come saw a part of what
is resident. `NumberInv`: the numbers of the completions are distinct and none is
behind `next`, so a completion below which a number is missing (`Stuck`) never gets
its turn. `QueueInv`: while no database is resident no completion waits behind a
`Prepare`, which is what could load one. `ResetInv`: who may have the database reset
has let nobody start, or stops the service. Hence whenever a database is loaded again,
all completions that saw the old one are stuck (`AllStuck`), and a reset finds nobody
about to prepare (`NothingPrepares`). What was told stays in the snapshot because
snapshots only grow (`PublishedContinues`).

**Routing.** The invariant `RoutingInv` carries all four theorems. `RanInv` says, by
how far a request has got, whether a host ran it; the difficult case is an assignment
whose answer is under way, where the request is unexecuted as long as its host is
starting, has declined or has answered without completing it. `HostInv` makes that
host the only one that may still run it. `InformedInv`: what a request has read of the
deployment is still true, or its generation is old, so `remember` drops its route, or
the last change of the deployment has yet to drop the routes or failed to (`Changing`);
`RouteInv` says the same of the cache. `EpochInv`: the owner is the host of the greatest
epoch, which counts the hosts that have claimed. `ShutdownInv`: the shutdown of the
owner is in the cache, or its lease is over and nobody who may still write a route has
read it.

**Alarms.** The invariant is a time budget. For a live delivery of the current
revision, the age of its claim and what it may still take (`Remaining`: the rest of this
attempt or pause, and a round of both for each attempt that is left) add up to at most
`DeliveryTime + ClaimDelay`. `AlarmTiming` makes `QueuedTimeout` greater than that plus
the distance between two clocks, so no replica finds the claim expired. A delivery that
is about to finish ran its handler or made its last attempt, and `finish` compares
revisions.

**Executor, pool, lifecycle.** For the executor, the driver's id sets hold every caller
with a call under way. For the pool, the invariant says of every name how far the
creation of its sandbox is and what its row may then be. For usage, `SaidInv` says that
all reports, records and updates about one sequence number agree on whether it was the
stop, and that a stop is the last one; `UpdatesInv` that an estimated stop has an odd
revision, just above the latest recorded report, or that a greater one corrects it; and
`TopInv` that of the updates that landed one has the greatest revision. For the quota, the slots are finitely many and
a reservation is made only while there are fewer than allowed.

Leaves that name `Zenon` are first-order steps; the others need arithmetic, records
or sequences and are left to the SMT solver.

### Only model-checked

- `NoGap` of `Sockets`: what a socket hears and what its gateway still has to read are
  sequences that grow at one end, shrink at the other and are filtered, and the property
  compares the filtered ones; that needs induction over sequences.
- `AnswerCovers` and `AutoResponseFresh` of `Sockets`: they relate the answers, calls
  and changes that are still under way to the subscriptions of all gateways, and their
  inductive form would need the same sequences.
- `RestoresExactly`, `ProgressTruthful` and `InspectsHistory` of `History`,
  `PeriodsAsReported` and `ViewsAgree` of `Residency`: the code walks chains of parents
  and series of events, and the models are recursive definitions compared with a
  reference, which again needs induction over data.
- Liveness: `EveryRequestAnswered`, `AlarmsSettle`, `SocketsLeave`,
  `CheckpointsCatchUp`. The prover does not handle fairness.

## Not modelled

Encodings (frames, manifests, SQLite pages, checksums, paths, tokens); the SQLite
WAL's idle checkpoint, the registry of open databases and the validation of index
objects; caches whose loss only costs time; `AUTO_RESPONSE_TTL`, tags, metadata and
state documents of sockets and the in-memory bus of the local server; SQL
statements, savepoints and alarms set inside a transaction; persistence of lifecycle
events in ClickHouse, and what the caches of the lifecycle store forget when they
are full; calls to container platforms and object stores beyond their
compare-and-swap and create-only semantics; a claim of alarms that is committed while
its answer is lost, other than by the scheduler's crash, which leaves the same rows; request validation, authentication,
tracing, the local development server, and the SDKs, which run outside the Rust
system.
