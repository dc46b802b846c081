# TLA+ models of hubtask's concurrent machinery

hubtask is a self-hosted work management server written in Go over PostgreSQL.
Requests are short transactions over rows that a unit test reaches well. What a
test hardly reaches is the machinery behind them: a job queue in a table, the
workers and the scheduler that drain it, the transactional outbox, the guards
around outbound calls and repeated requests, and the synchronisation of devices
that work offline. These models are about that machinery.

## Inventory

| Part | State | Operations | Talks to | Hard because |
|---|---|---|---|---|
| Job queue (`infrastructure/postgres/Queue.go`, `db/queries/Job.sql`) | the table `job`: state, attempts, lease (`locked_until`), `run_at`, dedupe key, revivals | enqueue, claim, extend, complete, refuse, repeat, retry, dead-letter, cancel, requeue, revive, purge | every use case that leaves work behind; the runner; the scheduler; the operator | two processes may both believe they hold a job; the lease is the only fence |
| Worker runner (`presentation/worker/Runner.go`, `Slots.go`) | per slot: the claimed job, the lease it carries, the handler's deadline, the heartbeat | claim a batch, start, extend, run inside or outside a transaction, heartbeat, record, fail | the queue; the handlers | stalls, crashes, lost commit answers, beats that race a takeover |
| Scheduler and leader (`Scheduler.go`, `infrastructure/postgres/Leader.go`) | an advisory lock on one connection; nothing else | confirm, acquire, release; hourly revive and purge; sampling | the queue, the other scheduler | a former leader inside its tick; select-then-delete |
| Self-rescheduling duties (`ReminderFiring.go`, ...) | their one job row | repeat, hold | the queue | wake-ups that meet a running pass |
| Outbox and dispatcher (`infrastructure/postgres/Outbox.go`, `infrastructure/eventbus/OutboxBus.go`) | `outbox_event`, `event_consumption`, the dispatch job | append, claim, deliver, mark, count, repeat, sweep | every domain write; subscribers; the queue | overlapping rounds, lost wake-ups, order, records swept too early |
| Circuit breaker (`infrastructure/resilience/CircuitBreaker.go`) | state, two counters, probes in flight, time opened | enter, leave, State, notify | every outbound call; the health report | a call enters under one state and leaves under another |
| Bulkhead, load shedder, retry, timeouts (same package) | counters and limits | enter, leave, decide | the same calls | counters at their limits |
| Webhooks, NATS publication, trigger polling | delivery jobs, cursors | deliver, suspend, poll | outbox, queue, the outside | at-least-once, a cursor that steps over a late commit |
| Idempotency guard (`core/application/service/idempotency`, `presentation/rest/Idempotency.go`) | one row per key and route | begin, complete, release, sweep | REST writes, the retention run | three transactions, a crash between any two; statements that name the key and not the reservation |
| Offline sync, server (`core/application/service/sync`) | change log, operation log, a clock per field | push, merge, pull, stream | work items, devices | every statement sees another state; numbers given before the commit |
| Offline sync, client (`packages/sync-engine`) | copy, queue, cursor; the connection loop | enqueue, push, settle, catch up, follow | the server | lost answers, repeats beside their first, closed tabs, cursors that leap |
| Audit trail, retention and legal holds, backup and restore | hash chain, periods, run locks | append, anchor, verify, sweep, run | every write, the queue | partial failure, long passes |
| Automation, identity, quotas, media, realtime, work items, timekeeping, REST and MCP adapters, web app | rows of their own | request handlers | the above | mostly single-row transactions |

What makes each modelled part correct:

* queue and runner: one holder of the fence; an effect applied once and recorded
  as such; a bounded number of attempts through failures and crashes; no two
  handlers of one job inside their deadlines, as long as no pause uses up the
  lease's margin; one open row per key; what is finished stays finished;
* outbox: every interested subscriber reacts exactly once; overlapping rounds
  divide the events; what is there when a round claims leaves in its order,
  unless another round has it locked; nothing pending is forgotten;
* breaker: probe slots never leak and limit the probes; an open breaker holds for its cool-down; a
  recovered dependency is used again;
* idempotency: one request at a time owns the key; the operation commits once
  and its answer is replayed to its own request only; an orphaned reservation
  ends;
* sync: nothing queued is lost, a device's order holds, a repeat takes effect
  once and is answered as recorded, the later reading wins, and devices
  converge - each outside the races and refusals that its history names.

`PROJECT.json` lists the hazards, each at its line, with the properties that
are about it.

## Modules

| Module | Models |
|---|---|
| `JobQueue` | table, runners' slots, operator and the schedulers' two passes over the table |
| `MCJobQueue` | small deployments of `JobQueue` for TLC |
| `JobLifecycle` | the queue as producers and operator see it: the abstract specification `JobQueue` implements |
| `JobQueueProofs` | the queue's theorems |
| `JobQueueRefinement` | `JobQueue` implements `JobLifecycle` |
| `Outbox` | one tenant's outbox, its dispatcher and the sweep |
| `EventDelivery` | the outbox as writers and subscribers see it: the abstract specification `Outbox` implements |
| `MCOutbox` | a small tenant |
| `OutboxProofs` | its theorems, the refinement of `EventDelivery` among them |
| `CircuitBreaker` | one breaker and the goroutines around it |
| `CircuitBreakerProofs` | its theorems |
| `Idempotency` | one key of one route: the guard, the requests under it, the sweep |
| `MCIdempotency` | a client that repeats a request and reuses its key |
| `IdempotencyProofs` | its theorems |
| `SyncServer` | pushes being applied, operation log and change log |
| `Sync` | the devices around `SyncServer`, which it extends |
| `SyncLedger` | synchronisation as the user of a device sees it: the abstract specification `Sync` implements |
| `MCSync` | small sets of changes |
| `SyncProofs` | theorems of `Sync` |
| `SyncRefinement` | `Sync` implements `SyncLedger` |

A definition whose comment begins "Mutant of" is a plausible bug of the
definition it names. No action uses it; it is there to show that a property
would notice.

### JobQueue

`job[j]` is a row. `slot[s]` is one execution slot of some pod, with the lease
its claim returned; `effects[j]` counts committed effects of the handler and is
history. An action is one transaction or one that did not commit, so slots
interleave wherever the code leaves a transaction:

* `Enqueue`, `Cancel`, `Requeue` are the producers' and the operator's
  statements, with the conflict rule of `job_dedupe_uq`;
* `Claim` takes a due row or one whose lease ran out; `CrashedOut` is the first
  check of `Runner.start`;
* `CheckLease`, `Extend` and `ExtendFails` are `Runner.leased`. It reads the clock
  once (`read`); the extension commits some time later and counts from that
  reading. `Execute` begins `Runner.execute`, which reads the clock again: the
  handler's deadline (`until`) counts from the second reading;
* `Settle` is a handler inside the runner's transaction: effect and record
  commit together. `Effect` then `SettleDetached` is a detached one: two
  commits, with room for a crash between. In both the answer of the commit may
  be lost, and the runner goes on to `Fail`;
* `Heartbeat` is one beat of `keepLeased` that reached the database; a beat that
  did not is a stutter;
* `Fail` chooses between retry, dead letter and, for a perpetual duty that
  failed transiently, another round;
* `ReviveDeadDuties`, `ReviveFails`, `PurgeSelect`, `PurgeDelete` are the hourly
  pass of a scheduler `c`. The purge is two steps because its subselect locks
  nothing: `doomed[c]` is what it chose. There is any number of schedulers, each
  at its own step: leadership is confirmed at the start of a tick and not asked
  again, so a former leader may still be inside a pass when its successor begins
  one. The model relies on no lock between them.

Between the two readings lies any pause, and what makes it harmless is that the
lease is longer than the timeout (`LeaseMargin`, 30 seconds). `late` is history: the
clock moved between the readings. A handler is `InTime` unless it is late and its
deadline has reached its lease. `NoOverlap` is about handlers that are in time
and within their deadlines; a pause that eats the margin is what the code does
not guard against, and without `InTime` TLC finds two handlers within their
deadlines on one job.

Time is one clock. All processes read it, so clock skew between pods is not
modelled. `Elapsed` says that a second lease of one job differs from the first:
the column holds microseconds, and a pass, a commit and a claim take longer.
A slot stands for one place in a pool; a batch that waits before it starts is a
slot that stays `claimed`. Left out are what the claim orders by (priority, age,
fairness between tenants: any due row may be taken), the LIMIT of revive and
purge, progress notes, and the statements about invitation mail and sealed
secrets, which change no column the properties are about.

### Outbox

`event[e]` is absent, pending, dispatched or swept; `consumed` is the table of
consumption records; `acted` counts committed reactions and is history. `job` is
the newest dispatch job of the tenant. The fence of `JobQueue` is abstracted to
its holder, which is what `FenceIsUnique` allows: at most one worker carries the
lease of a RUNNING row. A round is the steps of one transaction (`ClaimEvents`,
`Deliver`, `Count`, then `Commit`, `LeaseLost`, `RoundFails` or `Crash`): other
transactions come between its statements, and nothing of it is seen before
`Commit`. The batch a round holds is what `FOR UPDATE` locked, until the round
ends. `calm` is the environment: subscribers and statements fail, workers stall
and die only while it is FALSE. The clock is left out; `ComeDue` lets `run_at`
arrive or a lease run out. Events are numbered by `occurred_at`, which is the
order a claim takes them in, and are appended in any order: `occurred_at` is read
before the write, in a push it is the device's own moment (`Envelope.Pushed`),
and a transaction that began earlier may commit later. Two histories are the
exceptions to the order. `skipped` are the events a claim passed over because
another round had them locked, and took later ones; `outbox_order` shows it.
`belated` are the events committed after a later one was claimed, which no
dispatcher could have kept in order. `InOrderUnlessSkipped` says that there is no
third; `InOrder`, which the violation refutes, leaves the belated out.

### EventDelivery

An event is absent, pending, dispatched or swept, and a subscriber has or has
not reacted. `Deliver` takes a batch of pending events nobody has reacted to,
and their whole audience reacts in that step. `Outbox!Delivery` maps `event` and
`acted` to themselves; the job, the rounds, the records of consumption and their
sweep are not mapped, so nothing a round does before its commit, and no repeat
after a lost answer, may show. Which events a batch has, and in which order
batches leave, is not promised: that is `InOrderUnlessSkipped`.

### JobLifecycle

A job is absent, waiting, under way, then done, refused, cancelled or a dead
letter, and gone in the end. There is no lease, clock, runner or attempt. `Work`
is a detached job's effect; any other job's effect is part of `Finish` or
`Repeat`. `Resume` is the operator's requeue or the scheduler's revival,
`Expire` and `Forget` the two halves of the purge. Purges may overlap: `expiring`
grows by what each chooses, and a job two of them chose may still be expected to
go after the first has deleted it. `JobQueue!Lifecycle` is the instance:
`PhaseOf` maps a row's state, the union of the schedulers' `doomed` is
`expiring`, and what a slot believes is not mapped at all, which is the content of the refinement. A
takeover of a job whose lease ran out is a stutter. What the lifecycle does not
promise, because the code does not keep it, is that a requeued dead letter
survives a purge that chose it before (`queue_purge_race`).

### CircuitBreaker

The mutex is held once by `enter` and once by `leave`, so each is an action and
the call lies between them. `cooling` is what is left of the cool-down.
`probing` and `leaked` are history: the calls let in as probes since the breaker
last became half-open, and how many of them panicked. `Notify` is the observer,
called after the unlock. `Panic` is a call that panics and is recovered above
`Do`: as `leave` is not deferred, its slot stays taken, and `Recovers` names
that case. A call of an earlier spell that answers late gives back a slot it
never took, so more than `HalfOpenProbes` calls can be probing although the
configuration calls it "how many calls may run at once while probing"
(`CircuitBreaker.go:59`). `strayed` counts those slots since the breaker last
became half-open, and `ProbeLimit` says that nothing else exceeds the limit;
without `strayed` in it TLC finds the late call.

### Idempotency

`row` is the record of the key, with `by`, the request that reserved it, in
place of the hash it stored. `req[r]` is a request and what it was answered;
`effects` counts the operation's commits since the last sweep and `day` counts
the sweeps. `Reserve`, `Repeat` and `BeginFails` are `Guard.Begin` (its one
transaction is atomic: the insert waits for a concurrent one, and the row it
lost to is there when it is read); `Operate` is the route's handler; `Complete`
and `CompleteFails` are `Guard.Complete`. `Panic` is a handler recovered in the
middleware further out, which never reaches `Complete`; `Crash` is the process.
A 5xx may hide a commit whose answer was lost. `ShownOnce` is the class of
routes whose bodies are not stored. Expiry is in days and no request runs for
one, so `Age` waits for the requests in flight: the assumption is the one
`DeleteExpiredIdempotencyKeys` states.

### SyncServer and Sync

A mutation is an `ITEM_PATCH` of one field, and `Writes` is the value it asks for.
`log` is the change log as committed; what the row holds, its version and the
field's clock are derived from it (`Stored`, `Says`, `Version`, `ClockOf`), as
each write puts one change in the log and replaces the clock in the same
transaction. A handler is a push being applied: `FindOp`, `Decide` (the clock is
compared), `Load` (`UpdateWorkItem` reads the row), `Write` (the optimistic update
waits for the row lock, then the change is inserted and takes its number),
`Commit` or `Refuse`, for each mutation, then `Finish`. At READ COMMITTED each is
a statement of its own, and other handlers come between.

An echo, a patch to what the item says already, writes nothing: it is APPLIED
with no change, no version and no clock. A refusal is a version conflict (`Write`)
or some rule of the use cases: the item may not be read (`Decide`, and `Unread`
when the answer is read), its collection is read-only or the value does not pass
(`Load`). Which rule it is does not matter to a device; any mutation of `Refusable`
may be refused at any of them, and the transaction with what it wrote is gone.

`Sync` adds the devices. `copy`, `queue` and `held` (the cursor) are the store
and outlive a closed tab; `conn`, `pos`, `push` and `answer` are the tab. The
connection loop is `Pull` until a page is not full, the push of the queue,
`OpenStream`, `Frame`; `Enqueue` also starts a push while the server is in
reach. `Enqueue` is atomic, where `nextSeq` of `queue.ts` reads and writes its counter
in two steps. `Settle` transcribes, in the order of the mutations, the state that
each answer shows (`Words`, `LastWord`, `Adopted`); a refusal shows none, and the
prediction stays. The faults are a tab closed anywhere (`Drop`, `PullCut`: in the
middle of a page, or after it and before its cursor is held), a request that
runs out of time while the server works on (`TimeOut`) and a push that fails
with some mutations committed (`PushFails`). A mutation's reading is its place
in the order in which all were made: devices whose clocks disagree are left out,
and ties with them.

What the code leaves open is in three histories, and the properties say what
holds outside them:

* `overlapped`: the devices one of whose pushes met its own repeat. `sync_overlap`
  shows what happens then;
* `outrun`: the items on which a mutation won against the clock it was compared
  with (`handler[h].clock`, kept by `Decide`) and was no longer later than the clock
  that stood when `UpdateWorkItem` read the row. It is computed from that kept
  clock and not from the decision, so a comparison that was never made does not
  hide in it. No run shows it as a violation; `LaterWins` without this exception
  is refuted by TLC with two devices that push at once and no fault;
* `adrift`: per device, the items a change of which was committed behind a cursor
  (`sync_gap`), whose answer shows an older state than what was read (`Stale`) or
  whose change an answer's cursor leapt over (`Leapt`, `sync_cursor`), and those
  where what was predicted is refused and stays in the copy (`Misled`). None of
  the three asks what the copy holds after the answer was settled, so a fault in
  settling shows in `ConvergesUnlessAdrift`. An item leaves `adrift` when a change
  of it is read or an answer shows its state.

`SyncLedger` has no push, page, cursor or answer. A change is made, waits on its
device, gets one verdict after all that its device did before, and leaves the
queue some time after it. APPLIED means that the change enters the log with the
verdict, or asked for something its item said before (`Echo`). `Late` is the one
exception the code leaves: the change of a device whose push met its own repeat
(`Repeat`) may enter the log after its verdict fell. `Sync!Ledger` takes the
verdict from the operation log, the effect from the change log and `repeating`
from `overlapped`.

Left out: creations, deletions, moves, comments, sets, displaced free text,
`base_version`; the bound on readings; files to upload; the initial walk,
epochs, cursors that are too old; scopes; a revoked device, which empties its
queue and copy; several tabs over
one store; an answer settled while a pulled page is being applied; a tab closed
between two mutations of one answer.

## Runs

| Run | Result | Shows |
|---|---|---|
| `queue_fence` | pass | one ordinary job, three slots, one of them of a pod that does not know the kind: `FenceUnique`, `AppliedOnce`, `WithinBudget`, `NoOverlap`, `FinishedStays`, `IsLifecycle`, with slow extensions and two schedulers inside a pass |
| `queue_long` | pass | two rows of one duty, one of them detached and long-running: `FenceUnique`, `AtLeastOnce`, `GoneForGood`, `OneOpenPerKey`, `IsLifecycle` |
| `queue_purge_race` | violation | the purge deletes a row an operator requeued between its subselect and its delete |
| `outbox` | pass | events committed in any order: `ExactlyOnce`, `DisjointRounds`, `InOrderUnlessSkipped`, `IsDelivery`, and `DeliveredOrGivenUp` under fairness |
| `outbox_order` | violation | a later event of an aggregate is dispatched before an earlier one |
| `breaker` | pass | `NoLeakedProbe`, `ProbeLimit`, `OpenHolds`, and `Recovers` under fairness, with panics |
| `idempotency` | pass | `OneAtATime`, `SameAnswer`, `AnswersOwnRequest`, `ExecutedOnce`, `DemandNotReplayed` on a route that keeps bodies, and `ReservationEnds` under fairness, with panics, crashes and a failing database |
| `idempotency_step_up` | violation | on a route of `ShownOnceRoutes` the demand of a proof is stored and replayed at the request that proves |
| `sync` | pass | with echoes and refusals: `NothingLost`, `DeviceOrder`, `EffectOnce`, `RecordTellsEffect`, `LaterWins`, `ConvergesUnlessAdrift`, `ToldUnlessOverlapped`, `IsLedger` |
| `sync_gap` | violation | a reader's cursor passes a number that commits later, without any fault |
| `sync_cursor` | violation | a push's cursor leaps over another device's change, and a closed tab never reads it |
| `sync_overlap` | violation | a repeat applied beside its first push answers otherwise than the operation log |

The findings in `PROJECT.json` quote the line each violation is measured
against.

### Bounds

* Queue: a timeout of 1 and five to seven ticks are enough for a claim, a stall, a
  takeover, a second takeover, the dead letter, a revival or requeue and the
  purge. In `queue_fence` the lease is 3, so that there is a margin a pause can
  stay within or use up; in `queue_long` it is 2. Three slots, one of them of the
  old pod (`OldPod`), let two stale holders meet a third; two rows of one key are
  what a uniqueness rule needs. Slots of equal pods are symmetric, and
  schedulers too. `queue_fence` has two
  schedulers, so that two purges and a revival interleave; `queue_long` has one,
  as its state space is the larger one. `MaxClock` stops the clock,
  so a state in which only time could pass is not a deadlock, and
  `CHECK_DEADLOCK` is off for these runs. `effects` saturates at 2.
* Outbox: two events with batches of one give a backlog and an order; two
  workers give overlapping rounds; either event may commit first; one subscriber
  takes everything, the other
  neither the replayed event. `attempts` saturates one past the budget, after
  which all counts are alike.
* Breaker: three callers, so that two late ones meet a probe; thresholds and
  cool-down of two, so that each counter takes a value that is neither end.
* Idempotency: four requests are a first, a repeat during it, a repeat after it
  and a key reused for another body, in every order; one of them carries a
  proof. The sweep returns the key, so two days fit. Requests run out, so a
  state with nothing left to do is not a deadlock.
* Sync: three changes, two of one item by two devices and a second one of the
  first device, are what concurrent edits, a device's order and a batch need;
  the change of the second item is the last to be made (`InTurn`). The second
  device asks for what the contended item said at first, which is an echo or
  undoes the first device's change, and is the one that may be refused;
  pages of two make a page that can be cut; two handlers make a repeat beside
  its first push and commits out of number. `MaxFaults` of one allows any single
  fault anywhere; the proofs have no such bound. Handlers are symmetric. A
  behaviour ends when all is synchronised, which is no deadlock.

### Fairness

* Breaker: callers keep calling, every call ends (each carries a deadline) and
  its notification too, and time passes. Nothing is assumed of the dependency;
  `Recovers` is conditional on it.
* Outbox: a worker keeps polling and finishes its steps, and time passes.
  Writers, the operator and the sweep owe nothing, and an outage may last:
  `DeliveredOrGivenUp` is conditional on its end.
* Idempotency: a request that was let in ends (it carries a deadline), a day
  passes and the retention run comes round. Clients owe nothing.
* Sync has no liveness property: `ConvergesUnlessAdrift` is about the states in
  which nothing is left to do.

## Proofs

`JobQueueProofs`, for every set of jobs, slots and schedulers, every deployment
and all durations with `JobTimeout < Lease` (which `Runner.validate` enforces):

* `TypeCorrect`;
* `FenceIsUnique`. `FenceUnique` is not inductive: one must know why a new claim
  cannot write a lease an older holder still carries. The strengthening says
  that no slot carries a lease later than the clock allows, that a row's lease
  was written no later, and that every other slot with the job is behind it. A
  claim then writes a lease in the future of all of them, because the old one
  had to run out first; `Elapsed` does the same for beats;
* `FinishedJobsStay`, an action property, from the fence alone;
* `EffectsApplyOnce`, from an invariant that ties the count of effects to the
  row's state;
* `KeysStayUnique`, from the index rule and the newest-only rule of revival;
* `BudgetIsKept`: whoever holds the fence carries the row's attempts, and a slot
  that may start was claimed within the budget;
* `NoTwoInTime`: a handler in time and within its deadline ends before its lease
  does, so it still holds the fence, or its row was cancelled or purged, which
  no claim takes again. That the lease of a slot past its check covers the
  timeout from the reading of that check is part of the invariant, and so is
  that a handler which is not late took its deadline from the same moment;
* `DetachedDidItsWork`: a slot that records has an effect behind it;
* `GoneStaysGone`: a pass that was told its lease is gone is behind the row for
  good.

`JobQueueRefinement` proves `QueueIsLifecycle`, `Spec => IsLifecycle`: initial
states map to initial states, and each action maps to one lifecycle step or to a
stutter. It needs the fence (a settled slot finds its row RUNNING), that a
slot that records a detached job has committed its work, and that a scheduler
has chosen rows only between its choice and its delete (`ChosenInv`), so that a
new choice adds to what is expected to go and takes nothing from it.

`OutboxProofs`, for every set of events, subscribers and workers:

* `OutboxTypes`;
* `DeliveredExactlyOnce` and `RoundsStayDisjoint`, from `OutboxInv`: batches are
  pending and disjoint, a record exists only for an event that left, and a round
  that handed its events over carries a reaction for exactly the interested
  subscribers. A commit needs all three. The fence is not among them: row locks
  and the one transaction suffice;
* `OrderUnlessSkipped` from `OrderInv`: below every event of a batch nothing
  pending is left that is neither in the batch nor skipped nor belated. A claim
  establishes it because it takes the oldest of what is free, and with an event
  every free one before it (`ClaimTakesEarlier`); an event appended since is later than all
  that was claimed, or belated;
* `OutboxIsDelivery`, `Spec => IsDelivery`: a commit is `Deliver` of its batch,
  because the reactions of a round are exactly its audience's and none of them
  is recorded, which is `OutboxInv` again; every other step of a round is a
  stutter.

`CircuitBreakerProofs`, for every finite set of callers and configuration:

* `BreakerTypes`: no counter reaches its threshold;
* `NoProbeLeaks`: a half-open breaker counts only probes in flight or lost to a
  panic, from an invariant that ties `probing` to the calls that run;
* `ProbesLimited`: the probes in flight and those lost to a panic are at most
  the slots counted as taken and those that strayed (`SlotsCounted`), and a probe is let in below the limit
  only;
* `CoolDownHolds`, an action property.

`IdempotencyProofs`, for every set of requests and every set of faults:

* `OneRequestAtATime`, `OneSuccess`, `NoForeignAnswer` and `OperationOnce` from
  one invariant: a request in flight owns the reservation, which only it can
  end, as the sweep needs a day without requests; an answer in the row is the
  answer of the request that reserved it; and a success of the current day is in
  the row, or its reservation stands for the rest of the day. The last part is
  what keeps a second success out after a crash or a failed store;
* `DemandsPass`, with the assumption that the route keeps its bodies, without
  which `idempotency_step_up` refutes it.

`SyncProofs`, for every set of devices, items, changes and handlers, every page
size and any number of faults:

* `QueueIsNotLost` and `DeviceOrderKept` from `PushInv`: what a push still has
  to do was made by its device and everything the device did before it is ahead
  of it in the same push or recorded (`Ahead`); whatever is answered is recorded
  (`Answers`). The order therefore survives pushes that overtake each other;
* `RepeatTakesEffectOnce` and `RecordIsTrue` from `EffectInv`: a device that
  never overlapped has one push at a time, and what that push is applying is not
  recorded yet. For an echo it also says that the item has said what is asked
  for (`Held`), from the moment the row is read to the record; the log only
  grows, so this stands;
* `LaterReadingWins` from `OrderInv`: a mutation that won in `Decide` is later than
  the clock kept there (`Newer`), so at `Load` it is later than the clock that
  stands, or the item is outrun; a row is locked by one push, whose number is
  higher than any of the item's in the log, and a version that still matches
  means no change came since the row was read;
* `DevicesConverge` from `SyncInv` (`Follows`): of each item a device has the
  server's state, or a change of it lies past the cursor, or a mutation of it
  that still waits is what the copy shows, or the history says adrift; both from
  where the stream is read and from the cursor in the store, which is what a
  closed tab falls back to. That what an answer shows is a state the item was in
  (`Worded`) is what makes the settled copy the server's, or stale;
* `DevicesAreTold` from `TellInv`: a device waits for a push of its own that is
  still being applied, and what such a push has to answer is in the operation
  log word for word. It is, because a record never changes (`RecordStands`), a
  repeat answers the record, and what a push without overlap applies has none
  yet (`EffectInv`);
* `SyncTypes`.

`SyncRefinement` proves `SyncIsLedger`, `Spec => IsLedger`. Only the step that
records a verdict for the first time is one of the ledger's: that the change
still waits then is `NothingLost`, that what the device did before is decided is
`Ahead`, and that APPLIED means its change entered the log in that step, or was
an echo, is `Held` (`Echoes`). A push is `Repeat` or nothing, and a change that
enters the log after its record is of a device in `overlapped`, which is
`EffectInv`.

Every invariant and action property of the passing runs is thus proved, and the
three refinements with them. Only model-checked are the three liveness properties,
`Recovers`, `DeliveredOrGivenUp` and `ReservationEnds`: fairness is out of the
prover's reach.

## Not modelled, and the plan

Left out for good: adapters and user interface (translation, no state), media,
mail and backup I/O, generated code (`infrastructure/postgres/sqlc`), SDKs.

What could be added, in this order:

1. `Leadership`: `Leader.Acquire`, `Confirm`, `Release` and the tick, with a
   session that dies in the middle of a tick and a connection returned to the
   pool with its lock.
2. `Polling`: the horizon of `PollOutboxEvents` against open transactions, which
   is the remedy the change log lacks.
3. Sync: deletions and tombstones, sets by tags, several tabs over one store,
   device clocks that disagree and the bound on readings.
4. Progress of a due job under fairness, as a liveness property of
   `JobLifecycle`.
5. Bulkhead, load shedder, webhook delivery and suspension, retention with legal
   holds, as far as they stay small.
