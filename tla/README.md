# BloodyHeart in TLA+

BloodyHeart (`src/bloodyheart`) is an event-driven microkernel in Python: modules
publish events on a bus, a scheduler delivers them by priority, and around it stand
a trust enforcer, a versioned state store with transactions, a registry of external
operations that can be compensated, a cache of large payloads, and a safe mode.
Everything but the thread pools runs in the coroutines of one asyncio event loop. So the
hard part of the program is what happens *between* two awaits of one coroutine, and what is
left after a crash, a cancellation or an error in the middle. That is what these modules are
about.

The modules are translated from the source, not from its documentation. A comment at
each action names the method it stands for; `PROJECT.json` maps each definition to its
lines.

## 1. Inventory

| Component (source) | State | Operations | What is hard | What makes it correct |
|---|---|---|---|---|
| **Priority scheduler** (`core/scheduler.py`) | a bounded queue per priority, `_running`, `_processor_task`; weak references to long-running tasks and their start times | `enqueue`, `get_next`, `run`, `start_background_processor`, `stop`; `register_running_task`, `cancel_tasks_below`, `_check_for_blocking_tasks` | the queue is selected one loop turn before its head is taken; `wait_for` can swallow a cancellation; a full queue makes publishers wait | one processor; strict priority; nothing delivered twice, nothing lost but to a stop; stops end |
| **Core bus** (`core/bus.py`) | subscribers; the parts it is wired to | `publish`, `subscribe`, `start`, `stop`, delivery | callbacks publish, raise and wait themselves; rejections publish violations through the same path | every accepted event reaches every subscriber once; every rejection is heard |
| **Schema registry, trust enforcer** (`core/registry.py`, `governance/trust.py`, `manifest.py`) | schemas, trust levels of modules | `validate`, `validate_event`, `register_module`, `check_action` | the reports pass the rules they report on; trust is looked up at publication | as above |
| **State store** (`state/store.py`) | values with versions, one counter | `get`, `put` with retries, `delete` | versions are read before an await and compared after it | versions identify values; no silent lost update |
| **Transactions** (`state/transaction.py`) | undo log and status of each transaction | `begin`, `put`, `delete`, `commit`, `rollback` | a rollback awaits between its steps; puts asleep in a backoff land late | a rollback restores what nobody else wrote |
| **Snapshots** (`state/snapshot.py`) | files | create, load, restore | the restore is a loop of awaited puts, among other clients | what it has put back stays, until somebody else changes it |
| **Compensation registry** (`core/compensation.py`) | records in memory, an append-only file | `register`, `mark_*`, `begin_compensation`, replay | torn and failed appends, crashes | the file replays to what was in memory; a restart invents nothing |
| **Robust compensator** (`compensator.py`) | circuit breaker, dead letter file | `handle` with retries | crash or cancellation between the undo and its record; repeated requests; attempts that took effect and timed out | COMPENSATED means undone; one undo per request; every request gets a verdict |
| **Blob manager** (`core/blob.py`) | LRU cache, running sums per emitter, files | `store`, `retrieve`, `delete`, reload | sums over evictions, deletions and reloads; partly written files; quotas that refuse half a payload | exact accounts; bounded cache; one emitter cannot crowd out the others |
| **Safe mode, security matrix** (`governance/safe_mode.py`, `governance/security.py`) | mode, history, violation counts, terminated modules | `escalate`, `de_escalate`, `reset_to_normal`, `handle_violation`, `handle_budget_exceeded` | each change awaits a publication, which may raise or wait; escalations and de-escalations have different priorities | escalations hold until lowered; the history explains the mode; subscribers hear of it in order, but for named cases |
| **Resource governor, watchdog** (`governance/resource.py`, `governance/watchdog.py`) | limits and use of each module; budget and use of each task | `register_module`, `record_usage`, `reset_usage`; `start_task`, `report_usage`, `end_task` | limits change under recorded use; the two count to different limits (`>` and `>=`) | no overrun goes unreported, but for budgets under a second |
| **Dependency graph** (`dag/graph.py`) | nodes, lists of edges both ways | `register`, `get_startup_order`, `get_dependents` | registering a module again adds its edges once more and keeps the old ones | the order is a topological sort, and exists unless there is a cycle; dependents are the ancestors, each once |
| **Health monitor** (`health/`) | state and latency of each module, listeners | `register_module`, `set_state`, `record_latency`, `check_thresholds` | a listener that calls `set_state` nests one change in another | listeners know the states |
| **Dry-run flag** (`core/dryrun.py`) | one global flag | `set_dry_run`, contexts | contexts of two coroutines overlap | contexts that nest restore the flag |
| **Thread pools** (`core/threadpool.py`) | a default executor, named ones | `submit`, `shutdown` | several threads, no lock: `submit` races `submit` and `shutdown` | work is refused only because of a shutdown; a shutdown that returned has waited for the work |
| **Journal, flight recorder** (`core/journal.py`, `diagnostics/recorder.py`) | append-only files | append | write errors are logged only | not modelled: nothing reads them back |
| **Kernel** (`kernel.py`) | manifests; wires the above | `register_module`, delegation | the configuration it starts with; one manifest goes to five services | modelled where its wiring matters |

How they interact: `kernel.py` builds one of each and gives all of them the bus. A module
calls `bus.publish`; the bus consults the registry and the enforcer (which may publish a
violation, recursively), hands large values to the blob manager (whose quota error becomes
a violation), and awaits `scheduler.enqueue`. The scheduler's processor task calls the bus
back, and the bus awaits the subscribers one after the other, which may publish again. The
store, the transactions, the safe mode and the matrix publish what they did and wait for
that; the compensator is a subscriber of `compensation.requested`. `register_module` hands a
manifest to the graph, the enforcer, the governor, the watchdog and the health monitor; the
governor and the watchdog publish `watchdog.budget_exceeded` from tasks of their own.

The hazards found in reading the code are listed, each at its line, under `hazards` in
`PROJECT.json`, with the properties that would catch them.

## 2. Modules

| Module | Models | Composition |
|---|---|---|
| `PriorityChannel` | what the event plane promises: lines, a choice, a service | abstract; implemented by `PriorityScheduler` and so by `CoreBus`, used by `SafeModeNotices` |
| `PriorityScheduler` | queues, processor, start and stop | alone: `SchedSpec` |
| `TrustEnforcer` | the admission rules | operators and one action, used by `CoreBus` |
| `CoreBus` | publication, delivery | EXTENDS both; `Spec` is the whole event plane |
| `TaskPreemption` | the other half of the scheduler: long-running tasks | alone |
| `StateStore` | store and transactions together | alone: `Spec` |
| `Snapshots` | saving and restoring | EXTENDS the store; `SnapSpec` implements its `Spec` |
| `CompensationRegistry` | records and file | alone: `RegSpec` |
| `Compensator` | handler, circuit breaker, dead letters, requests | EXTENDS the registry; `Spec` implements `RegSpec` |
| `BlobManager` | cache, quotas, files | alone; in `CoreBus` its refusal is a choice of `publish` |
| `SafeMode` | safe mode and matrix | alone: `Spec` |
| `SafeModeNotices` | what subscribers hear of the mode | EXTENDS `SafeMode`, over a `PriorityChannel`; `NoticesSpec` implements `Spec` |
| `Manifests` | the kernel's table of manifests | extended by the next three |
| `ModuleGraph`, `HealthMonitor`, `Budgets` | dependency graph; health monitor; governor and watchdog | actions, used by `Kernel` |
| `DryRun`, `ThreadPool` | the flag and its contexts; the pools | actions, used by `Kernel` |
| `Kernel` | registration in all services, and their steps | EXTENDS the five above: `Spec` |
| `*_proofs` | the theorems about the module of that name; `StateStore_proofs` also about `Snapshots`, `Compensator_proofs` about the registry, `SafeMode_proofs` about `SafeModeNotices`, `Kernel_proofs` about the services | |
| `MC*` | constants of the small instances | |

### State and actions against the code

**PriorityScheduler.** `pc[t]` is where the processor task `t` is suspended: `created`
(not yet run), `idle` (the sleep of 10 ms after an empty scan), `take` (in `wait_for`, the
queue is selected and the inner `get` has not run), `deliver` (in the callback). Up to the
next await the code runs without interruption, so each action is the code from one
suspension to the next: `Finish` ends a delivery and scans the queues for the next item
(`LoopHead`), `Take` is the turn of the inner task. A cancellation that arrives in `take`
finds the inner task finished and disappears (Python 3.11's `wait_for`); in the other
places it is raised (`Cancelled`), and before the first step the body never runs at all.
`Stop` and `StopReturns` are the two halves of `stop()`. A queue is a sequence bounded by
`MaxQueueSize`; `put()` waits when it is full, so the `QueueFull` branch of `enqueue` is
never taken, and publishers that wait are `pending` in `CoreBus`. Each task of `Proc` is
created once, so their number bounds the restarts.

**CoreBus.** `publish` is one action up to its await: the schema, the rules of trust and
the quota of blobs decide what is put (`ToPut`: the event, the violation about it, or
nothing because the violation was itself refused), and the put takes place or waits.
`outcome` is how the call ended (`Verdict`): `raised` is the RecursionError of a report that
is itself rejected, and of the report of that. `Invoke` calls the next callback of the event
in delivery; a callback may publish one reaction, and then waits like any publisher; `got`
counts how often each callback was called with an item. Events in `Recurring` are published
again and again: when all of one is through, `RenewEvent` makes room for the next of its
shape, so traffic need not end. The journal's append, whose errors are logged and which
nobody reads, is left out.

**TaskPreemption.** Weak references whose task is gone behave like those of tasks that
are done; a task is registered whether it is done or not. The passage of `blocking_threshold_seconds` is the action `TimePasses`. The
comparison of the priorities' *names* in `cancel_tasks_below` is the operator `Visited`.

**StateStore.** Nothing is awaited while the lock is held, so the lock cannot be
contended and is not a variable. A client is suspended while a call publishes (the
publication may raise), in the backoff of a put, and between the steps of a rollback.
`call[c]` holds the locals that survive an await; `given` is the caller's
`expected_version` and `expected` the one that the retry loop replaces.

**Snapshots.** A client in a restore (`loaded[c]`) issues the puts of `restore_snapshot()`
as calls of the store, one after the other, in any order of the keys; between a put and the
next one nothing is awaited, so no other client runs there (`SnapNext`). Each put publishes,
may raise, and is logged then. The ghost `overwritten` holds the keys that others changed
after the restore had put them. `CreateSnapshot` awaits nothing. There is one file.

**CompensationRegistry, Compensator.** A record is its state. The file is a sequence of
lines; a torn line is `Bad`, or complete but without its newline (`ragged`), and the next
append runs on in it. The stages of `handle()` are its awaits plus the points between two
of its effects, because a crash can come there; other coroutines cannot (`LoopFree`).
Whether an undo took effect is the ghost `undone`, so that an attempt may take effect and
still time out.

**BlobManager.** A blob is its bytes and its owner. The methods are synchronous: while a
payload is being stored only a crash interferes. The loop of evictions goes by the counter,
as in the code (`SizeAfter`), not by what is held: that the two agree is a theorem. A write that fails or is cut short by a
crash leaves nothing, some of the bytes, or all of them without readable metadata.

**SafeMode.** `handle_violation` runs to its first publication in one step and keeps in
`todo` the escalations it has still to ask for; `Resume` and `Raise` are the two outcomes
of the publication. S3 and repeated S2 violations ask twice for the same level (for
`isolate_module` and for `safe_mode_target`), S4 and budgets once, S1 never.

**SafeModeNotices.** Each transition is published by the step that makes it (`Publish`): its
notice enters the channel, is rejected, or waits for room (`onTheWay`) while its coroutine is
suspended. `PriorityOf` is the priority of the event. The bus is the abstract
`PriorityChannel`, not the scheduler: what `PriorityScheduler` adds to it cannot be seen here.
Nobody stops the bus in this model, and other events, which would only fill the queues
sooner, are left out.

**Kernel and its services.** `RegisterModule` is one step of the table, the graph, the health
monitor and both budget counters; the trust level it also sets is `Register` in `CoreBus`.
The services share nothing else, so a behaviour takes the steps of one of them, `used`:
their interleavings would only multiply states that no property relates.

*ModuleGraph.* The ghost `declared` holds every dependency that a manifest ever named; the
reference definitions, of sets and without recursion, are `Acyclic` (among any modules there
is one that needs none of them) and `TakesIn` (a set has all that depends on a module). The
loop of `get_startup_order()` starts from a set, so it may compute any of `StartupOrders`.
Its inner loop is part of the same recursive function, and so are the calls of `dfs()`: the
field `pending` holds, in order, what the loops under way have still to look at.
*HealthMonitor.* `changes` is the stack of calls of `set_state()`. `Notify` calls the next
listener; one in `Reacting` may then push other calls, any number of them (`Reacts`), before
it returns. A latency is how it compares with the two thresholds.
*Budgets.* Use and limits are whole units, and the kinds of budget are alike. `Least` is the
1 of `max(budget, 1)` in those units: a second has several, so that a budget may be less than
one. `NoManifest` is the `ResourceLimits()` that an unregistered module gets. The memory in
use is compared with nothing in the code. A report is a ghost (`told`, `toldTasks`): the
event is published by a task created for it, and that creation is what the ghost records.
Whether anybody hears of it is another question: under the kernel the rules of `CoreBus`
reject both events (section 6).
*DryRun.* A context saves the flag in itself; the ghosts know the order of entry.
*ThreadPool.* Other threads run between any two reads or writes of the manager's attributes,
so each is a step: the test, the creation, the second read and the `submit` of the executor;
in `shutdown()` each executor is shut and then waited for. The iterator of the loop raises
when the number of pools has changed. Executors are external.

## 3. Runs

Expected to pass:

| Run | Instance | What it shows |
|---|---|---|
| `event_plane` | three priorities; four events and the violations about them; two callbacks, one of which publishes; the two events of better priority recur without end; two processor tasks, one stopper; queues of one item | scheduler, bus and admission together, with fairness |
| `preemption` | two tasks, three priorities | the registry of long-running tasks |
| `state_store` | two interchangeable keys, one value, two clients, one transaction, one retry, four calls, one snapshot file | store, transactions and snapshots |
| `compensation` | two interchangeable operations, two attempts, a threshold of one, two requests, one failed or torn append | registry and compensator |
| `blob_cache` | four values of 1, 1, 2 and 4 bytes, a cache of 3, quotas 1 and 3, anonymous publishers, two errors of the file system | blob manager |
| `safe_mode` | two interchangeable coroutines, one module, four calls, queues of one notice | safe mode, matrix and what subscribers hear |
| `kernel` | three modules and nine manifests; per service: three registrations for the graph; one and three calls for the health monitor with a reacting listener between two others; two and a use of three units for the budgets, two of them a second of CPU, one module and one task; two coroutines, two contexts, depth two; two threads, one named pool, three executors, three submissions | the kernel's other services |

Expected to be violated, each a finding about the code (section 6): `kernel_violations`,
`full_queue`, `preemption_p0`, `optimistic_locking`, `torn_append`.

The properties are stated, with the lines they are about, in the modules. In short:

* `event_plane`: one live processor; a selected queue still has an item when it is taken;
  an item is overtaken at most once by one of lower priority (the selection that was made
  before it came); nothing is delivered twice, forgotten, or lost other than to a stop;
  rejected events are reported and never delivered; every callback gets every event once;
  a publisher inside a callback waits only for its own processor; what is queued is taken,
  unless items of a better priority keep coming, no processor is left, or it waits on itself;
  `stop()` ends, but for a processor that waits on itself. The whole implements the
  abstract `PriorityChannel` (`ImplementsChannel`, a refinement mapping from tasks, queues
  and flags to lines, choice and service).
* `preemption`: a live registered task is always monitored and no start time outlives the
  registrations (`MonitorSeesLive`); that of an ended task is dropped in the end, unless it is registered
  again and again.
* `state_store`: versions identify values, through deletes and restores; an unrefused
  conditional put replaces what its caller read; a rollback restores what nobody else wrote;
  what a restore has put back stays until somebody else changes it.
* `compensation`: the file replays to the memory; a restart invents no state; COMPENSATED
  means undone; an operation is undone once per request, but for attempts that took effect
  and timed out; a record left COMPENSATING has a reason; an open circuit stays open.
* `blob_cache`: the running sums are exact (their clamps at zero never act); a store brings
  the cache under its limit, also after a reload that exceeded it, and evicts no more than
  needed; the stores of an emitter leave the others the limit less its quota; a deleted
  blob does not come back.
* `safe_mode`: the mode stays at what was asked for until somebody lowers it, even when
  publications raise; one violation raises it twice only if somebody lowered it in
  between; the history explains the mode; a subscriber hears of the transitions in order,
  but for an escalation that overtakes a de-escalation and for notices that found their
  queue full.
* `kernel`: the startup order exists unless the dependencies ever declared form a cycle, and
  is a topological order of all nodes, however often modules were registered; a failure is
  propagated to exactly the dependents; the listeners up to the first that reacts know all
  health states; no overrun of a budget is unreported, but for a CPU budget under a second of
  which less than a second was used; dry-run contexts that nest restore the
  flag; work is refused only because of a shutdown, and a shutdown that returned leaves work
  accepted before it only in executors that a race took out of their slot.

**Why the bounds are enough.** They are chosen so that each hazard occurs. Three priorities
allow a selection to be stale with respect to a better *and* a worse queue; queues of one
item make publishers wait after a single put; two processor tasks are one restart; the
second pending event is needed for a reaction that waits. The alarm (P0) and the order (P1)
recur, and nobody subscribes to them: they keep the chore and the reply (P2) waiting for
ever, so `QueuedIsTaken` is false there without its clause about better items. What is
delivered to callbacks occurs once; the counts of calls would only start anew. In the store two clients and four
calls are a read, a conflicting write, a retry and a rollback; more than one value would
only rename behaviours, as versions are what is compared. One failed or torn append is
followed by good ones and restarts without limit. In the blob manager one value exceeds the
cache and two do not fit beside each other; two errors allow a partial write *and* a failed
unlink. In the safe mode four calls are three violations of one module and one lowering, or
an escalation, two de-escalations and another escalation, whose notices meet in queues of
one. The constraint of `state_store` keeps the snapshot and the transaction apart (no step
is explored after both a snapshot and a transaction) and lets a client read one of the two
keys; versions are compared key by key, and each of snapshot and transaction alone meets the
other client, and the theorems `RestoredStaysRestored` and `SnapshotsRefineStore` know no
such bound. In `kernel` three modules give chains, a cycle of two and of one, and a doubled
edge; three registrations are one of each module or one module three times; a nested change
needs two of the three health calls; a third executor is one that replaces a first which was
shut, or lost its slot. `SYMMETRY` is used only over clients, keys, tokens, coroutines and
equal blobs, and only in runs without liveness properties.

Deadlock is not checked where the bounded budgets of calls, events, processor tasks or
requests let the system stop.

**Fairness.** Only the event plane and the preemption have liveness properties.
`CoreBus!Fairness` is weak fairness of each processor, of each put that waits and of each
stop that waits: the asyncio loop runs every ready callback in the next turn, and the
futures of a queue are resumed in order. That a callback finishes is an assumption on the
modules. Nobody is obliged to publish, start or stop. In `TaskPreemption` the processor
checks at least once a second while it runs, and time passes.

## 4. Proofs

Checked with tlapm; they hold for every value of the constants under the `ASSUME`s of
the modules (types and ranges, and that the markers such as `None` are not members of
the sets they extend).

* **Scheduler** (`PriorityScheduler_proofs`). The types, `OneLiveProcessor`,
  `SelectionStands`, `OvertakenAtMostOnce`, `DeliveredOnce` and `LostOnlyToStop`. The
  inductive invariant is `TypeInv` (types; a task has an item in hand exactly in delivery)
  and `OrderInv`. Strict priority is not inductive by itself: one must know that an item
  which has already been overtaken is not behind a stale selection again
  (`StaleSelectionOnce`), that items sit in the queue of their priority
  (`QueuesByPriority`) and that only accepted items have been overtaken. `LostOnlyToStop`
  needs that a cancellation is only pending while a stop awaits its task (`CancelHasStop`).
  `SchedulerIsChannel` is the refinement: each step of the scheduler is one of the abstract
  `PriorityChannel` or a stutter, because no other task than the live one has an item or a
  selection.
* **Bus** (`CoreBus_proofs`). `Spec => SchedSpec`: each step of the bus is a step of the
  scheduler or changes nothing of it. So the scheduler's theorems carry over
  (`BusDeliversInOrder`, `BusIsChannel`). Further `NothingForgotten`, `WaitsOnItself` (a
  publisher inside a callback belongs to the event that its processor has in hand), and
  that the callbacks called and to be called are those of the event's subscribers
  (`DeliveriesReachAll`); that each is called once, `DeliveredToAll`, follows under
  `SubscribedOnce`, because `subscribe()` takes the same callback twice.
  `PublicationsSettled` relates how each `publish()` ended to where its event and the
  violation about it are, for any registrations and schemas: accepted, the event is in one
  place and the violation in none; rejected, the other way round; broken off by RecursionError or
  abandoned, both are in none. From it follow `NothingForgotten` and `UnreportedOnlyByRecursion`:
  `RejectionsReported` holds exactly as long as no publication raised RecursionError, so
  neither a full queue nor a wait loses a report. When that happens depends on the
  registrations. Where nobody registers the enforcer's own name no rejection is heard at all
  (`UnregisteredEnforcerIsMute`), and that is what the kernel sets up: see the finding on
  `trust.py:168`.
* **Store** (`StateStore_proofs`). The types, `VersionsUnique`, `VersionIdentifiesValue`,
  `NoSilentLostUpdate`. The invariant adds that every version in the store and in what
  clients read is below the counter and that 0 is the version of absent keys only.
  `SnapshotsRefineStore` carries all of that over to `SnapSpec`, and `SnapshotRestores` is
  proved there. It rests on `RestoringCalls`: a put without an expected version meets no
  conflict, so a client in a restore is between two puts or waits for the publication of
  one, and writes nothing but in its next put. `RollbackRestores` rests on what the undo log
  holds: for a key that nobody else wrote, the first entry that is undone found the value
  of before the transaction (`LogInv`), a put asleep in its backoff is in the log
  (`RetryInv`), and a key with no entry left to undo is as it was (`UndoneInv`).
* **Registry** (`Compensator_proofs`). `ReplayIsMemory` and `ReplayIsPast` for
  any number of operations, failed and torn appends, crashes and restarts. The first rests
  on `WholeFile` (while no append failed, every line is whole) and on the lemma that
  appending a line changes the replay at its token alone; the second on `LinesPast` (each
  readable line records a state its token has been in).
* **Compensator** (`Compensator_proofs`). `Spec => RegSpec`, so both registry invariants hold
  of the registry as the compensator uses it. Then `CompensatedIsUndone`,
  `UndoneOncePerRequest`, `CompensatingHasReason` and `CircuitStaysOpen`. The invariant ties
  the stage of `handle()` to what it has done (`HandlerOK`: a handler that succeeded has
  undone its operation, one that failed has marked it), keeps the balance of licences
  (`Licensed`), and says that whatever was ever recorded COMPENSATED was undone (`PastTold`):
  the file alone would not do, because a restart may bring back an earlier state.
* **Preemption** (`TaskPreemption_proofs`). The types and `MonitorSeesLive`, which is
  inductive with them: a reference is pruned with its start time only when its task is done.
* **Safe mode** (`SafeMode_proofs`). The types, `EscalationHolds`, `RaisedAgainOnlyIfLowered`
  and `HistoryExplainsMode`; and `NoticesSpec => Spec`, so they hold with the bus as well.
  The invariant adds that what a coroutine has still to ask for is one more time the level
  it has reached, unless the mode was lowered meanwhile. `OnlyEscalationsOvertake` is proved
  of `NoticesSpec`: each line is in the order of publication but for notices that waited, all
  that was heard may precede all that is in line, and a chosen de-escalation may precede the
  escalations that came in since.
* **Blobs** (`BlobManager_proofs`). The types, `AccountsExact`, `DeletedStaysGone`, and the
  action properties `EvictsJustEnough` and `OthersKeepTheirShare`. The inductive invariant
  relates four pieces of state: the cache, without duplicates, to its running sums, total
  and per emitter (`CacheInv`); the files and their entries (`DiskInv`); both to the blobs
  that were ever drawn and deleted (`DrawnInv`); and to those the values that a `store()`
  has still to store, which are new (`JobInv`). With it the clamps at zero never act, so each insertion, removal
  and reload changes a sum by exactly the bytes it moves; the loop of evictions, which
  goes by the counter, stops at the least number that suffices.
* **Kernel's services** (`Kernel_proofs`). `NestingRestores`: while contexts nest, what each
  saved is the flag that the one before it asks for. `OverrunReported`: inductive with the
  types; the clamp of the code is in its statement as an exception, since without it the
  property is false. `ListenersUpToDate`: only the innermost call of `set_state()` has still to tell
  a listener that does not react. `RefusedOnlyByShutdown`: a thread
  that no shutdown has met finds and holds an executor that is not shut. `StoppedMeansDone`:
  each executor is shut, in a slot, or a race has taken it out of its slot; only the one that
  is waited for has work and is shut; work accepted before the shutdown is in a slot that it
  has still to come to. `StartupOrderExact` and `DependentsExact`: the lists of edges and of
  reverse edges hold each edge as often, and hold what was ever declared (`GraphInv`). The
  sort keeps `SortOK`: the degree of a node counts its edges to nodes not yet placed and
  those to the last one placed that are pending, so what has none is placed or queued, and
  is placed after all that it needs. The search keeps `SearchOK`: nothing that depends on
  what was found is forgotten, and nothing else is found. Both loops end, with fewer nodes
  missing or, of a list of dependents, fewer pending in each round.

The sums of `BlobManager` are folds, and the loops recursive functions. The prover cannot
use the library's theorems of induction, whose parameter is an operator; the lemmas argue by
the least counterexample instead: a nonempty set of naturals has a least member
(`LeastNatural`), a finite set on which a claim fails has a smallest part on which it fails
(`MinimalSubset`), and from these the sum of a union, or of a set less one member. The loops
of the graph are recursive functions that call themselves last: the equation of such a
function has a solution whatever its step is (`LoopExists`), and where two measures cannot
both stay it returns what it has in a state where the loop is done (`LoopReturns`).

**Only model-checked:** liveness (`QueuedIsTaken`, `StopTerminates`,
`DeadStartTimesDropped`), which is out of the prover's reach. Every invariant and action
property of the passing runs is proved, `DeliveredToAll` under the assumption
`SubscribedOnce`; of `RejectionsReported` it is proved when it holds, and the run shows that
it does where the enforcer's name is registered at SYSTEM.

## 5. What is not modelled

The journal and the flight recorder are left out for good. Both only append to a file that
nothing in the program reads, and only log the errors of that. The recorder subscribes to
`"*"` (`diagnostics/recorder.py:55`), which the exact match of the bus never delivers. Left
out as well are statistics and metrics, the text of logs, the contents and the JSON form of
payloads, and the demonstration scripts. `check_action()` and `has_permission()` are called
by tests only. `subscribe()` is taken to precede `start()`. `BlobManager` fixes the quotas
that the code derives from trust levels, and has a limited cache with a directory; what is
not limited or has no directory does less. `get_status()` and the callback of blocking tasks,
which logs, are the parts of `kernel.py` without a counterpart. Snapshots have one file.
In `SafeModeNotices` the bus is not stopped. What the executors of a thread pool do is
external, and so is what the events of exceeded budgets bring about: nothing in the source
subscribes to them.

## 6. Findings

1. **No rejection is heard under the kernel** (`kernel_violations`). The enforcer publishes
   violations as `BloodyHeart.TrustEnforcer`, marked `# internal, trusted`
   (`governance/trust.py:168`), but the kernel never registers that name; the report is
   rejected by the enforcer's own rules, and the report of that, until RecursionError.
2. **A full queue can stop the system** (`full_queue`). `enqueue` documents that a full
   queue drops the event, but awaits `put()`, which waits. A callback that publishes to a
   full queue waits for the processor that runs it, for good; a `stop()` whose
   cancellation was swallowed before then hangs as well.
3. **P0 preempts nothing** (`preemption_p0`). The names of the priorities are compared the
   wrong way round (`core/scheduler.py:79`), so a P0 event cancels no task.
4. **Retries defeat optimistic locking** (`optimistic_locking`). After a conflict `put()`
   adopts the version it found (`state/store.py:129`) and overwrites a value its caller
   never saw.
5. **A torn append loses the next record** (`torn_append`). `_append()` writes on in the
   unfinished line, and the replay stops there (`core/compensation.py:88`).

Met while modelling, without a statement in the code that they contradict: a `start()`
during a pending `stop()` leaves a bus that counts as started and has no processor; the
undo log is written before the put is tried, so rolling back a refused put overwrites the
writes of others; a circuit once open never closes, because the only reset follows a
success; a late `mark_completed()` overwrites COMPENSATED; a quota refusal at the second
value of a payload leaves the first stored and referenced by nobody; a blob larger than
the cache evicts all others and itself; quotas apply to `authenticated_emitter` only, so
publishers that pass none have none; an operator who lowers the mode while a handler waits
between its two escalations is overruled by the second; `reset_to_normal` leaves no entry
in the history and publishes nothing; a subscriber to the changes of the mode may end with a
level below the one in force, when an escalation overtook the de-escalations before it, or
with another one when a queue was full; `restore_snapshot()` leaves keys alone that the
snapshot lacks, and reports a key as failed whose put took effect but could not be published;
a module that is registered again keeps its old dependencies, though `register_module` logs
"Overwriting."; a listener that changes a health state makes the listeners after it believe
the outer, older change; dry-run contexts that overlap leave the flag as the later one saved
it, so operations in the other are not simulated and those after both may be; two first calls
of `submit()` may create two executors of one name, of which one is never shut by
`shutdown()`; a `submit()` that adds a pool during `shutdown()` breaks it off and leaves pools
that are shut in the table; `memory_limit_mb` is compared with nothing; the governor reports
use above a limit, the watchdog use that reaches it; a CPU budget of less than a second may
be used up and overrun without a report, because the watchdog divides by `max(budget, 1)`
(`governance/watchdog.py:96-98`); the reports of both are P0 events and end at the enforcer's
rules (`governance/trust.py:119-140`), which reject the watchdog's because it comes without an
authenticated emitter from a source that is not registered, and the governor's because its
emitter is not registered at SYSTEM; priority is strict and nothing ages, so P0 and P1 traffic
without end starves P2 (`core/scheduler.py:113-123`); the governor's doc says its event is
"consumed by SecurityEscalationMatrix" (`governance/resource.py:41`), but nothing subscribes
the matrix to it.

## 7. Plan

Done: the event plane with its abstract channel, preemption, the store with its snapshots,
compensation, the blob manager, the safe mode with its notices, and the kernel's other
services; proofs of every safety property that the passing runs check.

Next, models: what `start()` during a pending `stop()` leaves behind, once the code says what
it should.
