# TLA+ verification of QQBotRouter

QQBotRouter receives webhook requests of QQ bots, checks and acknowledges them, decides whether to throttle, queues
the accepted ones in a priority scheduler, and forwards each to one or more HTTP destinations.  This directory
holds TLA+ modules of its components, TLC configurations, and TLAPS proofs.  Paths below are relative to the repository.

To repeat the checks: `tlc -config X.cfg M` with the module that the table of runs names, `tlapm M.tla` for the
modules whose names end in `Proofs`.

## 1. Inventory

| component | source | state | operations |
|---|---|---|---|
| QoS manager | `qos/qos.go`, `qos/throttling_strategy.go` | `circuitOpen`, `circuitOpenTime`, `failureCount`, `throttleLevel`, `lastAdjustment`, `qosConfig`, one `sync.RWMutex` | `ShouldThrottle` (read lock), `UpdateMetrics`, `UpdateConfig` (write lock) |
| forwarder | `forwarder/forwarder.go`, `load/load.go` | per call: goroutines, wait group, `resultChan`, context; shared: the load counter | `ForwardToMultipleDestinations`, `ForwardRequestWithResult`, `sendResult` |
| scheduler queue and workers | `scheduler/scheduler.go` | the heap `pq`, the channel `workerPool`, the workers, the context | `Submit`, `Run`, `workerWithContext` |
| priority calculation | `scheduler/scheduler.go`, `scheduler/strategy.go` | `schedulerConfig`, `userLastRequest` | `calculatePriority`, `UpdateConfig`, the strategies |
| webhook handler | `handler/handler.go`, `handler/protocol.go` | the request, its context, its reply; the initial configuration | `ServeHTTP`, `VerifySignature`, `HandleChallenge` |
| configuration watcher and reload | `config/config.go`, `main.go` | the file, `currentConfig` twice, debounce timer, channels, what each component keeps | `NewConfigWatcher`, `Start`, `watchLoop`, `reloadConfig`, `handleConfigReload`, `Stop` |
| message classification | `utils/message.go` | the sender's history | `CalculateMessagePriority` and helpers |
| default configuration | `config/defaults.go`, `config/*_config.go` | none | `SetDefaults`, `GetDefault...Config` |
| service manager, lifecycle | `services/manager.go`, `main.go` | services, wait group, signal channel, the two servers | `StartAll`, `WaitForAll`, signal, `cancel`, `server.Shutdown` |
| statistics, observer | `stats/stats.go`, `observer/observer.go` | lists of measurements, two baselines, a threshold, the mode-switch channel | `Record...`, `P50`, `P90`, `GetCurrentLoad`, `Run`, `ModeSwitched` |
| ML trainer | `ml_trainer/` | none | a ticking loop with an empty body |
| TLS, directories, interfaces | `autocert/`, `initialize/`, `interfaces/` | none or a library's | wrapper, pure I/O, types |

### Interactions

```
   client --HTTP--> ServeHTTP --ShouldThrottle--> QoSManager <--UpdateMetrics-- ServeHTTP and its goroutine
                      | 200, then a goroutine                 ^
                      v                                       | reads: load counter, observer, statistics
                   Submit --heap.Push--> pq --Run--> workerPool --> workerWithContext --> Forwarder --> destinations
                      (calculatePriority)                                                  (load counter)
   file --fsnotify--> watchLoop --timer--> reloadConfig --> watcher, main, logger, QoSManager, Scheduler
   signal --> main --cancel--> scheduler, analyzer, observer, ML trainer, QoS loop --wait group--> main --> server.Shutdown
```

The HTTP server runs a goroutine per request; an accepted dispatch continues in a goroutine of its own that inherits
`r.Context()`.  `Run` and the workers are goroutines of the scheduler.  The debounce timer starts each reload in a new
goroutine.  The QoS manager and the load counter are shared by all of them under locks or atomics; the heap is shared
by `Submit` and `Run` without any; `schedulerConfig` is written under a lock that its readers do not take.

### What is hard, and what makes each component correct

* *QoS manager.*  `isCircuitOpen` writes under the read lock, so several goroutines may be half way through the same
  recovery.  Correct: no dispatch is admitted while the circuit is open, the circuit closes only when that is due at
  the very moment, counters fit the configuration that is in force after any reload, the level stays in [0, 1],
  and neither readers nor writers starve.
* *Forwarder.*  Senders, closer, collector and cancellation.  Correct: no send on a closed channel, the call returns,
  nothing is left running, the load counter counts exactly the forwards in flight, no result is lost unless the
  context is done.
* *Scheduler.*  Three kinds of goroutines around a heap without a lock and a bounded channel.  Correct: no request is lost or
  duplicated, higher priorities go first up to what is already in the channel, everything ends after `cancel()`.  The first
  part is false of the code (`SchedulerRace`); what is true is that only requests that were in the heap during an overlap
  of heap operations are harmed.
* *Priority.*  A clamp that reads the configuration several times while it may be replaced.  Correct: the result lies
  between bounds the operator configured.
* *Handler.*  The request outlives its `ServeHTTP`.  Correct: destinations see only verified, admitted dispatches,
  none of them twice, and each dispatch whose body was read is reported to the QoS manager.
* *Reload.*  Events, a timer, sequences of updates that can overlap.  Correct: everything converges to the file.
* *Default configuration.*  A file may leave out anything; defaults replace a section when one of its fields is 0.
  Correct: the fields that `SetDefaults` tests (`MaxLoad`, `BasePriority`, the ports, the level) are set in every configuration in use, and
  what the program writes when there is no file is valid.  Other fields of a section may stay 0, `LoadThreshold`, a divisor, among them.
* *Lifecycle.*  A signal may come at any moment, services may not have begun, dispatches keep arriving until the server
  is shut down.  Correct: the process ends, services before it, no handler is cut off before the deadline, and what is still acknowledged
  does not keep the services going.
* *Statistics, observer.*  An update between a reset and the points that follow it, on short or empty lists.
  Correct: a pair of baselines is of one data set and of one mode; no reading is NaN.

`PROJECT.json` lists each hazard at its line with the properties that cover it.

## 2. Modules

| module | models | state and actions |
|---|---|---|
| `Throttling` | the arithmetic of throttling and message priority | operators only: configuration and readings to interval (a set of them, where the build decides), interval to level, level, priority and load to verdict |
| `QoSManager` | `qos.go` | one variable per field; times are ages.  Each step of `ShouldThrottle` under the read lock is an action; a section under the write lock is one |
| `ForwardCall` | what one `ForwardToMultipleDestinations` promises | abstract: a call is idle, active or returned; each destination pending, ok, failed or dropped |
| `Forwarder` | `forwarder.go`, `load.go` | goroutine places `g`, wait group, channel, context, load counter; one action per visible step of the caller, the closer, and the goroutines; implements `ForwardCall` |
| `RequestQueue` | what the scheduler promises of a submitted request | abstract: a request is new, waiting, delivered or handled; it has a rank, and at most `Slack` requests of lower rank are delivered while it waits; once it is `broken` it promises nothing |
| `Scheduler` | the heap, `Run`, workers | the heap is a set (the order of `container/heap` among equals is arbitrary).  `Run`'s check of the context (`Poll`), its reading of the length (`Measure`), the reading of the last slot (`Cut`), the store (`Popped`) and the send are actions of their own, and so are a push's read (`Submit`) and store (`Pushed`).  Operations that overlap have any outcome of the race, a panic included; `raced` is the set of requests that an overlap has put at risk and of the operations in it.  Implements `RequestQueue` with `Slack` the length of the channel and `Run`'s hand, broken from the first overlap on |
| `Priority` | `calculatePriority`, `Scheduler.UpdateConfig` | program counter per call; each unlocked read of the configuration is an action |
| `Router` | `ServeHTTP`, the submitting goroutine, the worker's POSTs | EXTENDS `Scheduler` and composes its `Submit`, `Pushed`, `Take`, `Forward`, `Exit` with the handler's and the context's steps; the reading of the body (`ReadBody`) and each POST (`Post`) are actions of their own; `resent` and `unsent` record second POSTs and forwards that ended early |
| `ConfigFile` | `Validate`, `SetDefaults`, the defaults | operators only: the fields of a configuration on which one of these or a reload depends |
| `ConfigReload` | watcher, timer, `reloadConfig`, `handleConfigReload`, `initLogger` | EXTENDS `ConfigFile`; the file, the watch, the queue of events, the timer, the loop; each component's critical section is an action |
| `Lifecycle` | `main`, `services/manager.go`, `server.Shutdown` | EXTENDS `Scheduler` and composes its `Submit`, `Pushed`, `RunStep`, `WorkerStep`, `Cancel` with main's program counter, the wait group, a goroutine per service, the servers and the handlers |
| `Baselines` | `stats.go`, `observer.go`, the load's comparison | count, sum and extremes of each list; both `Run` loops, the mode-switch channel; `reset` and `updateBaselines` are separate actions, as each takes the lock for itself |
| `MC*` | instances for TLC | values of the constants that a `.cfg` cannot write down; in `MCScheduler` and `MCRouter` also a bound on the behaviours with overlaps, `FewRaces` |
| `*Proofs` | inductive invariants and proofs | — |

Operators called `X_Y`, right before `X`, are altered forms of `X` (one plausible bug each) with which TLC confirms that
a property can fail; no specification uses them.

### Abstractions

* Message texts, signatures, payloads, status codes and log lines are reduced to the outcome of the checks on them.
* Ratios in `float64` are exact rationals.  The code's products may differ in the last bit: `int(0.6*6 + 0.4*1)` is 3 where
  the exact value is 4.  The configurations of the runs are such that both agree.
* Durations are natural numbers of a coarse unit; `time.Since` is an age that stops at a bound greater than
  every duration it is compared with.
* As `main.go` wires the program, nothing calls `RecordLatency` or `RecordMessageInterval`, so readings of the observer and
  statistics are always zero.  The modules allow any call the interfaces permit, at any time.
* A forward whose context is already done sends nothing (behaviour of `net/http`'s transport).
* A load divided by a `LoadThreshold` of 0 is infinite, or NaN if `BaseThreshold` is 0 too; what converting that to a
  `Duration` gives is up to the build.  `AdaptiveIntervals` has both outcomes: the least number, which ends at
  `BaseThreshold` (amd64), and the greatest, which is capped at `MaxThreshold`; 0 for NaN.
* A configuration is a record of the fields that `Validate`, `SetDefaults`, `initLogger` or a reload look at; the other
  fields travel with it.  Equal write events that wait in fsnotify's queue are one.
* A list of measurements is its length, sum, minimum and maximum.  `Percentile` is a library's: any value between the extremes, none
  for an empty list, and the 50th not above the 90th (taken from the library, not shown).
* In `Lifecycle` a handler is reduced to whether it acknowledges (`Router` has its checks); the
  configuration watcher is left to `ConfigReload`, as its `Stop` cannot block.
* An empty bot secret makes `generateSeed` (`handler/protocol.go:75`) loop for ever.  `Validate` refuses such a
  configuration, but `main` does not call it for the first one.  The handler of such a request (`"secretless"`) never steps.
* The comment `throttling_strategy.go:91` speaks of the higher interval; the code takes the weighted mean and then at least
  `BaseThreshold`.  The module follows the code.

## 3. Runs

| run | module | question | bounds |
|---|---|---|---|
| `QoS` | `MCQoSManager` | types, `DisabledIsNeutral`, `ClosedBelowThreshold`, `ClosesOnlyWhenDue`, `NoAdmissionWhileOpen`, `EveryDispatchFinishes` | 2 slots used again and again, 4 configurations (two breakers, one of them with `LoadThreshold` 0; breaker off; throttling off), ages up to 3, 2 failures |
| `QoSRecovery` | `MCQoSManager` | **violated**: `BreakerRecovers` | 1 configuration |
| `Forwarder` | `Forwarder` | types, load counter, channel, return, completeness, refinement of `ForwardCall` | 1 call with any subset of 3 destinations |
| `Scheduler` | `MCScheduler` | types, `QueuedIsKept`, `AtMostOnce`, refinement of `RequestQueue` (`ImplementsQueue`), `QueuedIsHandled`, `ShutdownCompletes`; heap operations may overlap | 4 requests, 2 priorities, 1 worker; in a behaviour with an overlap 3 requests of one priority |
| `SchedulerRace` | `Scheduler` | **violated**: `SubmittedIsKept` | 2 requests, 1 worker |
| `Priority` | `MCPriority` | types, `WithinHull` | 2 calls, 1 user, 4 configurations, with disjoint ranges and one with a maximum of 0 below its minimum among them, 3 instants |
| `Router` | `MCRouter` | types, `OnlyAdmittedSent`, `SentOnce`, `EveryDispatchReported`; heap operations may overlap | 2 requests of each of 9 kinds, 1 worker, 1 destination; in a behaviour with an overlap the services go on and no request is cancelled before its `ServeHTTP` returns |
| `RouterContext` | `MCRouter` | **violated**: `AcknowledgedIsSent` | 1 request |
| `Reload` | `MCConfigReload` | types, `TestedDefaultsSet`, `Converged`, `OnlyValidInstalled`, `Settles` when reloads do not overlap | 4 contents (complete; another level and limit, no `LoadThreshold`; nearly empty; invalid with an unknown level), an unparsable and a missing file, 3 edits, 2 reload goroutines |
| `ReloadOverlap` | `MCConfigReload` | **violated**: `ComponentsAgree` when they may overlap | 2 edits |
| `Lifecycle` | `Lifecycle` | types, `AllServicesReturned`, `NoHandlerCutOff`, `AtMostOneLate`, `SignalEndsProcess`; heap operations may overlap | 2 requests, 1 worker, 2 ticking services and the scheduler |
| `Baselines` | `Baselines` | types, `FreshDataOnly`, `SwitchesTaken` | 1 caller of `ModeSwitched` again and again, 2 intervals, 2 latencies, thresholds 0.8 and 1, lists of up to 2, at least 0 or 2 points for a baseline |

Why the bounds suffice.  Two slots put two readers into one recovery, or a reader against a writer, with the reload
as a third party; reuse gives histories of any length.  Three destinations let one goroutine send, one fail, and one be
cancelled in any order.  Four requests with one worker (and so a channel of length one) fill the channel, `Run`'s hand
and the worker and leave one to overtake: two requests of lower priority can go ahead of it, the queue's `Slack`.  Three requests
with overlaps are two that race, with each other or with a pop, and one that should not be harmed, before or after.  Two calls for one user are enough for
the order of their times to be reversed.  In `Router` two requests meet at the heap, the channel and the worker.  Three edits
reach the debounce delay, a running reload and the time after it.  In `Lifecycle` one request can be in the channel or with the worker
while the other is acknowledged after `cancel()` and pushed while `Run` pops.  In `Baselines` two intervals on each side of a switch
distinguish old points from new ones and make P50 differ from P90; 0 points as the minimum is what `SetDefaults` leaves of a file that sets
`base_priority` only.

The bounds `FewRaces` keep the state spaces small: after an overlap the heap is out of order, so priorities no longer matter,
and what a stop, or a context cancelled early, does to requests in order is in the same runs without an overlap, and to a heap in
disorder in `Scheduler` and `Lifecycle`.  The proofs have no such bound.  In `Reload`, two reloads do not overlap, as
`ReloadOverlap` shows what happens otherwise.

`CHECK_DEADLOCK FALSE` stands where a finite number of calls, requests or edits ends or a shutdown stops the system.
`QoS`, `Priority` and `Baselines` run for ever, and deadlock is checked there.

### Disagreements between code and comments

1. `QoSRecovery`: a rejected dispatch is reported as a failure, and each failure at or above the threshold sets
   `circuitOpenTime` anew.  While dispatches come more often than the recovery timeout, an open circuit stays open.
2. `SchedulerRace`: `Submit` returns true for a request that a concurrent heap operation then overwrites.
3. `RouterContext`: a dispatch is acknowledged, and its forward is made with a context that `net/http` has cancelled.
4. `RouterContext`, too: `handler.go:161` says "Update QoS metrics with processing results".  What is reported is what `Submit` returned,
   the constant true, before any processing: in the run's behaviour, a success for a dispatch that is sent nowhere.  This is also why no
   property speaks of the flag: `EveryDispatchReported` says that there is a report, not that it is right.
5. `ReloadOverlap`: two reloads interleave and leave components with different configurations.

Noticed, and not the subject of a run.  The first three contradict comments.

* Throttling by load never starts, while `throttling_strategy.go:14` says "adjusts throttling based on system load" and `:24` "High load:
  increase throttling".  `main.go:149` makes the observer's threshold of `LoadThreshold`, a ratio such as 0.8,
  by a conversion to whole milliseconds, which gives 0 ms, and `GetCurrentLoad` takes that as no load.  From 1 on the load, at most 1, does not
  exceed the ratio.  There is no run, as nothing in the behaviour changes; `LoadInert` proves it for every threshold that no reload has
  replaced.  (`DefaultValues.QoS` at `defaults.go:139` has 80.0, but nothing reads it; `GetDefaultQoSConfig` has 0.8.)
* Dispatches acknowledged between `cancel()` and `server.Shutdown` are never processed, against `handler.go:155`, except for at most one,
  which `Run` takes if it had passed its check of the context (`AtMostOneLate`).  Nobody waits for the workers: a
  forward may be cut off when `main` returns.
* `config.go:292` speaks of setting defaults for "missing configuration fields", but `SetDefaults` looks at one field of a section.
  `worker_pool_size` missing next to a `base_priority` stays 0, and no worker starts.  `load_threshold` missing next to a `max_load` stays 0 and is
  a divisor: on amd64 any load above 0 then gives the interval `BaseThreshold`, so that next to slow responses a rising load lowers the level.
* The clamp of `calculatePriority` reads the configuration up to three times; with a reload in between the result may lie
  between the two ranges (`WithinHull` is what holds).  With the default `HighLoadAdjustment` of -2 the spam penalty raises the priority.
* The handler and the server's timeouts never get a reloaded configuration; a reload that turns hot reload off does not
  stop the watcher; the debounce timer can outlive the watcher's loop; a renamed file ends the watch.

### Fairness

* `QoSManager`: runnable goroutines run (WF).  `LockMetrics` has SF: `sync.Mutex`, the writers' mutex of the `RWMutex`, hands
  over in order once a waiter has starved for a millisecond.  WF of `ShouldThrottle` is steady traffic, WF of `Tick` is time.
  Nobody has to reload, but a reload that waits for the lock gets it.
* `Forwarder`: runnable goroutines run.  `client.Do` returns because its context expires after the processing timeout.  No fairness on
  `Cancel` or `Call`.
* `Scheduler`: runnable goroutines run and the idle timer fires.  No fairness on `Submit` or `Cancel`.
* `Router`: runnable goroutines run.  No fairness on `Arrive`, `Disconnect` or `Cancel`, and none on `ReadBody`: the server has no
  `ReadTimeout` (`main.go:206`), so `io.ReadAll` (`handler.go:78`) waits as long as a client stalls.  A request to a bot
  without a secret never steps.
* `ConfigReload`: runnable goroutines run, the timer fires.  No fairness on edits or `Stop`.
* `Lifecycle`: `main`, the services' goroutines and the scheduler's `Run` run, and the deadline of `Shutdown` passes.  Handlers,
  workers and submitting goroutines may stand still for ever; no fairness on signals, arrivals or failures.
* `Baselines`: `Run` is scheduled.  `ReceiveSwitch` has WF: a select takes any ready case, and the tick is not always ready.  `Send` has SF for each
  caller, because a channel serves blocked senders in the order in which they came.  No fairness on anything else.

## 4. Proofs

All hold for every value of the constants that satisfies the modules' assumptions, among them that the sets of requests, workers, services
and so on are finite, and that the names of processes (`Run`) and the null values are no members of them.

* `QoSManagerProofs`: `IInv` adds `CheckStillHolds` to the types and the two state invariants: while a reader is past the check,
  what it read is still true (a due recovery is still due, a closed circuit still closed), because writers wait for readers and other readers change
  the circuit only towards closed.  From it follow `TypeCorrect` (with the lemma that the level is a fraction of [0, 1]),
  `DisabledNeutral`, `ClosedBelow`, and the action properties `ClosesDue` and `NoAdmission`.  The second part is about the arithmetic
  of `Throttling`, on exact fractions.  Of the verdict: priority 10 is never throttled by load (`UrgentAdmitted`); a lower
  priority, a higher load or a higher level never turns a refusal into an admission (`PriorityProtects`,
  `LoadIncreases`, `LevelThrottles`), which is what the comments in `qos.go` promise; and from priority 5 on nothing is refused unless the load
  exceeds `HighLoadThreshold` (`OrdinaryNeedsHighLoad`).  Of the level: it never falls when the load or the response
  time rises, through the strategies, their weighted mean and its truncation, even with contradictory bounds in the configuration, provided that `LoadThreshold` is not 0 (`LevelFollowsReadings`).  With 0 it is false on
  amd64.  The types, the level in [0, 1] included, hold with 0 as well.
* `ForwarderProofs`: `IInv` says that `wg` counts the goroutines spawned and not done, that `load` counts those in flight, and,
  per call, how loop, channel and results relate to the goroutines' places.  It yields `LoadCorrect`, `SendSafe`, `CleanReturn`,
  `Complete`, and `Refinement`: `Spec => Abstract!Spec`.
* `SchedulerProofs` is about the code as it is: heap operations may overlap everywhere.
  - `TInv`: types, who holds a request in which state, and that a request that is not submitted is nowhere and not at risk.
    It gives `TypeCorrect`; `PopNeverStalls`, a pop in progress finds a request to take, for a push never leaves the heap
    empty and a finite non-empty set has a greatest element (`TopExists`, from the least element of a set of naturals); and
    `ShutdownEnds`, after `cancel()` each step lowers `StepsLeft`, which is at most
    2·requests + 7 + 4·`PoolSize`.  These two are the safety half of `ShutdownCompletes`: the scheduler cannot run on, and
    does not stop in the middle of a pop.
  - `IInv` adds that damage is confined (`Confined`).  An operation that overlaps none is alone and finds the heap as it read it; all
    that is in the heap, or in what an operation has read, while an operation that overlaps is in progress is in `raced`.
    So whatever a racing operation stores, requests outside `raced` stay where they are.  This makes `QueuedIsKept` and
    `AtMostOnce` inductive, and gives `Kept` and `Once` without a hypothesis.  That the exception for `raced` is needed is what
    `SchedulerRace` shows.
  - `FairOrder` speaks of the time until the first overlap: the overtakers of a request are among those that were in the channel or `Run`'s
    hand when it was queued, and an overtaker that is still to come is still there.  It gives `Bounded`.
  - `Refinement` puts them together, `Spec => Queue!Spec`: `Submit`'s store is the queue's `Accept`, a worker's receive its
    `Deliver`, the end of a forward its `Finish`, the first overlap its `Break`, and everything else, `cancel()` too, a stutter.
* `PriorityProofs`: `IInv` says that the present configuration is among those seen and that the clamp's intermediate results are
  not below every bound, then not above every bound.  `Hull` follows.  Nothing is assumed about minimum and maximum:
  neither `Validate` nor `SetDefaults` makes the one less than the other.
* `RouterProofs`: every step of the composition is a step of `Scheduler` or leaves its variables alone
  (`ImplementsScheduler`), so `Scheduler`'s invariants hold in it.  On top of `TInv`, `RInv` follows a request: it is submitted only by
  its goroutine, which exists only after the 200, and has been sent somewhere only if it was submitted.  It yields
  `RouterTypeCorrect` and `AdmittedOnly`: the race can lose or repeat a dispatch, but not let
  one through.  On top of `IInv`, `SentInTurn` says that a request not at risk is sent by the one worker that has it, to destinations this worker has
  not served; it yields `OnceSent`.  `QueueInRouter` carries `Refinement` over.
* `LifecycleProofs`, with overlapping heap operations throughout: `ImplementsScheduler` again, so `TInv` holds.  `LInv` says that the wait
  group counts the services that were spawned and have not returned (`Unreturned`), how far services and server are by where `main` is
  (`Staged`), and, for requests acknowledged late, that none has left the heap while `Run` has still to finish the pop it was at when `cancel()` came, and afterwards
  at most one (`LateState`): `Run` does not pass its check of the context again.  It yields `LifeTypeCorrect` (the
  counter of the wait group, for one, never goes below zero, where `sync.WaitGroup` panics), `ServicesBack`, `NotCutOff`, `LateBounded`, and `WaitHasEnd`:
  while `main` waits, a service that has been told to stop is still to return.  `SchedulerEnds` carries `ShutdownEnds` over.
* `ConfigReloadProofs`: `DefaultConfigValid` and `ValidateCommutes` are about the pure operators.  `IInv` says that what is installed has the
  defaults of the fields that are tested, and that what a reload holds has been validated and completed; it needs no assumption about overlaps, and yields
  `TestedDefaults` and `OnlyValid`.  `Convergence` assumes `Exclusive`; its invariant says that for a file that differs from what is installed
  somewhere there is an event, an armed timer or a reload that has not read yet, and for each component that a running reload has passed or
  not reached, which configuration it has.
* `BaselinesProofs`: `IInv` relates the analyzer's list to the points since the last switch: unless a reset is still to come, the list
  lies between the least and the greatest of them.  It yields `TypeCorrect` and `FreshBaselines`.  `LoadInert` is arithmetic; its
  hypothesis is that the ratio in force is the one the observer was made of, as a reload changes only the former.

Model-checked only: liveness (`EveryDispatchFinishes`, `CallReturns`, `QueuedIsHandled`, `ShutdownCompletes`,
`EveryDispatchReported`, `Settles`, `SignalEndsProcess`, `SwitchesTaken`), which the prover cannot do under fairness.
Every invariant and every other action property of the passing runs is also proved; of `ShutdownCompletes` and `SignalEndsProcess`,
`ShutdownEnds`, `PopNeverStalls` and `WaitHasEnd` are what can be said without fairness.

## 5. Not modelled

* `SetThrottlingStrategy`, `CalculateThrottleLevel`, `SetPriorityStrategy`, `worker()`, the legacy `Watch`, `ModeSwitched`'s callers: no
  code calls them (or there are none).
* The response-time averages and `GetMetrics`: only logged.
* Unbounded growth of the heap and of `userLastRequest`: nothing in the code bounds them, so there is nothing to check.
* `container/heap`'s array: it is a library's; of `Less`, `Swap`, `Push` and `Pop` the order and the set remain.
* `autocert` (a library's wrapper; `UpdateDomains` has no callers), directory creation (I/O), interfaces (types).
* The data races on the logger and the torn pair that `GetMetrics` logs: only log lines depend on them.

## 6. Plan

1. Of the other liveness properties, the safety half: a bounded number of steps for a call of the forwarder, and a wait in
   `QoSManager` that always has somebody who can end it.
2. Endless arrivals: requests of low priority behind a stream of high ones, with request slots that are used again.
3. The queue under overlaps as an abstract specification of its own: which requests one overlap may lose or repeat.
4. `QoSManager` composed with `Baselines`, so that the readings are those of the statistics rather than any.
