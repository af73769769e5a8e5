----------------------------- MODULE QoSManager -----------------------------
(***************************************************************************)
(* The QoS manager: circuit breaker and adaptive throttling behind one     *)
(* sync.RWMutex, used by the webhook handler's goroutines and by the       *)
(* configuration reload.                                                   *)
(*                                                                         *)
(* ShouldThrottle takes the READ lock, yet isCircuitOpen WRITES            *)
(* circuitOpen and failureCount when the recovery timeout has passed, so   *)
(* several goroutines may be in the middle of that recovery at once.  The  *)
(* steps of a ShouldThrottle call are therefore separate actions; the      *)
(* sections under the write lock are atomic, because everything they touch *)
(* is touched under the lock only.                                         *)
(*                                                                         *)
(* A slot r \in Requests is one event dispatch from ShouldThrottle to its  *)
(* UpdateMetrics call; slots are reused, so traffic never ends.            *)
(*                                                                         *)
(* Time is kept as ages: openAge is time.Since(circuitOpenTime), adjustAge *)
(* is time.Since(lastAdjustment).  Both stop at MaxAge, which exceeds each *)
(* duration they are compared with.  failureCount stops at MaxFailures,    *)
(* which no configured threshold exceeds.                                  *)
(***************************************************************************)
EXTENDS Throttling

CONSTANTS
  Requests,      \* request slots
  Reloader,      \* the goroutine that calls UpdateConfig
  None,          \* no writer holds or awaits the lock
  Configs,       \* the configurations that may be loaded
  Loads,         \* readings of the load counter
  Readings,      \* <<observer load, average response time>> pairs
  MaxAge, MaxFailures

ASSUME QoSAssumption ==
  /\ Reloader \notin Requests /\ None \notin Requests /\ Reloader # None
  /\ Configs \subseteq QoSConfig /\ Configs # {}
  /\ Loads \subseteq Nat
  /\ Readings \subseteq Nat \X Nat
  /\ MaxAge \in Nat /\ MaxFailures \in Nat
  /\ \A c \in Configs : /\ c.RecoveryTimeout < MaxAge
                        /\ c.AdjustmentInterval < MaxAge
                        /\ c.FailureThreshold <= MaxFailures

VARIABLES
  cfg,            \* qm.qosConfig
  circuitOpen,
  openAge,        \* age of circuitOpenTime
  failureCount,
  throttleLevel,  \* fraction
  adjustAge,      \* age of lastAdjustment
  pc,             \* where each slot is
  success,        \* the flag it will pass to UpdateMetrics
  writer          \* who holds or awaits the write lock

breaker == <<circuitOpen, openAge, failureCount>>
throttle == <<throttleLevel, adjustAge>>
slots == <<pc, success>>
vars == <<cfg, breaker, throttle, slots, writer>>

Priorities ==
  {MessagePriority(m[1], m[2], m[3]) : m \in BOOLEAN \X BOOLEAN \X BOOLEAN}

-----------------------------------------------------------------------------
(* sync.RWMutex: Lock first takes the writers' mutex and announces itself  *)
(* (writer), then waits until the readers that were there have left.  A    *)
(* reader that calls RLock meanwhile blocks ("rlock"), and every blocked   *)
(* reader enters when the writer unlocks.                                  *)

Reading == {"check", "close", "reset", "adapt"}

Readers == {r \in Requests : pc[r] \in Reading}

Lock(w) == writer = None /\ writer' = w

HoldsLock(w) == writer = w /\ Readers = {}

WokenReaders == [r \in Requests |-> IF pc[r] = "rlock" THEN "check" ELSE pc[r]]

-----------------------------------------------------------------------------
(* ShouldThrottle, under the read lock.                                    *)

\* The handler calls ShouldThrottle: RLock.
ShouldThrottle(r) ==
  /\ pc[r] = "idle"
  /\ pc' = [pc EXCEPT ![r] = IF writer = None THEN "check" ELSE "rlock"]
  /\ UNCHANGED <<cfg, breaker, throttle, success, writer>>

\* RUnlock with a verdict; the slot goes on to UpdateMetrics(_, ok).
Decide(r, ok) ==
  /\ pc' = [pc EXCEPT ![r] = "metrics"]
  /\ success' = [success EXCEPT ![r] = ok]

BreakerTrips == cfg.breakerEnabled /\ circuitOpen

RecoveryDue == openAge > cfg.RecoveryTimeout

\* isCircuitOpen up to its first write.
IsCircuitOpen(r) ==
  /\ pc[r] = "check"
  /\ \/ /\ ~BreakerTrips
        /\ pc' = [pc EXCEPT ![r] = "adapt"]
        /\ UNCHANGED success
     \/ /\ BreakerTrips /\ RecoveryDue
        /\ pc' = [pc EXCEPT ![r] = "close"]
        /\ UNCHANGED success
     \/ /\ BreakerTrips /\ ~RecoveryDue
        /\ Decide(r, FALSE)
  /\ UNCHANGED <<cfg, breaker, throttle, writer>>

\* qm.circuitOpen = false
CloseCircuit(r) ==
  /\ pc[r] = "close"
  /\ circuitOpen' = FALSE
  /\ pc' = [pc EXCEPT ![r] = "reset"]
  /\ UNCHANGED <<cfg, openAge, failureCount, throttle, success, writer>>

\* qm.failureCount = 0
ResetFailures(r) ==
  /\ pc[r] = "reset"
  /\ failureCount' = 0
  /\ pc' = [pc EXCEPT ![r] = "adapt"]
  /\ UNCHANGED <<cfg, circuitOpen, openAge, throttle, success, writer>>

\* shouldAdaptiveThrottle, with the priority the handler computed before the
\* call, and RUnlock.
AdaptiveThrottle(r) ==
  /\ pc[r] = "adapt"
  /\ \E priority \in Priorities, load \in Loads :
       Decide(r, ~ShouldAdaptiveThrottle(cfg, throttleLevel, priority, load))
  /\ UNCHANGED <<cfg, breaker, throttle, writer>>

-----------------------------------------------------------------------------
(* UpdateMetrics, under the write lock.  A throttled dispatch reports a    *)
(* failure; an admitted one reports the result of Submit, which is always  *)
(* true.                                                                   *)

UpdateCircuitBreaker(ok) ==
  LET count == Lesser(failureCount + 1, MaxFailures) IN
  \/ /\ ~cfg.breakerEnabled
     /\ UNCHANGED breaker
  \/ /\ cfg.breakerEnabled /\ ok
     /\ failureCount' = 0
     /\ UNCHANGED <<circuitOpen, openAge>>
  \/ /\ cfg.breakerEnabled /\ ~ok
     /\ failureCount' = count
     /\ IF count >= cfg.FailureThreshold
        THEN circuitOpen' = TRUE /\ openAge' = 0
        ELSE UNCHANGED <<circuitOpen, openAge>>

UpdateAdaptiveThrottling ==
  IF cfg.throttlingEnabled /\ adjustAge >= cfg.AdjustmentInterval
  THEN /\ \E x \in Readings : \E i \in AdaptiveIntervals(cfg, x[1], x[2]) :
            throttleLevel' = LevelOf(cfg, i)
       /\ adjustAge' = 0
  ELSE UNCHANGED throttle

LockMetrics(r) ==
  /\ pc[r] = "metrics"
  /\ Lock(r)
  /\ UNCHANGED <<cfg, breaker, throttle, slots>>

\* Mutant: RLock where the code has Lock, so that readers may be inside.
InMetrics_RLock(r) == writer = r

InMetrics(r) == HoldsLock(r)

\* Mutant: no deferred Unlock.
Unlocked_Not == writer

Unlocked == None

UpdateMetrics(r) ==
  /\ InMetrics(r)
  /\ UpdateCircuitBreaker(success[r])
  /\ UpdateAdaptiveThrottling
  /\ pc' = [WokenReaders EXCEPT ![r] = "idle"]
  /\ writer' = Unlocked
  /\ UNCHANGED <<cfg, success>>

-----------------------------------------------------------------------------
(* UpdateConfig, under the write lock.                                     *)

\* Mutants: one of the two comparisons is missing.
BreakerChanged_ThresholdOnly(old, new) ==
  old.FailureThreshold # new.FailureThreshold
BreakerChanged_EnabledOnly(old, new) ==
  old.breakerEnabled # new.breakerEnabled

BreakerChanged(old, new) ==
  \/ old.breakerEnabled # new.breakerEnabled
  \/ old.FailureThreshold # new.FailureThreshold

ThrottlingChanged(old, new) ==
  \/ old.throttlingEnabled # new.throttlingEnabled
  \/ old.BaseThreshold # new.BaseThreshold
  \/ old.MaxThreshold # new.MaxThreshold

LockConfig ==
  /\ Lock(Reloader)
  /\ UNCHANGED <<cfg, breaker, throttle, slots>>

UpdateConfig(new) ==
  /\ HoldsLock(Reloader)
  /\ cfg' = new
  /\ IF BreakerChanged(cfg, new)
     THEN circuitOpen' = FALSE /\ failureCount' = 0
     ELSE UNCHANGED <<circuitOpen, failureCount>>
  /\ IF ThrottlingChanged(cfg, new)
     THEN throttleLevel' = NoThrottle /\ adjustAge' = 0
     ELSE UNCHANGED throttle
  /\ pc' = WokenReaders
  /\ writer' = None
  /\ UNCHANGED <<openAge, success>>

-----------------------------------------------------------------------------
\* The clock.
Tick ==
  /\ openAge' = Lesser(openAge + 1, MaxAge)
  /\ adjustAge' = Lesser(adjustAge + 1, MaxAge)
  /\ UNCHANGED <<cfg, circuitOpen, failureCount, throttleLevel, slots, writer>>

\* NewQoSManager: circuitOpenTime is the zero time, lastAdjustment is now.
Init ==
  /\ cfg \in Configs
  /\ circuitOpen = FALSE
  /\ openAge = MaxAge
  /\ failureCount = 0
  /\ throttleLevel = NoThrottle
  /\ adjustAge = 0
  /\ pc = [r \in Requests |-> "idle"]
  /\ success = [r \in Requests |-> TRUE]
  /\ writer = None

\* The steps one request's goroutine takes by itself.
Step(r) ==
  \/ IsCircuitOpen(r)
  \/ CloseCircuit(r)
  \/ ResetFailures(r)
  \/ AdaptiveThrottle(r)
  \/ UpdateMetrics(r)

Next ==
  \/ \E r \in Requests : ShouldThrottle(r) \/ LockMetrics(r) \/ Step(r)
  \/ LockConfig
  \/ \E new \in Configs : UpdateConfig(new)
  \/ Tick

Spec == Init /\ [][Next]_vars

\* The scheduler runs every runnable goroutine; the writers' mutex hands the
\* lock over first-in first-out once a waiter starves; the clock advances; the
\* platform keeps sending.
Fairness ==
  /\ \A r \in Requests :
       WF_vars(ShouldThrottle(r)) /\ WF_vars(Step(r)) /\ SF_vars(LockMetrics(r))
  /\ WF_vars(\E new \in Configs : UpdateConfig(new))
  /\ WF_vars(Tick)

FairSpec == Spec /\ Fairness
-----------------------------------------------------------------------------
(* Properties.                                                             *)

\* Every variable has its type; the throttle level is a fraction of [0, 1].
TypeOK ==
  /\ cfg \in Configs
  /\ circuitOpen \in BOOLEAN
  /\ openAge \in 0..MaxAge
  /\ failureCount \in 0..MaxFailures
  /\ throttleLevel \in [num : Nat, den : Nat \ {0}]
  /\ throttleLevel.num <= throttleLevel.den
  /\ adjustAge \in 0..MaxAge
  /\ pc \in [Requests -> Reading \cup {"idle", "rlock", "metrics"}]
  /\ success \in [Requests -> BOOLEAN]
  /\ writer \in Requests \cup {Reloader, None}

\* A feature that is switched off leaves nothing behind: with the breaker
\* disabled the circuit is closed and no failure is counted, with throttling
\* disabled the level is zero.  It relates UpdateConfig's resets to the early
\* returns of updateCircuitBreaker and updateAdaptiveThrottling.
DisabledIsNeutral ==
  /\ ~cfg.breakerEnabled => ~circuitOpen /\ failureCount = 0
  /\ ~cfg.throttlingEnabled => throttleLevel = NoThrottle

\* A closed circuit has not reached its threshold, whatever the order of
\* failures, reloads and concurrent recoveries, except in the two statements
\* of isCircuitOpen that close it.
ClosedBelowThreshold ==
  ~circuitOpen /\ (\A r \in Requests : pc[r] # "reset")
    => failureCount = 0 \/ failureCount < cfg.FailureThreshold

\* The circuit closes only when, at that moment, the recovery timeout has
\* passed since circuitOpenTime, or a reload replaced the configuration: the
\* check a ShouldThrottle call made earlier is never out of date.
ClosesOnlyWhenDue ==
  [][circuitOpen /\ ~circuitOpen' => RecoveryDue \/ cfg' # cfg]_vars

\* No dispatch is admitted at a moment when the circuit is open, although
\* the circuit was read some steps earlier.
NoAdmissionWhileOpen ==
  [][\A r \in Requests :
       pc[r] \in Reading /\ pc'[r] = "metrics" /\ success'[r]
         => ~BreakerTrips]_vars

\* Every dispatch gets its verdict and has its metrics recorded: neither the
\* readers nor the writers of qm.mu starve.
EveryDispatchFinishes ==
  \A r \in Requests : pc[r] # "idle" ~> pc[r] = "idle"

\* What isCircuitOpen's comment and log message promise, "Check if we should
\* try to close the circuit" and "Circuit breaker closed, attempting
\* recovery": under steady traffic an open circuit does not stay open for
\* ever.
BreakerRecovers == circuitOpen ~> ~circuitOpen
=============================================================================
