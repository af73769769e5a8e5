-------------------------- MODULE QoSManagerProofs --------------------------
(***************************************************************************)
(* Proofs about QoSManager, for every number of request slots, every set   *)
(* of configurations and every bound.                                      *)
(*                                                                         *)
(* The point of the argument is that isCircuitOpen, which writes under the *)
(* read lock, is still right: what a reader learned from its check cannot  *)
(* be undone before it acts on it, because a write section needs           *)
(* Readers = {} and the other readers can only close the circuit.          *)
(*                                                                         *)
(* The last sections are about the arithmetic of Throttling: what the      *)
(* verdict and the level do as priority, load and response time grow.      *)
(***************************************************************************)
EXTENDS QoSManager, TLAPS

\* What a slot that is past its check still knows.
CheckStillHolds ==
  \A r \in Requests :
    /\ pc[r] = "close" => cfg.breakerEnabled /\ RecoveryDue
    /\ pc[r] = "reset" => ~circuitOpen
    /\ pc[r] = "adapt" => ~BreakerTrips

\* The inductive invariant.
IInv == TypeOK /\ CheckStillHolds /\ DisabledIsNeutral /\ ClosedBelowThreshold

-----------------------------------------------------------------------------
\* The interval-to-level conversion yields a fraction of [0, 1]: the
\* subtraction and the division of updateAdaptiveThrottling never leave it.
LEMMA LevelIsFraction ==
  ASSUME NEW c \in QoSConfig, NEW i \in Int
  PROVE  /\ LevelOf(c, i) \in [num : Nat, den : Nat \ {0}]
         /\ LevelOf(c, i).num <= LevelOf(c, i).den
<1>1. c.BaseInterval \in Nat /\ c.MaxInterval \in Nat
  BY DEF QoSConfig
<1>2. CASE i <= c.BaseInterval
  BY <1>2 DEF LevelOf, NoThrottle
<1>3. CASE i > c.BaseInterval /\ i >= c.MaxInterval
  BY <1>1, <1>3 DEF LevelOf, FullThrottle
<1>4. CASE i > c.BaseInterval /\ i < c.MaxInterval
  BY <1>1, <1>4 DEF LevelOf
<1> QED
  BY <1>1, <1>2, <1>3, <1>4

\* The strategies' interval is an integer, whatever they read.
LEMMA IntervalIsInteger ==
  ASSUME NEW c \in QoSConfig, NEW load \in Nat, NEW avg \in Nat,
         NEW i \in AdaptiveIntervals(c, load, avg)
  PROVE  i \in Int
<1>1. /\ c.BaseThreshold \in Nat /\ c.MaxThreshold \in Nat
      /\ c.LoadThreshold \in Nat /\ Second \in Nat \ {0}
  BY SecondAssumption DEF QoSConfig
<1>2. c.BaseThreshold * load \in Int /\ c.BaseThreshold * avg \in Int
  BY <1>1
<1>3. ASSUME c.LoadThreshold # 0 \/ load = 0
      PROVE  LoadInterval(c, load) \in Int
  <2>1. CASE load > c.LoadThreshold
    <3>1. c.LoadThreshold \in Nat \ {0}
      BY <1>1, <1>3, <2>1
    <3>2. (c.BaseThreshold * load) \div c.LoadThreshold \in Int
      BY <1>2, <3>1
    <3> QED
      BY <1>1, <3>2 DEF LoadInterval, Lesser
  <2>2. CASE ~(load > c.LoadThreshold)
    BY <1>1, <2>2 DEF LoadInterval
  <2> QED
    BY <2>1, <2>2
<1>4. ResponseInterval(c, avg) \in Int
  <2>1. (c.BaseThreshold * avg) \div Second \in Int
    BY <1>1, <1>2
  <2> QED
    BY <1>1, <2>1 DEF ResponseInterval, Lesser
<1>5. ASSUME NEW k \in Int PROVE Weighted(c, k, avg) \in Int
  BY <1>1, <1>4 DEF Weighted, Greater
<1> QED
  BY <1>1, <1>3, <1>5 DEF AdaptiveIntervals

\* A write section changes the slots only by waking blocked readers.
LEMMA WokenReadersType ==
  ASSUME TypeOK
  PROVE  /\ WokenReaders \in [Requests -> Reading \cup {"idle", "rlock", "metrics"}]
         /\ \A r \in Requests :
             \/ WokenReaders[r] = pc[r]
             \/ pc[r] = "rlock" /\ WokenReaders[r] = "check"
BY DEF TypeOK, WokenReaders, Reading

\* A write section has the lock to itself.
LEMMA WriterExcludesReaders ==
  ASSUME TypeOK, NEW w, HoldsLock(w)
  PROVE  \A r \in Requests : pc[r] \notin Reading
BY DEF HoldsLock, Readers, TypeOK

-----------------------------------------------------------------------------
LEMMA InitIInv == Init => IInv
<1> SUFFICES ASSUME Init PROVE IInv
  OBVIOUS
<1> USE QoSAssumption DEF Init
<1>1. TypeOK
  <2>1. throttleLevel \in [num : Nat, den : Nat \ {0}]
        /\ throttleLevel.num <= throttleLevel.den
    BY DEF NoThrottle
  <2>2. pc \in [Requests -> Reading \cup {"idle", "rlock", "metrics"}]
    OBVIOUS
  <2>3. /\ openAge \in 0..MaxAge /\ adjustAge \in 0..MaxAge
        /\ failureCount \in 0..MaxFailures
    OBVIOUS
  <2>4. cfg \in Configs /\ circuitOpen \in BOOLEAN
    OBVIOUS
  <2>5. /\ success \in [Requests -> BOOLEAN]
        /\ writer \in Requests \cup {Reloader, None}
    OBVIOUS
  <2> QED
    BY <2>1, <2>2, <2>3, <2>4, <2>5 DEF TypeOK
<1>2. CheckStillHolds
  BY DEF CheckStillHolds
<1>3. DisabledIsNeutral /\ ClosedBelowThreshold
  BY DEF DisabledIsNeutral, ClosedBelowThreshold
<1> QED
  BY <1>1, <1>2, <1>3 DEF IInv

\* The invariant is preserved by each step of a reader.
LEMMA ReaderStep ==
  ASSUME IInv, NEW r \in Requests,
         ShouldThrottle(r) \/ LockMetrics(r) \/ IsCircuitOpen(r)
           \/ CloseCircuit(r) \/ ResetFailures(r) \/ AdaptiveThrottle(r)
  PROVE  IInv'
<1> USE QoSAssumption DEF IInv, breaker, throttle, slots
<1>1. CASE ShouldThrottle(r)
  <2>1. TypeOK'
    BY <1>1 DEF ShouldThrottle, TypeOK, Reading
  <2>2. CheckStillHolds'
    BY <1>1 DEF ShouldThrottle, TypeOK, CheckStillHolds, BreakerTrips, RecoveryDue
  <2>3. DisabledIsNeutral' /\ ClosedBelowThreshold'
    BY <1>1 DEF ShouldThrottle, TypeOK, DisabledIsNeutral, ClosedBelowThreshold
  <2> QED
    BY <2>1, <2>2, <2>3
<1>2. CASE LockMetrics(r)
  BY <1>2 DEF LockMetrics, Lock, TypeOK, CheckStillHolds, BreakerTrips,
              RecoveryDue, DisabledIsNeutral, ClosedBelowThreshold
<1>3. CASE IsCircuitOpen(r)
  <2>1. TypeOK'
    BY <1>3 DEF IsCircuitOpen, Decide, TypeOK, Reading
  <2>2. CheckStillHolds'
    BY <1>3 DEF IsCircuitOpen, Decide, TypeOK, CheckStillHolds, BreakerTrips,
                RecoveryDue
  <2>3. DisabledIsNeutral' /\ ClosedBelowThreshold'
    BY <1>3 DEF IsCircuitOpen, Decide, TypeOK, DisabledIsNeutral,
                ClosedBelowThreshold
  <2> QED
    BY <2>1, <2>2, <2>3
<1>4. CASE CloseCircuit(r)
  <2>1. TypeOK'
    BY <1>4 DEF CloseCircuit, TypeOK, Reading
  <2>2. CheckStillHolds'
    BY <1>4 DEF CloseCircuit, TypeOK, CheckStillHolds, BreakerTrips, RecoveryDue
  <2>3. DisabledIsNeutral' /\ ClosedBelowThreshold'
    BY <1>4 DEF CloseCircuit, TypeOK, DisabledIsNeutral, ClosedBelowThreshold
  <2> QED
    BY <2>1, <2>2, <2>3
<1>5. CASE ResetFailures(r)
  <2>1. TypeOK'
    BY <1>5 DEF ResetFailures, TypeOK, Reading
  <2>2. CheckStillHolds'
    BY <1>5 DEF ResetFailures, TypeOK, CheckStillHolds, BreakerTrips, RecoveryDue
  <2>3. DisabledIsNeutral' /\ ClosedBelowThreshold'
    BY <1>5 DEF ResetFailures, TypeOK, DisabledIsNeutral, ClosedBelowThreshold
  <2> QED
    BY <2>1, <2>2, <2>3
<1>6. CASE AdaptiveThrottle(r)
  <2> PICK ok \in BOOLEAN : Decide(r, ok)
    BY <1>6 DEF AdaptiveThrottle, ShouldAdaptiveThrottle, AboveHalf
  <2> UNCHANGED <<cfg, breaker, throttle, writer>>
    BY <1>6 DEF AdaptiveThrottle
  <2>1. TypeOK'
    BY DEF Decide, TypeOK, Reading
  <2>2. CheckStillHolds'
    BY DEF Decide, TypeOK, CheckStillHolds, BreakerTrips, RecoveryDue
  <2>3. pc[r] = "adapt"
    BY <1>6 DEF AdaptiveThrottle
  <2>4. DisabledIsNeutral' /\ ClosedBelowThreshold'
    BY <2>3 DEF Decide, TypeOK, DisabledIsNeutral, ClosedBelowThreshold
  <2> QED
    BY <2>1, <2>2, <2>4
<1> QED
  BY <1>1, <1>2, <1>3, <1>4, <1>5, <1>6

\* The invariant is preserved by the write section of UpdateMetrics.
LEMMA UpdateMetricsStep ==
  ASSUME IInv, NEW r \in Requests, UpdateMetrics(r)
  PROVE  IInv'
<1> USE QoSAssumption DEF IInv, breaker, throttle, slots
<1>1. \A q \in Requests : pc[q] \notin Reading
  BY WriterExcludesReaders DEF UpdateMetrics, InMetrics
<1>2. /\ pc' \in [Requests -> Reading \cup {"idle", "rlock", "metrics"}]
      /\ \A q \in Requests : pc'[q] \notin {"close", "reset", "adapt"}
  BY <1>1, WokenReadersType DEF UpdateMetrics, Reading
<1>3. cfg' = cfg /\ cfg \in QoSConfig /\ cfg.FailureThreshold <= MaxFailures
  BY DEF UpdateMetrics, TypeOK
<1>4. cfg.FailureThreshold \in Nat /\ cfg.breakerEnabled \in BOOLEAN
  BY <1>3 DEF QoSConfig
<1>5. /\ circuitOpen' \in BOOLEAN /\ openAge' \in 0..MaxAge
      /\ failureCount' \in 0..MaxFailures
  <2>1. /\ circuitOpen \in BOOLEAN /\ openAge \in 0..MaxAge
        /\ failureCount \in 0..MaxFailures
    BY DEF TypeOK
  <2>2. Lesser(failureCount + 1, MaxFailures) \in 0..MaxFailures
    BY <2>1 DEF Lesser
  <2>3. UpdateCircuitBreaker(success[r])
    BY DEF UpdateMetrics
  <2>4. circuitOpen' \in BOOLEAN
    BY <2>1, <2>3, Zenon DEF UpdateCircuitBreaker
  <2>5. openAge' \in 0..MaxAge
    BY <2>1, <2>3 DEF UpdateCircuitBreaker
  <2>6. failureCount' \in 0..MaxFailures
    BY <2>1, <2>2, <2>3 DEF UpdateCircuitBreaker
  <2> QED
    BY <2>4, <2>5, <2>6
<1>6. /\ throttleLevel' \in [num : Nat, den : Nat \ {0}]
      /\ throttleLevel'.num <= throttleLevel'.den
      /\ adjustAge' \in 0..MaxAge
  <2>1. CASE cfg.throttlingEnabled /\ adjustAge >= cfg.AdjustmentInterval
    <3> PICK x \in Readings : \E i \in AdaptiveIntervals(cfg, x[1], x[2]) :
          throttleLevel' = LevelOf(cfg, i)
      BY <2>1 DEF UpdateMetrics, UpdateAdaptiveThrottling
    <3> PICK i \in AdaptiveIntervals(cfg, x[1], x[2]) :
          throttleLevel' = LevelOf(cfg, i)
      OBVIOUS
    <3>1. x[1] \in Nat /\ x[2] \in Nat
      OBVIOUS
    <3>2. i \in Int
      BY <1>3, <3>1, IntervalIsInteger
    <3>3. adjustAge' = 0
      BY <2>1 DEF UpdateMetrics, UpdateAdaptiveThrottling
    <3> QED
      BY <1>3, <3>2, <3>3, LevelIsFraction
  <2>2. CASE ~(cfg.throttlingEnabled /\ adjustAge >= cfg.AdjustmentInterval)
    BY <2>2 DEF UpdateMetrics, UpdateAdaptiveThrottling, TypeOK
  <2> QED
    BY <2>1, <2>2
<1>7. TypeOK'
  BY <1>2, <1>3, <1>5, <1>6 DEF TypeOK, UpdateMetrics, Unlocked
<1>8. CheckStillHolds'
  BY <1>2 DEF CheckStillHolds
<1>9. DisabledIsNeutral'
  BY <1>3, <1>4 DEF DisabledIsNeutral, UpdateMetrics, UpdateCircuitBreaker,
                    UpdateAdaptiveThrottling
<1>10. ClosedBelowThreshold'
  <2>1. \A q \in Requests : pc[q] # "reset"
    BY <1>1 DEF Reading
  <2>2. CASE cfg.breakerEnabled /\ ~success[r]
    BY <1>3, <1>4, <2>2 DEF ClosedBelowThreshold, UpdateMetrics,
                            UpdateCircuitBreaker, Lesser, TypeOK
  <2>3. CASE cfg.breakerEnabled /\ success[r]
    BY <2>3 DEF ClosedBelowThreshold, UpdateMetrics, UpdateCircuitBreaker
  <2>4. CASE ~cfg.breakerEnabled
    BY <1>3, <2>1, <2>4 DEF ClosedBelowThreshold, UpdateMetrics,
                            UpdateCircuitBreaker
  <2> QED
    BY <1>4, <2>2, <2>3, <2>4
<1> QED
  BY <1>7, <1>8, <1>9, <1>10

\* The invariant is preserved by a reload.
LEMMA UpdateConfigStep ==
  ASSUME IInv, NEW new \in Configs, UpdateConfig(new)
  PROVE  IInv'
<1> USE QoSAssumption DEF IInv, breaker, throttle, slots
<1>1. \A q \in Requests : pc[q] \notin Reading
  BY WriterExcludesReaders DEF UpdateConfig
<1>2. /\ pc' \in [Requests -> Reading \cup {"idle", "rlock", "metrics"}]
      /\ \A q \in Requests : pc'[q] \notin {"close", "reset", "adapt"}
  BY <1>1, WokenReadersType DEF UpdateConfig, Reading
<1>3. TypeOK'
  <2>1. /\ throttleLevel' \in [num : Nat, den : Nat \ {0}]
        /\ throttleLevel'.num <= throttleLevel'.den
        /\ adjustAge' \in 0..MaxAge
    BY DEF TypeOK, UpdateConfig, NoThrottle
  <2>2. cfg' \in Configs /\ openAge' \in 0..MaxAge
        /\ failureCount' \in 0..MaxFailures
    BY DEF TypeOK, UpdateConfig
  <2>3. circuitOpen' \in BOOLEAN
    BY Zenon DEF TypeOK, UpdateConfig
  <2>4. /\ success' \in [Requests -> BOOLEAN]
        /\ writer' \in Requests \cup {Reloader, None}
    BY DEF TypeOK, UpdateConfig
  <2> QED
    BY <1>2, <2>1, <2>2, <2>3, <2>4 DEF TypeOK
<1>4. CheckStillHolds'
  BY <1>2 DEF CheckStillHolds
<1>5. /\ new.breakerEnabled \in BOOLEAN /\ cfg.breakerEnabled \in BOOLEAN
      /\ new.throttlingEnabled \in BOOLEAN /\ cfg.throttlingEnabled \in BOOLEAN
  BY DEF TypeOK, QoSConfig
<1>6. DisabledIsNeutral'
  BY <1>5 DEF DisabledIsNeutral, UpdateConfig, BreakerChanged, ThrottlingChanged
<1>7. ClosedBelowThreshold'
  <2>1. \A q \in Requests : pc[q] # "reset"
    BY <1>1 DEF Reading
  <2> QED
    BY <2>1 DEF ClosedBelowThreshold, UpdateConfig, BreakerChanged
<1> QED
  BY <1>3, <1>4, <1>6, <1>7

\* The invariant is preserved by the clock and by the announcement of a
\* reload.
LEMMA TickStep == ASSUME IInv, Tick \/ LockConfig PROVE IInv'
<1> USE QoSAssumption DEF IInv, breaker, throttle, slots
<1>1. CASE LockConfig
  BY <1>1 DEF LockConfig, Lock, TypeOK, CheckStillHolds, BreakerTrips,
              RecoveryDue, DisabledIsNeutral, ClosedBelowThreshold
<1>2. CASE Tick
  <2>1. TypeOK'
    BY <1>2 DEF Tick, TypeOK, Lesser
  <2>2. cfg.RecoveryTimeout \in Nat /\ cfg.RecoveryTimeout < MaxAge
    BY DEF TypeOK, QoSConfig
  <2>3. RecoveryDue => RecoveryDue'
    BY <1>2, <2>2 DEF RecoveryDue, Tick, Lesser, TypeOK
  <2>4. CheckStillHolds'
    BY <1>2, <2>3 DEF CheckStillHolds, Tick, BreakerTrips
  <2>5. DisabledIsNeutral' /\ ClosedBelowThreshold'
    BY <1>2 DEF Tick, DisabledIsNeutral, ClosedBelowThreshold
  <2> QED
    BY <2>1, <2>4, <2>5
<1> QED
  BY <1>1, <1>2

LEMMA NextIInv == IInv /\ [Next]_vars => IInv'
<1> SUFFICES ASSUME IInv, [Next]_vars PROVE IInv'
  OBVIOUS
<1>1. ASSUME NEW r \in Requests, ShouldThrottle(r) \/ LockMetrics(r) \/ Step(r)
      PROVE  IInv'
  BY <1>1, ReaderStep, UpdateMetricsStep DEF Step
<1>2. CASE LockConfig \/ Tick
  BY <1>2, TickStep
<1>3. ASSUME NEW new \in Configs, UpdateConfig(new) PROVE IInv'
  BY <1>3, UpdateConfigStep
<1>4. CASE UNCHANGED vars
  BY <1>4 DEF vars, breaker, throttle, slots, IInv, TypeOK, CheckStillHolds,
              BreakerTrips, RecoveryDue, DisabledIsNeutral, ClosedBelowThreshold
<1> QED
  BY <1>1, <1>2, <1>3, <1>4 DEF Next

\* The inductive invariant holds in every reachable state.
THEOREM Invariance == Spec => []IInv
BY InitIInv, NextIInv, PTL DEF Spec

-----------------------------------------------------------------------------
\* Every variable keeps its type; in particular the throttle level computed
\* by the strategies stays within [0, 1].
THEOREM TypeCorrect == Spec => []TypeOK
BY Invariance, PTL DEF IInv

\* Switching a feature off, in whatever state the manager is, leaves none of
\* its effects behind.
THEOREM DisabledNeutral == Spec => []DisabledIsNeutral
BY Invariance, PTL DEF IInv

\* A closed circuit is below its threshold, although several readers may be
\* closing it at once under the read lock.
THEOREM ClosedBelow == Spec => []ClosedBelowThreshold
BY Invariance, PTL DEF IInv

\* A ShouldThrottle call never closes the circuit on out-of-date grounds.
THEOREM ClosesDue == Spec => ClosesOnlyWhenDue
<1>1. ASSUME IInv, [Next]_vars, circuitOpen, ~circuitOpen'
      PROVE  RecoveryDue \/ cfg' # cfg
  <2> USE <1>1 DEF breaker, throttle, slots
  <2>1. ASSUME NEW r \in Requests, CloseCircuit(r) PROVE RecoveryDue
    BY <2>1 DEF CloseCircuit, IInv, CheckStillHolds
  <2>2. ASSUME NEW r \in Requests, UpdateMetrics(r) PROVE FALSE
    BY <2>2 DEF UpdateMetrics, UpdateCircuitBreaker
  <2>3. ASSUME NEW new \in Configs, UpdateConfig(new) PROVE cfg' # cfg
    BY <2>3 DEF UpdateConfig, BreakerChanged
  <2>4. ASSUME NEW r \in Requests,
               ShouldThrottle(r) \/ LockMetrics(r) \/ IsCircuitOpen(r)
                 \/ ResetFailures(r) \/ AdaptiveThrottle(r)
        PROVE  FALSE
    BY <2>4 DEF ShouldThrottle, LockMetrics, IsCircuitOpen, ResetFailures,
                AdaptiveThrottle
  <2>5. CASE LockConfig \/ Tick \/ UNCHANGED vars
    BY <2>5 DEF LockConfig, Tick, vars
  <2> QED
    BY <2>1, <2>2, <2>3, <2>4, <2>5 DEF Next, Step
<1>2. IInv /\ [Next]_vars
        => [circuitOpen /\ ~circuitOpen' => RecoveryDue \/ cfg' # cfg]_vars
  BY <1>1
<1> QED
  BY <1>2, Invariance, PTL DEF Spec, ClosesOnlyWhenDue

\* No dispatch is admitted while the circuit is open.
THEOREM NoAdmission == Spec => NoAdmissionWhileOpen
<1> DEFINE Admits(q) == pc[q] \in Reading /\ pc'[q] = "metrics" /\ success'[q]
<1>1. ASSUME IInv, [Next]_vars, NEW q \in Requests, Admits(q)
      PROVE  ~BreakerTrips
  <2> USE <1>1 DEF breaker, throttle, slots, IInv
  <2>1. pc \in [Requests -> Reading \cup {"idle", "rlock", "metrics"}]
        /\ success \in [Requests -> BOOLEAN]
    BY DEF TypeOK
  <2>2. pc[q] # "metrics"
    BY DEF Reading
  <2>3. ASSUME NEW r \in Requests, AdaptiveThrottle(r) PROVE ~BreakerTrips
    <3>1. r = q
      BY <2>1, <2>2, <2>3 DEF AdaptiveThrottle, Decide
    <3> QED
      BY <2>3, <3>1 DEF AdaptiveThrottle, CheckStillHolds
  <2>4. ASSUME NEW r \in Requests, IsCircuitOpen(r) PROVE FALSE
    BY <2>1, <2>2, <2>4 DEF IsCircuitOpen, Decide
  <2>5. ASSUME NEW r \in Requests,
               ShouldThrottle(r) \/ LockMetrics(r) \/ CloseCircuit(r)
                 \/ ResetFailures(r)
        PROVE  FALSE
    BY <2>1, <2>2, <2>5 DEF ShouldThrottle, LockMetrics, CloseCircuit,
                            ResetFailures
  <2>6. ASSUME NEW r \in Requests, UpdateMetrics(r) PROVE FALSE
    BY <2>1, <2>2, <2>6, WokenReadersType DEF UpdateMetrics
  <2>7. ASSUME NEW new \in Configs, UpdateConfig(new) PROVE FALSE
    BY <2>2, <2>7, WokenReadersType DEF UpdateConfig
  <2>8. CASE LockConfig \/ Tick \/ UNCHANGED vars
    BY <2>2, <2>8 DEF LockConfig, Tick, vars
  <2> QED
    BY <2>3, <2>4, <2>5, <2>6, <2>7, <2>8 DEF Next, Step
<1>2. IInv /\ [Next]_vars
        => [\A r \in Requests : Admits(r) => ~BreakerTrips]_vars
  BY <1>1
<1> QED
  BY <1>2, Invariance, PTL DEF Spec, NoAdmissionWhileOpen

-----------------------------------------------------------------------------
(* The verdict of adaptive throttling, for every configuration, level and  *)
(* load.                                                                   *)

\* A throttle level as the manager keeps it.
Level == {l \in [num : Nat, den : Nat \ {0}] : l.num <= l.den}

\* l is at most m.
AtMost(l, m) == l.num * m.den <= m.num * l.den

HighLoad(c, load) == 100 * load > c.HighLoadThreshold * c.MaxLoad

\* The two sides of the comparison with one half, without and with the factor
\* for high load.
Weight(level, priority) == 2 * level.num * (10 - priority)

\* Products are monotone.
LEMMA Product ==
  ASSUME NEW a \in Nat, NEW b \in Nat, NEW k \in Nat, a <= b
  PROVE  a * k \in Nat /\ b * k \in Nat /\ a * k <= b * k
<1>1. b - a \in Nat
  OBVIOUS
<1>2. (b - a) * k \in Nat /\ (b - a) * k = b * k - a * k
  BY <1>1
<1> QED
  BY <1>2

\* CalculateMessagePriority stays between 1 and 10.
LEMMA MessagePriorityRange ==
  ASSUME NEW spam \in BOOLEAN, NEW urgent \in BOOLEAN, NEW fast \in BOOLEAN
  PROVE  MessagePriority(spam, urgent, fast) \in 1..10
BY DEF MessagePriority, Lesser

\* What the comparison compares are naturals.
LEMMA VerdictTypes ==
  ASSUME NEW c \in QoSConfig, NEW l \in Level, NEW p \in 0..10
  PROVE  /\ c.MaxLoad \in Nat \ {0} /\ c.HighLoadThreshold \in Nat
         /\ l.num \in Nat /\ l.den \in Nat \ {0} /\ l.num <= l.den
         /\ 10 - p \in Nat /\ Weight(l, p) \in Nat
         /\ Weight(l, p) = (10 - p) * (2 * l.num)
<1>1. /\ c.MaxLoad \in Nat \ {0} /\ c.HighLoadThreshold \in Nat
      /\ l.num \in Nat /\ l.den \in Nat \ {0} /\ l.num <= l.den
  BY DEF QoSConfig, Level
<1>2. 10 - p \in Nat
  OBVIOUS
<1>3. Weight(l, p) \in Nat /\ Weight(l, p) = (10 - p) * (2 * l.num)
  BY <1>1, <1>2 DEF Weight
<1> QED
  BY <1>1, <1>2, <1>3

\* The verdict, in terms of these.
LEMMA Verdict ==
  ASSUME NEW c \in QoSConfig, NEW l \in Level, NEW p \in 0..10, NEW load \in Nat
  PROVE  ShouldAdaptiveThrottle(c, l, p, load) <=>
           /\ c.throttlingEnabled
           /\ \/ /\ HighLoad(c, load)
                 /\ Weight(l, p) * (c.MaxLoad + load) > 10 * l.den * c.MaxLoad
              \/ ~HighLoad(c, load) /\ Weight(l, p) > 10 * l.den
BY DEF ShouldAdaptiveThrottle, AboveHalf, HighLoad, Weight

\* A message of the highest priority is never throttled by load, whatever the
\* level and the load.
THEOREM UrgentAdmitted ==
  ASSUME NEW c \in QoSConfig, NEW l \in Level, NEW load \in Nat
  PROVE  ~ShouldAdaptiveThrottle(c, l, 10, load)
<1>1. /\ c.MaxLoad \in Nat /\ l.den \in Nat /\ l.num \in Nat
      /\ Weight(l, 10) = (10 - 10) * (2 * l.num)
  BY 10 \in 0..10, VerdictTypes
<1>2. /\ Weight(l, 10) = 0 /\ Weight(l, 10) * (c.MaxLoad + load) = 0
      /\ 10 * l.den \in Nat
  BY <1>1
<1>3. 10 * l.den * c.MaxLoad \in Nat
  BY <1>1, <1>2
<1> QED
  BY <1>2, <1>3, 10 \in 0..10, Verdict

\* qos.go: "High priority requests have lower throttle probability": with the
\* same level and load, what is throttled at one priority is throttled at each
\* lower one.
THEOREM PriorityProtects ==
  ASSUME NEW c \in QoSConfig, NEW l \in Level, NEW load \in Nat,
         NEW p \in 0..10, NEW q \in 0..10, p <= q,
         ShouldAdaptiveThrottle(c, l, q, load)
  PROVE  ShouldAdaptiveThrottle(c, l, p, load)
<1>1. /\ Weight(l, q) \in Nat /\ Weight(l, p) \in Nat
      /\ Weight(l, q) = (10 - q) * (2 * l.num)
      /\ Weight(l, p) = (10 - p) * (2 * l.num)
      /\ 10 - q \in Nat /\ 10 - p \in Nat /\ 10 - q <= 10 - p
      /\ l.num \in Nat /\ l.den \in Nat /\ c.MaxLoad \in Nat
  BY VerdictTypes
<1>2. Weight(l, q) <= Weight(l, p)
  BY <1>1, 2 * l.num \in Nat, Product
<1>3. c.MaxLoad + load \in Nat /\ 10 * l.den \in Nat
  BY <1>1
<1>4. /\ Weight(l, q) * (c.MaxLoad + load) <= Weight(l, p) * (c.MaxLoad + load)
      /\ Weight(l, q) * (c.MaxLoad + load) \in Nat
      /\ Weight(l, p) * (c.MaxLoad + load) \in Nat
  BY <1>1, <1>2, <1>3, Product
<1>5. 10 * l.den * c.MaxLoad \in Nat
  BY <1>1, <1>3
<1>6. /\ Weight(l, q) > 10 * l.den => Weight(l, p) > 10 * l.den
      /\ Weight(l, q) * (c.MaxLoad + load) > 10 * l.den * c.MaxLoad
           => Weight(l, p) * (c.MaxLoad + load) > 10 * l.den * c.MaxLoad
  BY <1>1, <1>2, <1>3, <1>4, <1>5
<1> QED
  BY <1>6, Verdict

\* Messages of the usual priority, 5, and above are throttled only while the
\* load exceeds HighLoadThreshold, even at the full level.
THEOREM OrdinaryNeedsHighLoad ==
  ASSUME NEW c \in QoSConfig, NEW l \in Level, NEW load \in Nat,
         NEW p \in 5..10, ShouldAdaptiveThrottle(c, l, p, load)
  PROVE  HighLoad(c, load)
<1>1. p \in 0..10
  OBVIOUS
<1>2. /\ 10 - p \in Nat /\ 10 - p <= 5
      /\ l.num <= l.den /\ l.num \in Nat /\ l.den \in Nat
      /\ Weight(l, p) = (10 - p) * (2 * l.num) /\ Weight(l, p) \in Nat
  BY <1>1, VerdictTypes
<1>3. (10 - p) * (2 * l.num) <= 5 * (2 * l.num)
  BY <1>2, 2 * l.num \in Nat, Product
<1>4. ~(Weight(l, p) > 10 * l.den)
  BY <1>2, <1>3
<1> QED
  BY <1>1, <1>4, Verdict

\* qos.go: "Increase throttle probability under high load": a rising load never
\* turns a refusal into an admission.
THEOREM LoadIncreases ==
  ASSUME NEW c \in QoSConfig, NEW l \in Level, NEW p \in 0..10,
         NEW load \in Nat, NEW more \in Nat, load <= more,
         ShouldAdaptiveThrottle(c, l, p, load)
  PROVE  ShouldAdaptiveThrottle(c, l, p, more)
<1> DEFINE w == Weight(l, p)
           m == c.MaxLoad
           d == 10 * l.den
<1>1. w \in Nat /\ m \in Nat \ {0} /\ d \in Nat
  BY VerdictTypes
<1>2. HighLoad(c, load) => HighLoad(c, more)
  <2>1. c.HighLoadThreshold \in Nat /\ c.MaxLoad \in Nat
    BY VerdictTypes
  <2>2. c.HighLoadThreshold * c.MaxLoad \in Nat
    BY <2>1
  <2> QED
    BY <2>2 DEF HighLoad
<1>3. /\ \/ HighLoad(c, load) /\ w * (m + load) > d * m
         \/ ~HighLoad(c, load) /\ w > d
      /\ c.throttlingEnabled
  BY Verdict
<1>4. ASSUME \/ HighLoad(c, more) /\ w * (m + more) > d * m
             \/ ~HighLoad(c, more) /\ w > d
      PROVE  ShouldAdaptiveThrottle(c, l, p, more)
  BY <1>3, <1>4, Verdict
<1> HIDE DEF w, m, d
<1>5. d * m \in Nat
  BY <1>1
<1>6. /\ w * (m + load) <= w * (m + more) /\ w * m <= w * (m + more)
      /\ w * (m + load) \in Nat /\ w * (m + more) \in Nat /\ w * m \in Nat
  <2>1. /\ m + load \in Nat /\ m + more \in Nat
        /\ m + load <= m + more /\ m <= m + more
    BY <1>1
  <2>2. /\ (m + load) * w <= (m + more) * w /\ m * w <= (m + more) * w
        /\ (m + load) * w \in Nat /\ (m + more) * w \in Nat /\ m * w \in Nat
    BY <1>1, <2>1, Product
  <2> QED
    BY <1>1, <2>2
<1>7. w > d => w * m > d * m
  <2> SUFFICES ASSUME w > d PROVE w * m > d * m
    OBVIOUS
  <2>1. (w - d) \in Nat \ {0} /\ (w - d) * m = w * m - d * m
    BY <1>1
  <2>2. (w - d) * m > 0
    BY <1>1, <2>1
  <2> QED
    BY <1>5, <1>6, <2>1, <2>2
<1>8. CASE HighLoad(c, load)
  <2>1. w * (m + more) > d * m
    BY <1>3, <1>5, <1>6, <1>8
  <2> QED
    BY <1>2, <1>4, <1>8, <2>1
<1>9. CASE ~HighLoad(c, load)
  <2>1. w > d
    BY <1>3, <1>9
  <2>2. w * (m + more) > d * m
    BY <1>5, <1>6, <1>7, <2>1
  <2> QED
    BY <1>4, <2>1, <2>2
<1> QED
  BY <1>8, <1>9

-----------------------------------------------------------------------------
(* The throttle level, as updateAdaptiveThrottling computes it.            *)

\* Truncating division by k, in terms of products.
LEMMA Quotient ==
  ASSUME NEW a \in Nat, NEW k \in Nat \ {0}
  PROVE  /\ a \div k \in Nat
         /\ k * (a \div k) <= a /\ a < k * (a \div k) + k
<1>1. a \div k \in Int /\ a % k \in 0..(k - 1) /\ a = k * (a \div k) + (a % k)
  OBVIOUS
<1>2. a \div k \in Nat
  OBVIOUS
<1> QED
  BY <1>1, <1>2

\* It is monotone, and at least q if the dividend is at least q * k.
LEMMA QuotientMonotone ==
  ASSUME NEW a \in Nat, NEW b \in Nat, NEW k \in Nat \ {0}, a <= b
  PROVE  /\ a \div k <= b \div k
         /\ \A q \in Nat : q * k <= a => q <= a \div k
<1> DEFINE x == a \div k
           y == b \div k
<1>1. x \in Nat /\ k * x <= a /\ a < k * x + k
  BY Quotient
<1>2. y \in Nat /\ k * y <= b /\ b < k * y + k
  BY Quotient
<1> HIDE DEF x, y
<1>3. \A m, n \in Nat : k * m < k * n + k => m <= n
  <2> SUFFICES ASSUME NEW m \in Nat, NEW n \in Nat, m >= n + 1
               PROVE  ~(k * m < k * n + k)
    OBVIOUS
  <2>1. (n + 1) * k <= m * k /\ (n + 1) * k \in Nat /\ m * k \in Nat
    BY Product
  <2>2. (n + 1) * k = k * n + k /\ m * k = k * m
    OBVIOUS
  <2> QED
    BY <2>1, <2>2
<1>4. x <= y
  <2>1. k * x < k * y + k
    BY <1>1, <1>2
  <2> QED
    BY <1>1, <1>2, <1>3, <2>1
<1>5. ASSUME NEW q \in Nat, q * k <= a PROVE q <= x
  <2>1. k * q < k * x + k
    BY <1>1, <1>5
  <2> QED
    BY <1>1, <1>3, <2>1
<1> QED
  BY <1>4, <1>5 DEF x, y

\* A strategy's interval: a reading above its target scales the base, up to
\* the maximum.  LoadInterval and ResponseInterval are instances.
Scaled(base, max, target, x) ==
  IF x > target THEN Lesser((base * x) \div target, max) ELSE base

\* If the maximum is not below the base, the interval rises with the reading.
LEMMA ScaledMonotone ==
  ASSUME NEW base \in Nat, NEW max \in Nat, NEW target \in Nat \ {0},
         NEW x \in Nat, NEW y \in Nat, x <= y, base <= max
  PROVE  /\ Scaled(base, max, target, x) \in Nat
         /\ Scaled(base, max, target, y) \in Nat
         /\ base <= Scaled(base, max, target, x)
         /\ Scaled(base, max, target, x) <= Scaled(base, max, target, y)
<1> DEFINE i == (base * x) \div target
           j == (base * y) \div target
<1>1. base * x \in Nat /\ base * y \in Nat /\ base * x <= base * y
  <2>1. x * base \in Nat /\ y * base \in Nat /\ x * base <= y * base
    BY Product
  <2> QED
    BY <2>1
<1>2. i \in Nat /\ j \in Nat /\ i <= j
  BY <1>1, Quotient, QuotientMonotone
<1>3. ASSUME NEW z \in Nat, z > target
      PROVE  base <= (base * z) \div target
  <2>1. target * base <= z * base /\ z * base \in Nat
    BY <1>3, Product
  <2>2. base * target <= base * z /\ base * z \in Nat
    BY <2>1
  <2> QED
    BY <2>2, QuotientMonotone
<1>4. /\ x > target => base <= i
      /\ y > target => base <= j
  BY <1>3
<1>5. /\ Scaled(base, max, target, x) =
           (IF x > target THEN Lesser(i, max) ELSE base)
      /\ Scaled(base, max, target, y) =
           (IF y > target THEN Lesser(j, max) ELSE base)
  BY DEF Scaled
<1> HIDE DEF i, j
<1> QED
  BY <1>2, <1>4, <1>5 DEF Lesser

\* If the maximum is below the base, no interval is above the base.
LEMMA ScaledLow ==
  ASSUME NEW base \in Nat, NEW max \in Nat, NEW target \in Nat \ {0},
         NEW x \in Nat, max < base
  PROVE  Scaled(base, max, target, x) \in Int /\ Scaled(base, max, target, x) <= base
<1> DEFINE i == (base * x) \div target
<1>1. base * x \in Nat
  OBVIOUS
<1>2. i \in Nat
  BY <1>1, Quotient
<1>3. Scaled(base, max, target, x) = (IF x > target THEN Lesser(i, max) ELSE base)
  BY DEF Scaled
<1> HIDE DEF i
<1> QED
  BY <1>2, <1>3 DEF Lesser

\* A higher load and a longer response time never shorten the interval, even
\* where MaxThreshold is below BaseThreshold.
LEMMA IntervalRises ==
  ASSUME NEW c \in QoSConfig, c.LoadThreshold > 0,
         NEW load \in Nat, NEW more \in Nat, load <= more,
         NEW avg \in Nat, NEW longer \in Nat, avg <= longer,
         NEW i \in AdaptiveIntervals(c, load, avg),
         NEW j \in AdaptiveIntervals(c, more, longer)
  PROVE  i \in Int /\ j \in Int /\ i <= j
<1> DEFINE base == c.BaseThreshold
           max == c.MaxThreshold
           target == c.LoadThreshold
           l1 == Scaled(base, max, target, load)
           l2 == Scaled(base, max, target, more)
           r1 == Scaled(base, max, Second, avg)
           r2 == Scaled(base, max, Second, longer)
<1>1. /\ base \in Nat /\ max \in Nat /\ target \in Nat \ {0}
      /\ Second \in Nat \ {0}
  BY SecondAssumption DEF QoSConfig
<1>2. /\ i = Greater((7 * l1 + 3 * r1) \div 10, base)
      /\ j = Greater((7 * l2 + 3 * r2) \div 10, base)
  BY <1>1 DEF AdaptiveIntervals, Weighted, LoadInterval, ResponseInterval, Scaled
<1> HIDE DEF base, max, target, l1, l2, r1, r2
<1>3. CASE base <= max
  <2>1. /\ l1 \in Nat /\ l2 \in Nat /\ l1 <= l2
        /\ r1 \in Nat /\ r2 \in Nat /\ r1 <= r2
    BY <1>1, <1>3, ScaledMonotone DEF l1, l2, r1, r2
  <2> QED
    BY <1>1, <1>2, <2>1 DEF Greater
<1>4. CASE max < base
  <2>1. /\ l1 \in Int /\ l2 \in Int /\ l1 <= base /\ l2 <= base
        /\ r1 \in Int /\ r2 \in Int /\ r1 <= base /\ r2 <= base
    BY <1>1, <1>4, ScaledLow DEF l1, l2, r1, r2
  <2> QED
    BY <1>1, <1>2, <2>1 DEF Greater
<1> QED
  BY <1>1, <1>3, <1>4

\* The level rises with the interval.
LEMMA LevelRises ==
  ASSUME NEW c \in QoSConfig, NEW i \in Int, NEW j \in Int, i <= j
  PROVE  /\ LevelOf(c, i) \in Level /\ LevelOf(c, j) \in Level
         /\ AtMost(LevelOf(c, i), LevelOf(c, j))
<1>1. c.BaseInterval \in Nat /\ c.MaxInterval \in Nat
  BY DEF QoSConfig
<1>2. LevelOf(c, i) \in Level /\ LevelOf(c, j) \in Level
  BY LevelIsFraction DEF Level
<1>3. CASE i <= c.BaseInterval
  <2>1. LevelOf(c, i) = NoThrottle
    BY <1>3 DEF LevelOf
  <2> QED
    BY <1>2, <2>1 DEF AtMost, NoThrottle, Level
<1>4. CASE i > c.BaseInterval /\ j >= c.MaxInterval
  <2>1. LevelOf(c, j) = FullThrottle
    BY <1>1, <1>4 DEF LevelOf
  <2> QED
    BY <1>2, <2>1 DEF AtMost, FullThrottle, Level
<1>5. CASE i > c.BaseInterval /\ j < c.MaxInterval
  <2> DEFINE d == c.MaxInterval - c.BaseInterval
  <2>1. /\ LevelOf(c, i) = [num |-> i - c.BaseInterval, den |-> d]
        /\ LevelOf(c, j) = [num |-> j - c.BaseInterval, den |-> d]
    BY <1>1, <1>5 DEF LevelOf
  <2>2. /\ i - c.BaseInterval \in Nat /\ j - c.BaseInterval \in Nat /\ d \in Nat
        /\ i - c.BaseInterval <= j - c.BaseInterval
    BY <1>1, <1>5
  <2>3. (i - c.BaseInterval) * d <= (j - c.BaseInterval) * d
    BY <2>2, Product
  <2> QED
    BY <1>2, <2>1, <2>3 DEF AtMost
<1> QED
  BY <1>1, <1>3, <1>4, <1>5

\* What updateAdaptiveThrottling makes of its readings: a higher load and a
\* longer response time never lower the throttle level, whatever else the
\* configuration says, provided that LoadThreshold is not 0.  With 0 it is
\* false: on amd64 any load above 0 takes the interval, and with it the level,
\* back to the base, however long the responses are.
THEOREM LevelFollowsReadings ==
  ASSUME NEW c \in QoSConfig, c.LoadThreshold > 0,
         NEW load \in Nat, NEW more \in Nat, load <= more,
         NEW avg \in Nat, NEW longer \in Nat, avg <= longer,
         NEW i \in AdaptiveIntervals(c, load, avg),
         NEW j \in AdaptiveIntervals(c, more, longer)
  PROVE  AtMost(LevelOf(c, i), LevelOf(c, j))
BY IntervalRises, LevelRises

\* Fractions compared with a bound r / k.
LEMMA Cross ==
  ASSUME NEW k \in Nat, NEW r \in Nat,
         NEW n1 \in Nat, NEW d1 \in Nat \ {0},
         NEW n2 \in Nat, NEW d2 \in Nat \ {0},
         n1 * d2 <= n2 * d1, k * n1 > r * d1
  PROVE  k * n2 > r * d2
<1> SUFFICES ASSUME k * n2 <= r * d2 PROVE FALSE
  BY k * n2 \in Nat, r * d2 \in Nat
<1>1. /\ k * n1 \in Nat /\ r * d1 \in Nat /\ k * n2 \in Nat /\ r * d2 \in Nat
      /\ n1 * d2 \in Nat /\ n2 * d1 \in Nat
  OBVIOUS
<1>2. (k * n2) * d1 <= (r * d2) * d1
  BY <1>1, Product
<1>3. (n1 * d2) * k <= (n2 * d1) * k
  BY <1>1, Product
<1>4. (r * d1 + 1) * d2 <= (k * n1) * d2
  BY <1>1, Product
<1>5. (r * d1 + 1) * d2 = (r * d2) * d1 + d2
  BY <1>1
<1>6. (k * n1) * d2 = (n1 * d2) * k /\ (k * n2) * d1 = (n2 * d1) * k
  BY <1>1
<1>7. /\ (r * d2) * d1 \in Nat /\ (n1 * d2) * k \in Nat /\ (n2 * d1) * k \in Nat
  BY <1>1
<1> QED
  BY <1>2, <1>3, <1>4, <1>5, <1>6, <1>7

\* A higher level never turns a refusal into an admission.
THEOREM LevelThrottles ==
  ASSUME NEW c \in QoSConfig, NEW l \in Level, NEW m \in Level, AtMost(l, m),
         NEW p \in 0..10, NEW load \in Nat,
         ShouldAdaptiveThrottle(c, l, p, load)
  PROVE  ShouldAdaptiveThrottle(c, m, p, load)
<1>1. /\ c.MaxLoad \in Nat /\ 10 - p \in Nat
      /\ l.num \in Nat /\ l.den \in Nat \ {0} /\ m.num \in Nat /\ m.den \in Nat \ {0}
      /\ l.num * m.den <= m.num * l.den
  BY VerdictTypes DEF AtMost
<1> DEFINE k == 2 * (10 - p)
           f == c.MaxLoad + load
<1>2. k \in Nat /\ f \in Nat /\ k * f \in Nat /\ 10 * c.MaxLoad \in Nat
  BY <1>1
<1>3. ASSUME NEW x \in Level
      PROVE  /\ Weight(x, p) = k * x.num
             /\ Weight(x, p) * f = (k * f) * x.num
             /\ 10 * x.den * c.MaxLoad = (10 * c.MaxLoad) * x.den
  <2>1. /\ x.num \in Nat /\ x.den \in Nat
        /\ Weight(x, p) = (10 - p) * (2 * x.num)
    BY VerdictTypes
  <2>2. (10 - p) * (2 * x.num) = k * x.num
    BY <1>1, <2>1
  <2> HIDE DEF k, f
  <2>3. (k * x.num) * f = (k * f) * x.num
    BY <1>2, <2>1
  <2>4. 10 * x.den * c.MaxLoad = (10 * c.MaxLoad) * x.den
    BY <1>1, <2>1
  <2> QED
    BY <2>1, <2>2, <2>3, <2>4
<1>4. k * l.num > 10 * l.den => k * m.num > 10 * m.den
  BY <1>1, <1>2, Cross
<1>5. (k * f) * l.num > (10 * c.MaxLoad) * l.den
        => (k * f) * m.num > (10 * c.MaxLoad) * m.den
  BY <1>1, <1>2, Cross
<1>6. /\ Weight(l, p) > 10 * l.den => Weight(m, p) > 10 * m.den
      /\ Weight(l, p) * f > 10 * l.den * c.MaxLoad
           => Weight(m, p) * f > 10 * m.den * c.MaxLoad
  BY <1>3, <1>4, <1>5
<1> QED
  BY <1>6, Verdict
=============================================================================
