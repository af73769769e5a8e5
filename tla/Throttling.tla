----------------------------- MODULE Throttling -----------------------------
(***************************************************************************)
(* The arithmetic of adaptive throttling: how a QoSConfig and two readings *)
(* (the observer's load, the analyzer's average response time) become an   *)
(* interval, how the interval becomes a throttle level, and how the level  *)
(* and a request's priority become a verdict.                              *)
(*                                                                         *)
(* Units: durations are natural numbers of one unit, Second of which make  *)
(* a second; the code truncates to a nanosecond where \div truncates to a  *)
(* unit.  Ratios written as float64 in [0, 1] in the configuration are     *)
(* natural numbers of hundredths.  A throttle level is an exact fraction   *)
(* [num, den].  Comparisons of float64 products are comparisons of the     *)
(* exact products.                                                         *)
(***************************************************************************)
EXTENDS Integers

CONSTANT Second         \* time units in one second

ASSUME SecondAssumption == Second \in Nat \ {0}

\* The fields of config.QoSConfig the QoS manager reads.  LoadThreshold and
\* MaxLoad are divisors; SetDefaults rules out MaxLoad = 0 only, so that
\* LoadThreshold is 0 when the file has a qos section that does not set it.
QoSConfig ==
  [ breakerEnabled     : BOOLEAN,  \* CircuitBreaker.Enabled
    FailureThreshold   : Nat,
    RecoveryTimeout    : Nat,
    throttlingEnabled  : BOOLEAN,  \* AdaptiveThrottling.Enabled
    BaseInterval       : Nat,
    MaxInterval        : Nat,
    BaseThreshold      : Nat,
    MaxThreshold       : Nat,
    LoadThreshold      : Nat,       \* hundredths
    HighLoadThreshold  : Nat,       \* hundredths
    MaxLoad            : Nat \ {0},
    AdjustmentInterval : Nat ]

Lesser(a, b) == IF a <= b THEN a ELSE b
Greater(a, b) == IF a >= b THEN a ELSE b

\* LoadBasedThrottlingStrategy.UpdateThrottling, where it divides by a
\* threshold that is not 0.
LoadInterval(c, load) ==
  IF load > c.LoadThreshold
  THEN Lesser((c.BaseThreshold * load) \div c.LoadThreshold, c.MaxThreshold)
  ELSE c.BaseThreshold

\* ResponseTimeBasedThrottlingStrategy.UpdateThrottling
ResponseInterval(c, avg) ==
  IF avg > Second
  THEN Lesser((c.BaseThreshold * avg) \div Second, c.MaxThreshold)
  ELSE c.BaseThreshold

\* AdaptiveThrottlingStrategy.UpdateThrottling with the weights 0.7 and 0.3
\* that NewQoSManager installs.
Weighted(c, interval, avg) ==
  Greater((7 * interval + 3 * ResponseInterval(c, avg)) \div 10, c.BaseThreshold)

\* A load that is compared with a threshold of 0 and divided by it is +Inf,
\* and NaN times a BaseThreshold of 0.  What time.Duration makes of these is
\* up to the build: on amd64 the least int64, which leaves the base interval;
\* where the conversion saturates, an interval that is cut to MaxThreshold.
AdaptiveIntervals(c, load, avg) ==
  IF c.LoadThreshold # 0 \/ load = 0 THEN {Weighted(c, LoadInterval(c, load), avg)}
  ELSE IF c.BaseThreshold = 0 THEN {0}
  ELSE {c.BaseThreshold, Weighted(c, c.MaxThreshold, avg)}

\* CalculateMessagePriority: what the message and its sender look like decides.
MessagePriority(spam, urgent, fast) ==
  LET base == IF spam THEN 1 ELSE IF urgent THEN 10 ELSE 5
  IN  Lesser(IF fast THEN base + 2 ELSE base, 10)

NoThrottle   == [num |-> 0, den |-> 1]
FullThrottle == [num |-> 1, den |-> 1]

\* Mutant: no upper clamp.
LevelOf_Unclamped(c, interval) ==
  IF interval <= c.BaseInterval THEN NoThrottle
  ELSE [num |-> interval - c.BaseInterval,
        den |-> c.MaxInterval - c.BaseInterval]

\* The interval-to-level conversion of updateAdaptiveThrottling.  It compares
\* with BaseInterval and MaxInterval; the interval was computed from
\* BaseThreshold and MaxThreshold.
LevelOf(c, interval) ==
  IF interval <= c.BaseInterval THEN NoThrottle
  ELSE IF interval >= c.MaxInterval THEN FullThrottle
  ELSE [num |-> interval - c.BaseInterval,
        den |-> c.MaxInterval - c.BaseInterval]

\* shouldAdaptiveThrottle: level * (1 - priority/10), times (1 + load/MaxLoad)
\* when load/MaxLoad exceeds HighLoadThreshold, is greater than one half.
AboveHalf(c, level, priority, load) ==
  IF 100 * load > c.HighLoadThreshold * c.MaxLoad
  THEN 2 * level.num * (10 - priority) * (c.MaxLoad + load)
         > 10 * level.den * c.MaxLoad
  ELSE 2 * level.num * (10 - priority) > 10 * level.den

ShouldAdaptiveThrottle(c, level, priority, load) ==
  c.throttlingEnabled /\ AboveHalf(c, level, priority, load)
=============================================================================
