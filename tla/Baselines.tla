------------------------------ MODULE Baselines ------------------------------
(***************************************************************************)
(* The two services that turn measurements into readings: StatsAnalyzer,   *)
(* whose message intervals become the baselines P50 and P90, and Observer, *)
(* whose latencies become the current load and a high-load threshold.      *)
(*                                                                         *)
(* Their callers are any number of goroutines: RecordMessageInterval,      *)
(* RecordRequest, RecordLatency and ModeSwitched are exported and the      *)
(* program itself does not call them yet, so every call may come at any    *)
(* time.  A critical section is one action.  A list of measurements is     *)
(* reduced to what is asked of it: how many, their sum, the extremes.      *)
(*                                                                         *)
(* Durations are milliseconds.  LoadThreshold and the load are hundredths. *)
(* MaxPoints bounds a list.                                                *)
(***************************************************************************)
EXTENDS Integers

CONSTANTS
  Switchers,   \* goroutines that call ModeSwitched
  Intervals,   \* message intervals
  Latencies,   \* latencies
  Thresholds,  \* LoadThreshold of the configurations that may be loaded
  MinPoints,   \* MinDataPointsForBaseline of the first configuration
  ObserverPoints,  \* the observer's minDataPoints; main passes 100
  MaxPoints

ASSUME BaselinesAssumption ==
  /\ Intervals \subseteq Nat /\ Latencies \subseteq Nat
  /\ Thresholds \subseteq Nat /\ MinPoints \subseteq Nat
  /\ ObserverPoints \in Nat /\ MaxPoints \in Nat

VARIABLES
  intervals,      \* messageIntervals
  p50, p90,
  minDataPoints,  \* of the analyzer
  modeSwitched,   \* the channel, of capacity one, is full
  switcher,       \* where each caller of ModeSwitched is
  analyzer,       \* where StatsAnalyzer.Run is
  latencies,
  highLoadThreshold,
  latencyThreshold,
  observer,       \* where Observer.Run is
  loadThreshold,  \* DynamicLoadBalancing.LoadThreshold of the QoS manager
  ctxDone,
  since           \* history: intervals since Run received the last switch

baselineVars == <<intervals, p50, p90>>
switchVars == <<modeSwitched, switcher>>
observerVars == <<latencies, highLoadThreshold, observer>>
configVars == <<minDataPoints, latencyThreshold, loadThreshold>>
vars == <<baselineVars, switchVars, analyzer, observerVars, configVars,
          ctxDone, since>>

-----------------------------------------------------------------------------
(* Lists of measurements.                                                  *)

Empty == [count |-> 0, sum |-> 0, lo |-> 0, hi |-> 0]

Recorded(w, v) ==
  [ count |-> w.count + 1,
    sum   |-> w.sum + v,
    lo    |-> IF w.count = 0 \/ v < w.lo THEN v ELSE w.lo,
    hi    |-> IF w.count = 0 \/ v > w.hi THEN v ELSE w.hi ]

\* Percentile of the statistics library, truncated to a millisecond: a value
\* between the extremes; none of an empty list.
Percentiles(w) == IF w.count = 0 THEN {} ELSE w.lo .. w.hi

-----------------------------------------------------------------------------
(* StatsAnalyzer.                                                          *)

\* RecordMessageInterval, which is also what RecordRequest does.
RecordMessageInterval(v) ==
  /\ intervals.count < MaxPoints /\ since.count < MaxPoints
  /\ intervals' = Recorded(intervals, v)
  /\ since' = Recorded(since, v)
  /\ UNCHANGED <<p50, p90, switchVars, analyzer, observerVars, configVars,
                 ctxDone>>

\* Mutant: the error is ignored, and NaN converted to a duration.
UpdateBaselines_Unchecked ==
  IF intervals.count >= minDataPoints /\ Percentiles(intervals) = {}
  THEN p50' = -1 /\ p90' = -1
  ELSE UNCHANGED <<p50, p90>>

\* updateBaselines: nothing without minDataPoints points, nor when there is
\* no percentile.  That the 50th percentile is not above the 90th is the
\* library's business.
UpdateBaselines ==
  \/ /\ intervals.count >= minDataPoints
     /\ \E low, high \in Percentiles(intervals) :
          low <= high /\ p50' = low /\ p90' = high
  \/ /\ \/ intervals.count < minDataPoints
        \/ Percentiles(intervals) = {}
     /\ UNCHANGED <<p50, p90>>

\* ModeSwitched: the call, and the send, which waits for room.
ModeSwitched(s) ==
  /\ switcher[s] = "idle"
  /\ switcher' = [switcher EXCEPT ![s] = "sending"]
  /\ UNCHANGED <<baselineVars, modeSwitched, analyzer, observerVars,
                 configVars, ctxDone, since>>

Send(s) ==
  /\ switcher[s] = "sending" /\ ~modeSwitched
  /\ switcher' = [switcher EXCEPT ![s] = "idle"]
  /\ modeSwitched' = TRUE
  /\ UNCHANGED <<baselineVars, analyzer, observerVars, configVars, ctxDone,
                 since>>

\* Run, the tick.
TickAnalyzer ==
  /\ analyzer = "select"
  /\ UpdateBaselines
  /\ UNCHANGED <<intervals, switchVars, analyzer, observerVars, configVars,
                 ctxDone, since>>

\* Mutant: a switch is not received once the baselines exist.
ReceivesSwitch_Once == analyzer = "select" /\ modeSwitched /\ p90 = 0

ReceivesSwitch == analyzer = "select" /\ modeSwitched

\* Run, a switch: reset and updateBaselines take the lock one after the other.
ReceiveSwitch ==
  /\ ReceivesSwitch
  /\ modeSwitched' = FALSE
  /\ analyzer' = "reset"
  /\ since' = Empty
  /\ UNCHANGED <<baselineVars, switcher, observerVars, configVars, ctxDone>>

\* Mutant: the points stay.
Cleared_Kept == intervals

\* What reset leaves of the intervals.
Cleared == Empty

Reset ==
  /\ analyzer = "reset"
  /\ intervals' = Cleared
  /\ analyzer' = "update"
  /\ UNCHANGED <<p50, p90, switchVars, observerVars, configVars, ctxDone,
                 since>>

UpdateAfterReset ==
  /\ analyzer = "update"
  /\ UpdateBaselines
  /\ analyzer' = "select"
  /\ UNCHANGED <<intervals, switchVars, observerVars, configVars, ctxDone,
                 since>>

StopAnalyzer ==
  /\ analyzer = "select" /\ ctxDone
  /\ analyzer' = "returned"
  /\ UNCHANGED <<baselineVars, switchVars, observerVars, configVars, ctxDone,
                 since>>

-----------------------------------------------------------------------------
(* Observer.                                                               *)

RecordLatency(v) ==
  /\ latencies.count < MaxPoints
  /\ latencies' = Recorded(latencies, v)
  /\ UNCHANGED <<baselineVars, switchVars, analyzer, highLoadThreshold,
                 observer, configVars, ctxDone, since>>

\* Run, the tick: updateHighLoadThreshold.  Only a new threshold resets the
\* latencies.
TickObserver ==
  /\ observer = "select"
  /\ latencies.count >= ObserverPoints
  /\ highLoadThreshold' \in Percentiles(latencies)
  /\ latencies' = Empty
  /\ UNCHANGED <<baselineVars, switchVars, analyzer, observer, configVars,
                 ctxDone, since>>

StopObserver ==
  /\ observer = "select" /\ ctxDone
  /\ observer' = "returned"
  /\ UNCHANGED <<baselineVars, switchVars, analyzer, latencies,
                 highLoadThreshold, configVars, ctxDone, since>>

NoLoad   == [num |-> 0, den |-> 1]
FullLoad == [num |-> 1, den |-> 1]

\* GetCurrentLoad: the average latency over the threshold, at most 1; a
\* fraction here.
GetCurrentLoad ==
  LET total == latencies.count * latencyThreshold
  IN  IF total = 0 THEN NoLoad
      ELSE IF latencies.sum > total THEN FullLoad
      ELSE [num |-> latencies.sum, den |-> total]

\* The condition under which LoadBasedThrottlingStrategy raises the interval.
HighLoad ==
  100 * GetCurrentLoad.num > loadThreshold * GetCurrentLoad.den

-----------------------------------------------------------------------------
\* main: time.Duration(LoadThreshold) * time.Millisecond; the conversion
\* drops the fraction, and so most thresholds become zero.
LatencyThreshold(threshold) == threshold \div 100

\* QoSManager.UpdateConfig; the observer keeps its threshold.
Reload(threshold) ==
  /\ loadThreshold' = threshold
  /\ UNCHANGED <<baselineVars, switchVars, analyzer, observerVars,
                 minDataPoints, latencyThreshold, ctxDone, since>>

Cancel ==
  /\ ~ctxDone
  /\ ctxDone' = TRUE
  /\ UNCHANGED <<baselineVars, switchVars, analyzer, observerVars, configVars,
                 since>>

Init ==
  /\ intervals = Empty /\ latencies = Empty /\ since = Empty
  /\ p50 = 0 /\ p90 = 0 /\ highLoadThreshold = 0
  /\ modeSwitched = FALSE
  /\ switcher = [s \in Switchers |-> "idle"]
  /\ analyzer = "select" /\ observer = "select"
  /\ minDataPoints \in MinPoints
  /\ loadThreshold \in Thresholds
  /\ latencyThreshold = LatencyThreshold(loadThreshold)
  /\ ctxDone = FALSE

Analyze == TickAnalyzer \/ ReceiveSwitch \/ Reset \/ UpdateAfterReset
           \/ StopAnalyzer

Observe == TickObserver \/ StopObserver

Next ==
  \/ \E v \in Intervals : RecordMessageInterval(v)
  \/ \E v \in Latencies : RecordLatency(v)
  \/ \E s \in Switchers : ModeSwitched(s) \/ Send(s)
  \/ Analyze
  \/ Observe
  \/ \E threshold \in Thresholds : Reload(threshold)
  \/ Cancel

Spec == Init /\ [][Next]_vars

\* Run is scheduled, and a switch that waits in the select is received; a
\* channel serves its blocked senders in turn.
Fairness ==
  /\ WF_vars(ReceiveSwitch) /\ WF_vars(Reset) /\ WF_vars(UpdateAfterReset)
  /\ \A s \in Switchers : SF_vars(Send(s))

FairSpec == Spec /\ Fairness

-----------------------------------------------------------------------------
(* Properties.                                                             *)

Window == [count : Nat, sum : Nat, lo : Nat, hi : Nat]

TypeOK ==
  /\ intervals \in Window /\ since \in Window /\ latencies \in Window
  /\ p50 \in Nat /\ p90 \in Nat /\ highLoadThreshold \in Nat
  /\ minDataPoints \in MinPoints
  /\ modeSwitched \in BOOLEAN
  /\ switcher \in [Switchers -> {"idle", "sending"}]
  /\ analyzer \in {"select", "reset", "update", "returned"}
  /\ observer \in {"select", "returned"}
  /\ loadThreshold \in Thresholds
  /\ latencyThreshold \in Nat
  /\ ctxDone \in BOOLEAN

\* Baselines are never recomputed from what was measured before the last mode
\* switch that Run received, although points keep arriving between its reset
\* and its update: when one changes, both lie within the later points.
FreshDataOnly ==
  [][ <<p50, p90>>' # <<p50, p90>> =>
        {p50', p90'} \subseteq Percentiles(since) ]_vars

\* A call of ModeSwitched returns, unless the context is cancelled.
SwitchesTaken ==
  \A s \in Switchers : switcher[s] = "sending" ~> switcher[s] = "idle" \/ ctxDone
=============================================================================
