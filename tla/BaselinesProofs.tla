--------------------------- MODULE BaselinesProofs ---------------------------
(***************************************************************************)
(* For all sets of measurements and thresholds: a mode switch leaves no    *)
(* older point in the baselines.  And a disagreement with the comments of  *)
(* the code: the load that the observer reports never exceeds the          *)
(* LoadThreshold that it was constructed with.                             *)
(*                                                                         *)
(* The invariant says which points the list holds: outside the gap between *)
(* the receipt of a switch and its reset, none older than the switch.      *)
(***************************************************************************)
EXTENDS Baselines, TLAPS

\* The intervals lie within those measured since the switch.
Fresh ==
  analyzer # "reset" /\ intervals.count > 0 =>
    /\ since.count > 0
    /\ since.lo <= intervals.lo
    /\ intervals.hi <= since.hi

IInv == TypeOK /\ Fresh

-----------------------------------------------------------------------------
(* Lists of measurements.                                                  *)

LEMMA EmptyType == Empty \in Window
BY DEF Empty, Window

LEMMA RecordedType ==
  ASSUME NEW w \in Window, NEW v \in Nat
  PROVE  Recorded(w, v) \in Window
BY DEF Recorded, Window

LEMMA PercentilesType ==
  ASSUME NEW w \in Window, NEW p \in Percentiles(w)
  PROVE  p \in Nat /\ w.count > 0 /\ w.lo <= p /\ p <= w.hi
<1>1. w.count \in Nat /\ w.lo \in Nat /\ w.hi \in Nat
  BY DEF Window
<1>2. w.count # 0
  BY DEF Percentiles
<1>3. p \in w.lo .. w.hi
  BY <1>2 DEF Percentiles
<1> QED
  BY <1>1, <1>2, <1>3

-----------------------------------------------------------------------------
(* One step of updateBaselines.                                            *)

\* What an update leaves: baselines of the right type, and if they
\* changed, from points of the list.
LEMMA UpdateFacts ==
  ASSUME TypeOK, UpdateBaselines
  PROVE  /\ p50' \in Nat /\ p90' \in Nat
         /\ \/ p50' = p50 /\ p90' = p90
            \/ {p50', p90'} \subseteq Percentiles(intervals)
<1>1. CASE UNCHANGED <<p50, p90>>
  BY <1>1 DEF TypeOK
<1>2. CASE \E low, high \in Percentiles(intervals) :
             low <= high /\ p50' = low /\ p90' = high
  <2>1. PICK low, high \in Percentiles(intervals) :
          low <= high /\ p50' = low /\ p90' = high
    BY <1>2
  <2>2. intervals \in Window
    BY DEF TypeOK
  <2>3. low \in Nat /\ high \in Nat
    BY <2>1, <2>2, PercentilesType
  <2> QED
    BY <2>1, <2>3
<1> QED
  BY <1>1, <1>2 DEF UpdateBaselines

\* The points of a fresh list lie within those of the history.
LEMMA FreshPoints ==
  ASSUME TypeOK, Fresh, analyzer # "reset"
  PROVE  Percentiles(intervals) \subseteq Percentiles(since)
<1> SUFFICES ASSUME NEW p \in Percentiles(intervals)
             PROVE  p \in Percentiles(since)
  OBVIOUS
<1>1. intervals \in Window /\ since \in Window
  BY DEF TypeOK
<1>2. p \in Nat /\ intervals.count > 0 /\ intervals.lo <= p /\ p <= intervals.hi
  BY <1>1, PercentilesType
<1>3. since.count > 0 /\ since.lo <= intervals.lo /\ intervals.hi <= since.hi
  BY <1>2 DEF Fresh
<1>4. /\ since.count \in Nat /\ since.lo \in Nat /\ since.hi \in Nat
      /\ intervals.lo \in Nat /\ intervals.hi \in Nat
  BY <1>1 DEF Window
<1>5. since.lo <= p /\ p <= since.hi
  BY <1>2, <1>3, <1>4
<1> QED
  BY <1>2, <1>3, <1>4, <1>5 DEF Percentiles

-----------------------------------------------------------------------------
LEMMA InitInv == Init => IInv
<1> SUFFICES ASSUME Init
             PROVE  IInv
  OBVIOUS
<1>1. latencyThreshold \in Nat
  <2>1. loadThreshold \in Nat
    BY BaselinesAssumption DEF Init
  <2> QED
    BY <2>1 DEF Init, LatencyThreshold
<1>2. TypeOK
  BY <1>1, EmptyType DEF Init, TypeOK
<1>3. Fresh
  BY DEF Init, Fresh, Empty
<1> QED
  BY <1>2, <1>3 DEF IInv

\* A new point enters the list and the history alike.
LEMMA RecordedFresh ==
  ASSUME NEW w \in Window, NEW h \in Window, NEW v \in Nat,
         w.count > 0 => h.count > 0 /\ h.lo <= w.lo /\ w.hi <= h.hi
  PROVE  /\ Recorded(h, v).count > 0
         /\ Recorded(h, v).lo <= Recorded(w, v).lo
         /\ Recorded(w, v).hi <= Recorded(h, v).hi
<1>1. /\ w.count \in Nat /\ w.lo \in Nat /\ w.hi \in Nat
      /\ h.count \in Nat /\ h.lo \in Nat /\ h.hi \in Nat
  BY DEF Window
<1> QED
  BY <1>1 DEF Recorded

LEMMA StepInv == IInv /\ [Next]_vars => IInv'
<1> SUFFICES ASSUME IInv, [Next]_vars
             PROVE  IInv'
  OBVIOUS
<1> USE DEF baselineVars, switchVars, observerVars, configVars
<1>0. TypeOK /\ Fresh
  BY DEF IInv
<1>1. ASSUME NEW v \in Intervals, RecordMessageInterval(v)
      PROVE  IInv'
  <2>1. v \in Nat
    BY <1>1, BaselinesAssumption
  <2>2. intervals' = Recorded(intervals, v) /\ since' = Recorded(since, v)
    BY <1>1 DEF RecordMessageInterval
  <2>3. intervals \in Window /\ since \in Window
    BY <1>0 DEF TypeOK
  <2>4. intervals' \in Window /\ since' \in Window
    BY <2>1, <2>2, <2>3, RecordedType
  <2>5. TypeOK'
    BY <1>0, <1>1, <2>4 DEF TypeOK, RecordMessageInterval
  <2>6. Fresh'
    <3> SUFFICES ASSUME analyzer' # "reset"
                 PROVE  /\ since'.count > 0
                        /\ since'.lo <= intervals'.lo
                        /\ intervals'.hi <= since'.hi
      BY DEF Fresh
    <3>1. intervals.count > 0 => /\ since.count > 0
                                 /\ since.lo <= intervals.lo
                                 /\ intervals.hi <= since.hi
      BY <1>0, <1>1 DEF Fresh, RecordMessageInterval
    <3> QED
      BY <2>1, <2>2, <2>3, <3>1, RecordedFresh
  <2> QED
    BY <2>5, <2>6 DEF IInv
<1>2. ASSUME NEW v \in Latencies, RecordLatency(v)
      PROVE  IInv'
  <2>1. v \in Nat /\ latencies \in Window
    BY <1>0, <1>2, BaselinesAssumption DEF TypeOK
  <2>2. latencies' \in Window
    BY <1>2, <2>1, RecordedType DEF RecordLatency
  <2>3. TypeOK'
    BY <1>0, <1>2, <2>2 DEF TypeOK, RecordLatency
  <2> QED
    BY <1>0, <1>2, <2>3 DEF IInv, Fresh, RecordLatency
<1>3. ASSUME NEW s \in Switchers, ModeSwitched(s) \/ Send(s)
      PROVE  IInv'
  <2>1. TypeOK'
    BY <1>0, <1>3 DEF TypeOK, ModeSwitched, Send
  <2> QED
    BY <1>0, <1>3, <2>1 DEF IInv, Fresh, ModeSwitched, Send
<1>4. CASE TickAnalyzer
  <2>1. UpdateBaselines
    BY <1>4 DEF TickAnalyzer
  <2>2. p50' \in Nat /\ p90' \in Nat
    BY <1>0, <2>1, UpdateFacts
  <2>3. TypeOK'
    BY <1>0, <1>4, <2>2 DEF TypeOK, TickAnalyzer
  <2> QED
    BY <1>0, <1>4, <2>2, <2>3 DEF IInv, Fresh, TickAnalyzer
<1>5. CASE ReceiveSwitch
  <2>1. TypeOK'
    BY <1>0, <1>5, EmptyType DEF TypeOK, ReceiveSwitch
  <2> QED
    BY <1>0, <1>5, <2>1 DEF IInv, Fresh, ReceiveSwitch
<1>6. CASE Reset
  <2>1. TypeOK'
    BY <1>0, <1>6, EmptyType DEF TypeOK, Reset, Cleared
  <2>2. Fresh'
    BY <1>6 DEF Fresh, Reset, Cleared, Empty
  <2> QED
    BY <1>0, <1>6, <2>1, <2>2 DEF IInv, Reset
<1>7. CASE UpdateAfterReset
  <2>1. UpdateBaselines
    BY <1>7 DEF UpdateAfterReset
  <2>2. p50' \in Nat /\ p90' \in Nat
    BY <1>0, <2>1, UpdateFacts
  <2>3. TypeOK'
    BY <1>0, <1>7, <2>2 DEF TypeOK, UpdateAfterReset
  <2> QED
    BY <1>0, <1>7, <2>2, <2>3
    DEF IInv, Fresh, UpdateAfterReset
<1>8. CASE StopAnalyzer
  <2>1. TypeOK'
    BY <1>0, <1>8 DEF TypeOK, StopAnalyzer
  <2> QED
    BY <1>0, <1>8, <2>1 DEF IInv, Fresh, StopAnalyzer
<1>9. CASE TickObserver
  <2>1. highLoadThreshold' \in Nat
    BY <1>0, <1>9, PercentilesType DEF TickObserver, TypeOK
  <2>2. TypeOK'
    BY <1>0, <1>9, <2>1, EmptyType DEF TypeOK, TickObserver
  <2> QED
    BY <1>0, <1>9, <2>2 DEF IInv, Fresh, TickObserver
<1>10. CASE StopObserver
  <2>1. TypeOK'
    BY <1>0, <1>10 DEF TypeOK, StopObserver
  <2> QED
    BY <1>0, <1>10, <2>1 DEF IInv, Fresh, StopObserver
<1>11. ASSUME NEW threshold \in Thresholds, Reload(threshold)
       PROVE  IInv'
  <2>1. TypeOK'
    BY <1>0, <1>11 DEF TypeOK, Reload
  <2> QED
    BY <1>0, <1>11, <2>1 DEF IInv, Fresh, Reload
<1>12. CASE Cancel
  <2>1. TypeOK'
    BY <1>0, <1>12 DEF TypeOK, Cancel
  <2> QED
    BY <1>0, <1>12, <2>1 DEF IInv, Fresh, Cancel
<1>13. CASE UNCHANGED vars
  BY <1>0, <1>13 DEF IInv, TypeOK, Fresh, vars
<1> QED
  BY <1>1, <1>2, <1>3, <1>4, <1>5, <1>6, <1>7, <1>8, <1>9, <1>10, <1>11,
     <1>12, <1>13 DEF Next, Analyze, Observe

\* The invariant holds throughout.
THEOREM Invariance == Spec => []IInv
BY InitInv, StepInv, PTL DEF Spec

-----------------------------------------------------------------------------
\* The state has its type; above all, no list that is empty after a reset and
\* no early return of updateBaselines makes a baseline negative.
THEOREM TypeCorrect == Spec => []TypeOK
<1>1. IInv => TypeOK
  BY DEF IInv
<1> QED
  BY <1>1, Invariance, PTL

\* A baseline that changes lies within the points measured since the last
\* mode switch, whatever arrives between a reset and its update.
THEOREM FreshBaselines == Spec => FreshDataOnly
<1> DEFINE Changes == <<p50, p90>>' # <<p50, p90>> =>
                        {p50', p90'} \subseteq Percentiles(since)
<1>1. IInv /\ [Next]_vars => [Changes]_vars
  <2> SUFFICES ASSUME IInv, Next, <<p50, p90>>' # <<p50, p90>>
               PROVE  {p50', p90'} \subseteq Percentiles(since)
    OBVIOUS
  <2> USE DEF baselineVars
  <2>0. TypeOK /\ Fresh
    BY DEF IInv
  <2>1. UpdateBaselines /\ analyzer # "reset"
    <3>1. ASSUME NEW v \in Intervals, RecordMessageInterval(v)
          PROVE  FALSE
      BY <3>1 DEF RecordMessageInterval
    <3>2. ASSUME NEW v \in Latencies, RecordLatency(v)
          PROVE  FALSE
      BY <3>2 DEF RecordLatency
    <3>3. ASSUME NEW s \in Switchers, ModeSwitched(s) \/ Send(s)
          PROVE  FALSE
      BY <3>3 DEF ModeSwitched, Send
    <3>4. CASE TickAnalyzer
      BY <3>4 DEF TickAnalyzer
    <3>5. CASE UpdateAfterReset
      BY <3>5 DEF UpdateAfterReset
    <3>6. CASE ReceiveSwitch \/ Reset \/ StopAnalyzer \/ Observe \/ Cancel
      BY <3>6 DEF ReceiveSwitch, Reset, StopAnalyzer, Observe, TickObserver,
                  StopObserver, Cancel
    <3>7. ASSUME NEW threshold \in Thresholds, Reload(threshold)
          PROVE  FALSE
      BY <3>7 DEF Reload
    <3> QED
      BY <3>1, <3>2, <3>3, <3>4, <3>5, <3>6, <3>7 DEF Next, Analyze
  <2>2. {p50', p90'} \subseteq Percentiles(intervals)
    BY <2>0, <2>1, UpdateFacts
  <2> QED
    BY <2>0, <2>1, <2>2, FreshPoints
<1> QED
  BY <1>1, Invariance, PTL DEF Spec, FreshDataOnly

\* The LoadThreshold in force is of the whole milliseconds that the observer
\* was constructed with; so it is until a reload changes them.
ThresholdsAgree == latencyThreshold = LatencyThreshold(loadThreshold)

\* throttling_strategy.go says that the strategy "adjusts throttling based on
\* system load" and that "High load: increase throttling".  It cannot: no
\* latency whatever is high load to it.  main converts a LoadThreshold below 1
\* to 0 ms, which the observer takes as no load; and from 1 on the load, at
\* most 1, does not exceed it.
THEOREM LoadInert == Spec => [](ThresholdsAgree => ~HighLoad)
<1>1. TypeOK => (ThresholdsAgree => ~HighLoad)
  <2> SUFFICES ASSUME TypeOK, ThresholdsAgree
               PROVE  ~HighLoad
    OBVIOUS
  <2> USE DEF ThresholdsAgree
  <2> DEFINE total == latencies.count * latencyThreshold
             load == GetCurrentLoad
  <2>1. /\ loadThreshold \in Nat /\ latencyThreshold \in Nat
        /\ latencies.count \in Nat /\ latencies.sum \in Nat
    BY BaselinesAssumption DEF TypeOK, Window
  <2>2. total \in Nat
    BY <2>1
  <2>3. CASE total = 0
    <3>1. load.num = 0 /\ load.den = 1
      BY <2>3 DEF GetCurrentLoad, NoLoad
    <3> QED
      BY <2>1, <3>1 DEF HighLoad
  <2>4. CASE total # 0
    <3>1. latencyThreshold # 0
      BY <2>1, <2>4
    <3>2. loadThreshold >= 100
      BY <2>1, <3>1 DEF LatencyThreshold
    <3>3. load.num \in Nat /\ load.den \in Nat /\ load.num <= load.den
      BY <2>1, <2>2, <2>4 DEF GetCurrentLoad, FullLoad
    <3>4. 100 * load.num <= 100 * load.den
      BY <3>3
    <3>5. 100 * load.den <= loadThreshold * load.den
      <4> HIDE DEF load
      <4> QED
        BY <2>1, <3>2, <3>3
    <3>6. loadThreshold * load.den \in Nat
      BY <2>1, <3>3
    <3> HIDE DEF load
    <3>7. ~(100 * load.num > loadThreshold * load.den)
      BY <3>3, <3>4, <3>5, <3>6
    <3> QED
      BY <3>7 DEF HighLoad, load
  <2> QED
    BY <2>3, <2>4
<1> QED
  BY <1>1, TypeCorrect, PTL
=============================================================================
