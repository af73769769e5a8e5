--------------------------- MODULE PriorityProofs ---------------------------
(***************************************************************************)
(* The result of calculatePriority stays within the hull of the ranges of  *)
(* the configurations installed during the call, for all sets of users,    *)
(* calls and configurations, with any minimum and maximum.                 *)
(*                                                                         *)
(* The invariant records what the reads of the clamp establish: the        *)
(* configuration in force is always among those seen, so the comparison    *)
(* with a minimum leaves a witness for the lower bound ("high"), and an    *)
(* assigned bound is a witness for both.                                   *)
(***************************************************************************)
EXTENDS Priority, TLAPS

\* The two halves of WithinHull for one call.
AboveSome(c) == \E low \in Bounds(c) : low <= priority[c]
BelowSome(c) == \E high \in Bounds(c) : priority[c] <= high

IInv ==
  /\ TypeOK
  /\ \A c \in Calls :
       /\ pc[c] # "idle" => cfg \in seen[c]
       /\ pc[c] \in {"high", "lower", "done"} => AboveSome(c)
       /\ pc[c] = "done" => BelowSome(c)

\* The part of IInv about one call.
Fine(c) ==
  /\ pc[c] # "idle" => cfg \in seen[c]
  /\ pc[c] \in {"high", "lower", "done"} => AboveSome(c)
  /\ pc[c] = "done" => BelowSome(c)

\* The strategies compute integers.
LEMMA Tenths_Int ==
  ASSUME NEW x \in Int
  PROVE  Tenths(x) \in Int
BY SMT DEF Tenths

LEMMA HybridPriority_Int ==
  ASSUME NEW c \in Configs, NEW load \in Loads, NEW type \in ContentTypes
  PROVE  HybridPriority(c, load, type) \in Int
<1>1. c \in SchedulerConfig
  BY PriorityAssumption
<1>2. LoadPriority(c, load) \in Int
  BY <1>1 DEF LoadPriority, SchedulerConfig
<1>3. ContentPriority(c, type) \in Int
  BY <1>1 DEF ContentPriority, SchedulerConfig
<1>4. 6 * LoadPriority(c, load) + 4 * ContentPriority(c, type) \in Int
  BY <1>2, <1>3
<1> QED
  BY <1>4, Tenths_Int DEF HybridPriority

LEMMA SpamAdjustment_Int ==
  ASSUME NEW c \in Configs, NEW interval \in Int, NEW p50 \in P50s
  PROVE  SpamAdjustment(c, interval, p50) \in Int
<1>1. c \in SchedulerConfig
  BY PriorityAssumption
<1> QED
  BY <1>1 DEF SpamAdjustment, SchedulerConfig

-----------------------------------------------------------------------------
LEMMA InitInv == Init => IInv
BY PriorityAssumption DEF Init, IInv, TypeOK, Never

\* A step of call c leaves the other calls' locals alone.
Others(c) ==
  \A d \in Calls \ {c} :
    pc'[d] = pc[d] /\ priority'[d] = priority[d] /\ seen'[d] = seen[d]

\* It is enough that a step that keeps the configuration keeps the type and
\* the part of the invariant about the call that moves.
LEMMA OneCall ==
  ASSUME IInv, NEW c \in Calls, cfg' = cfg, Others(c), TypeOK', Fine(c)'
  PROVE  IInv'
<1> SUFFICES ASSUME NEW d \in Calls PROVE Fine(d)'
  BY DEF IInv, Fine
<1>1. CASE d = c
  BY <1>1
<1>2. CASE d # c
  BY <1>2 DEF IInv, Fine, Others, AboveSome, BelowSome, Bounds
<1> QED
  BY <1>1, <1>2

LEMMA StepInv ==
  ASSUME IInv, NEW c \in Calls, Step(c)
  PROVE  IInv'
<1>1. TypeOK /\ Fine(c)
  BY DEF IInv, Fine
<1>2. cfg \in SchedulerConfig
  BY <1>1, PriorityAssumption DEF TypeOK
<1>3. cfg.MinPriority \in Int /\ cfg.MaxPriority \in Int
  BY <1>2 DEF SchedulerConfig
<1>4. cfg' = cfg /\ Others(c)
  BY <1>1 DEF Step, Begin, Touch, Adjust, CompareLow, Raise, CompareHigh, Lower,
              Return, Others, TypeOK, locals
<1>5. CASE Begin(c)
  <2>1. PICK u \in Users, load \in Loads, type \in ContentTypes :
          /\ user' = [user EXCEPT ![c] = u]
          /\ priority' = [priority EXCEPT ![c] = HybridPriority(cfg, load, type)]
    BY <1>5 DEF Begin
  <2>2. HybridPriority(cfg, load, type) \in Int
    BY <1>1, HybridPriority_Int DEF TypeOK
  <2>3. TypeOK'
    BY <1>1, <1>5, <2>1, <2>2 DEF Begin, TypeOK
  <2>4. Fine(c)'
    BY <1>1, <1>5 DEF Begin, Fine, TypeOK
  <2> QED
    BY <1>4, <2>3, <2>4, OneCall
<1>6. CASE Touch(c)
  <2>1. stamp[c] \in 0..MaxTime /\ user[c] \in Users
    BY <1>1 DEF TypeOK
  <2>2. last[user[c]] \in Int /\ stamp[c] - last[user[c]] \in Int
    BY <1>1, <2>1, PriorityAssumption DEF TypeOK, Never
  <2>3. TypeOK'
    BY <1>1, <1>6, <2>1, <2>2, PriorityAssumption
    DEF Touch, Touched, TypeOK, Never
  <2>4. Fine(c)'
    BY <1>1, <1>6 DEF Touch, Fine, TypeOK
  <2> QED
    BY <1>4, <2>3, <2>4, OneCall
<1>7. CASE Adjust(c)
  <2>1. PICK p50 \in P50s :
          priority' = [priority EXCEPT ![c] = @ + SpamAdjustment(cfg, gap[c], p50)]
    BY <1>7 DEF Adjust
  <2>2. priority[c] + SpamAdjustment(cfg, gap[c], p50) \in Int
    <3>1. gap[c] \in Int /\ priority[c] \in Int /\ cfg \in Configs
      BY <1>1 DEF TypeOK
    <3> QED
      BY <3>1, SpamAdjustment_Int
  <2>3. TypeOK'
    BY <1>1, <1>7, <2>1, <2>2 DEF Adjust, TypeOK
  <2>4. Fine(c)'
    BY <1>1, <1>7 DEF Adjust, Fine, TypeOK
  <2> QED
    BY <1>4, <2>3, <2>4, OneCall
<1>8. CASE CompareLow(c)
  <2>1. TypeOK'
    BY <1>1, <1>8 DEF CompareLow, TypeOK
  <2>2. Fine(c)'
    <3>1. priority[c] \in Int
      BY <1>1 DEF TypeOK
    <3>2. cfg \in seen[c] /\ seen' = seen /\ priority' = priority
      BY <1>1, <1>8 DEF CompareLow, Fine
    <3>3. pc'[c] = IF priority[c] < cfg.MinPriority THEN "raise" ELSE "high"
      BY <1>1, <1>8 DEF CompareLow, TypeOK
    <3>4. pc'[c] = "high" => cfg.MinPriority <= priority[c]
      BY <1>3, <3>1, <3>3
    <3> QED
      BY <1>4, <3>2, <3>3, <3>4 DEF Fine, AboveSome, BelowSome, Bounds
  <2> QED
    BY <1>4, <2>1, <2>2, OneCall
<1>9. CASE Raise(c)
  <2>1. TypeOK'
    BY <1>1, <1>3, <1>9 DEF Raise, TypeOK
  <2>2. Fine(c)'
    <3>1. priority'[c] = cfg.MinPriority /\ seen' = seen /\ cfg \in seen[c]
      BY <1>1, <1>9 DEF Raise, Fine, TypeOK
    <3>2. priority'[c] \in Bounds(c) /\ priority'[c] \in Int
      BY <1>3, <3>1 DEF Bounds
    <3> QED
      BY <1>4, <3>1, <3>2 DEF Fine, AboveSome, BelowSome, Bounds
  <2> QED
    BY <1>4, <2>1, <2>2, OneCall
<1>10. CASE CompareHigh(c)
  <2>1. TypeOK'
    BY <1>1, <1>10 DEF CompareHigh, TypeOK
  <2>2. Fine(c)'
    <3>1. priority[c] \in Int
      BY <1>1 DEF TypeOK
    <3>2. cfg \in seen[c] /\ seen' = seen /\ priority' = priority /\ AboveSome(c)
      BY <1>1, <1>10 DEF CompareHigh, Fine
    <3>3. pc'[c] = IF priority[c] > cfg.MaxPriority THEN "lower" ELSE "done"
      BY <1>1, <1>10 DEF CompareHigh, MaxOf, TypeOK
    <3>4. pc'[c] = "done" => priority[c] <= cfg.MaxPriority
      BY <1>3, <3>1, <3>3
    <3> QED
      BY <1>4, <3>2, <3>3, <3>4 DEF Fine, AboveSome, BelowSome, Bounds
  <2> QED
    BY <1>4, <2>1, <2>2, OneCall
<1>11. CASE Lower(c)
  <2>1. TypeOK'
    BY <1>1, <1>3, <1>11 DEF Lower, MaxOf, TypeOK
  <2>2. Fine(c)'
    <3>1. priority'[c] = cfg.MaxPriority /\ seen' = seen /\ cfg \in seen[c]
      BY <1>1, <1>11 DEF Lower, MaxOf, Fine, TypeOK
    <3>2. priority'[c] \in Bounds(c) /\ priority'[c] \in Int
      BY <1>3, <3>1 DEF Bounds
    <3> QED
      BY <1>4, <3>1, <3>2 DEF Fine, AboveSome, BelowSome, Bounds
  <2> QED
    BY <1>4, <2>1, <2>2, OneCall
<1>12. CASE Return(c)
  <2>1. TypeOK'
    BY <1>1, <1>12 DEF Return, TypeOK
  <2>2. Fine(c)'
    BY <1>1, <1>12 DEF Return, Fine, TypeOK
  <2> QED
    BY <1>4, <2>1, <2>2, OneCall
<1> QED
  BY <1>5, <1>6, <1>7, <1>8, <1>9, <1>10, <1>11, <1>12 DEF Step

LEMMA UpdateConfigInv ==
  ASSUME IInv, NEW new \in Configs, UpdateConfig(new)
  PROVE  IInv'
<1>1. TypeOK'
  BY PriorityAssumption DEF IInv, UpdateConfig, Cleared, TypeOK, locals, Never
<1>2. ASSUME NEW c \in Calls PROVE Fine(c)'
  <2>1. pc'[c] = pc[c] /\ priority'[c] = priority[c]
    BY DEF UpdateConfig, locals
  <2>2. pc[c] # "idle" => seen'[c] = seen[c] \cup {new}
    BY <1>2 DEF UpdateConfig
  <2>3. cfg' = new
    BY DEF UpdateConfig
  <2> QED
    BY <1>2, <2>1, <2>2, <2>3 DEF IInv, Fine, AboveSome, BelowSome, Bounds
<1> QED
  BY <1>1, <1>2 DEF IInv, Fine

LEMMA NextInv == IInv /\ [Next]_vars => IInv'
<1> SUFFICES ASSUME IInv, [Next]_vars PROVE IInv'
  OBVIOUS
<1>1. CASE \E c \in Calls : Step(c)
  BY <1>1, StepInv
<1>2. CASE \E new \in Configs : UpdateConfig(new)
  BY <1>2, UpdateConfigInv
<1>3. CASE Tick
  BY <1>3, PriorityAssumption
  DEF Tick, IInv, TypeOK, AboveSome, BelowSome, Bounds, locals
<1>4. CASE UNCHANGED vars
  BY <1>4 DEF vars, IInv, TypeOK, AboveSome, BelowSome, Bounds, locals
<1> QED
  BY <1>1, <1>2, <1>3, <1>4 DEF Next

\* IInv is an invariant of the specification.
THEOREM Invariance == Spec => []IInv
BY InitInv, NextInv, PTL DEF Spec

\* Every variable of calculatePriority and of the scheduler's history keeps
\* its type.
THEOREM TypeCorrect == Spec => []TypeOK
<1>1. IInv => TypeOK
  BY DEF IInv
<1> QED
  BY <1>1, Invariance, PTL

\* calculatePriority's result is bounded by the configurations installed while
\* it ran, however reloads and other calls interleave with its reads.
THEOREM Hull == Spec => []WithinHull
<1>1. IInv => WithinHull
  BY DEF IInv, WithinHull, AboveSome, BelowSome
<1> QED
  BY <1>1, Invariance, PTL
=============================================================================
