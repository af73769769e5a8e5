------------------------------ MODULE Priority ------------------------------
(***************************************************************************)
(* calculatePriority: the priority a request gets in the scheduler's heap. *)
(*                                                                         *)
(* It runs in the goroutine of each Submit.  s.mu protects the map of last *)
(* request times, and UpdateConfig replaces the configuration under it;    *)
(* but calculatePriority reads s.schedulerConfig outside the lock, once    *)
(* for the strategy, once for the spam adjustment and up to three times in *)
(* the clamp, so a reload may happen between any two of these reads.  Each *)
(* read is therefore an action of its own.                                 *)
(*                                                                         *)
(* A slot c \in Calls is one call; slots are reused, and a local variable  *)
(* goes back to its initial value when it is read no more.  Times are      *)
(* natural numbers, MaxTime bounds the clock.  The weighted sum of the     *)
(* strategies is exact here; the code computes it in float64.              *)
(***************************************************************************)
EXTENDS Integers

CONSTANTS
  Users,    \* user IDs
  Calls,    \* calls of calculatePriority
  Configs,  \* the scheduler configurations that may be loaded
  Loads,    \* GetSystemLoad readings, hundredths
  P50s,     \* P50 readings
  MaxTime

\* The fields of config.SchedulerConfig that matter here; analysis stands for
\* the two settings of UserBehaviorAnalysis that UpdateConfig compares.
\* Neither Validate nor SetDefaults compares MinPriority with MaxPriority: a
\* file that sets base_priority and min_priority has a maximum of 0.
SchedulerConfig ==
  [ BasePriority : Int, MinPriority : Int, MaxPriority : Int,
    HighLoadAdjustment : Int, LowLoadAdjustment : Int, analysis : Nat ]

ASSUME PriorityAssumption ==
  /\ Configs \subseteq SchedulerConfig /\ Configs # {}
  /\ Loads \subseteq Nat /\ P50s \subseteq Nat
  /\ MaxTime \in Nat

VARIABLES
  cfg,       \* s.schedulerConfig
  last,      \* s.userLastRequest; Never where there is no entry
  now,       \* the clock
  pc,        \* where each call is
  user,      \* whose request it is about
  stamp,     \* the time it took
  gap,       \* requestInterval
  priority,  \* its local variable priority
  seen       \* history: configurations installed since the call began

locals == <<pc, user, stamp, gap, priority>>
vars == <<cfg, last, now, locals, seen>>

Never == -1

-----------------------------------------------------------------------------
(* The strategies.                                                         *)

LoadPriority(c, load) ==
  c.BasePriority + (IF load > 80 THEN c.HighLoadAdjustment
                    ELSE IF load < 30 THEN c.LowLoadAdjustment ELSE 0)

\* What determineContentType returns; of the types that the strategy knows,
\* it returns only "text".
ContentTypes == {"empty", "long_text", "url", "text"}

ContentPriority(c, type) ==
  c.BasePriority + (IF type = "text" THEN 10 ELSE 0)

\* int(x / 10) truncates towards zero.
Tenths(x) == IF x >= 0 THEN x \div 10 ELSE -((-x) \div 10)

\* The hybrid strategy with the weights 0.6 and 0.4 of NewScheduler.
HybridPriority(c, load, type) ==
  Tenths(6 * LoadPriority(c, load) + 4 * ContentPriority(c, type))

\* The adjustment for a request that follows the user's last one by interval.
SpamAdjustment(c, interval, p50) ==
  IF p50 > 0 /\ 3 * interval < p50 THEN -2 * c.HighLoadAdjustment
  ELSE IF p50 > 0 /\ 2 * interval < p50 THEN -c.HighLoadAdjustment
  ELSE 0

-----------------------------------------------------------------------------
\* The call computes the strategy's priority and takes the time.
Begin(c) ==
  /\ pc[c] = "idle"
  /\ \E u \in Users, load \in Loads, type \in ContentTypes :
       /\ user' = [user EXCEPT ![c] = u]
       /\ priority' = [priority EXCEPT ![c] = HybridPriority(cfg, load, type)]
  /\ stamp' = [stamp EXCEPT ![c] = now]
  /\ seen' = [seen EXCEPT ![c] = {cfg}]
  /\ pc' = [pc EXCEPT ![c] = "touch"]
  /\ UNCHANGED <<cfg, last, now, gap>>

\* Mutant: the interval is stored, and not the time.
Touched_Interval(c) == [last EXCEPT ![user[c]] = stamp[c] - @]

Touched(c) == [last EXCEPT ![user[c]] = stamp[c]]

\* The section under s.mu.
Touch(c) ==
  /\ pc[c] = "touch"
  /\ last' = Touched(c)
  /\ IF last[user[c]] = Never
     THEN pc' = [pc EXCEPT ![c] = "low"] /\ UNCHANGED gap
     ELSE /\ pc' = [pc EXCEPT ![c] = "adjust"]
          /\ gap' = [gap EXCEPT ![c] = stamp[c] - last[user[c]]]
  /\ stamp' = [stamp EXCEPT ![c] = 0]
  /\ UNCHANGED <<cfg, now, user, priority, seen>>

Adjust(c) ==
  /\ pc[c] = "adjust"
  /\ \E p50 \in P50s :
       priority' = [priority EXCEPT ![c] = @ + SpamAdjustment(cfg, gap[c], p50)]
  /\ gap' = [gap EXCEPT ![c] = 0]
  /\ pc' = [pc EXCEPT ![c] = "low"]
  /\ UNCHANGED <<cfg, last, now, user, stamp, seen>>

-----------------------------------------------------------------------------
(* The clamp: each comparison and each assignment reads the configuration. *)

\* Mutant: the bound itself counts as too high, and so it goes one further.
MaxOf_Exclusive(c) == c.MaxPriority + 1

MaxOf(c) == c.MaxPriority

CompareLow(c) ==
  /\ pc[c] = "low"
  /\ pc' = [pc EXCEPT ![c] =
              IF priority[c] < cfg.MinPriority THEN "raise" ELSE "high"]
  /\ UNCHANGED <<cfg, last, now, user, stamp, gap, priority, seen>>

Raise(c) ==
  /\ pc[c] = "raise"
  /\ priority' = [priority EXCEPT ![c] = cfg.MinPriority]
  /\ pc' = [pc EXCEPT ![c] = "done"]
  /\ UNCHANGED <<cfg, last, now, user, stamp, gap, seen>>

CompareHigh(c) ==
  /\ pc[c] = "high"
  /\ pc' = [pc EXCEPT ![c] =
              IF priority[c] > MaxOf(cfg) THEN "lower" ELSE "done"]
  /\ UNCHANGED <<cfg, last, now, user, stamp, gap, priority, seen>>

Lower(c) ==
  /\ pc[c] = "lower"
  /\ priority' = [priority EXCEPT ![c] = MaxOf(cfg)]
  /\ pc' = [pc EXCEPT ![c] = "done"]
  /\ UNCHANGED <<cfg, last, now, user, stamp, gap, seen>>

\* The priority is returned.
Return(c) ==
  /\ pc[c] = "done"
  /\ pc' = [pc EXCEPT ![c] = "idle"]
  /\ priority' = [priority EXCEPT ![c] = 0]
  /\ seen' = [seen EXCEPT ![c] = {}]
  /\ UNCHANGED <<cfg, last, now, user, stamp, gap>>

-----------------------------------------------------------------------------
\* A change of the analysis settings clears the history.
Cleared(new) ==
  IF cfg.analysis # new.analysis THEN [u \in Users |-> Never] ELSE last

\* Scheduler.UpdateConfig.  The size of the worker pool is only logged.
UpdateConfig(new) ==
  /\ cfg' = new
  /\ last' = Cleared(new)
  /\ seen' = [c \in Calls |-> IF pc[c] = "idle" THEN {} ELSE seen[c] \cup {new}]
  /\ UNCHANGED <<now, locals>>

Tick ==
  /\ now < MaxTime
  /\ now' = now + 1
  /\ UNCHANGED <<cfg, last, locals, seen>>

Init ==
  /\ cfg \in Configs
  /\ last = [u \in Users |-> Never]
  /\ now = 0
  /\ pc = [c \in Calls |-> "idle"]
  /\ user \in [Calls -> Users]
  /\ stamp = [c \in Calls |-> 0]
  /\ gap = [c \in Calls |-> 0]
  /\ priority = [c \in Calls |-> 0]
  /\ seen = [c \in Calls |-> {}]

Step(c) ==
  \/ Begin(c)
  \/ Touch(c)
  \/ Adjust(c)
  \/ CompareLow(c) \/ Raise(c)
  \/ CompareHigh(c) \/ Lower(c)
  \/ Return(c)

Next ==
  \/ \E c \in Calls : Step(c)
  \/ \E new \in Configs : UpdateConfig(new)
  \/ Tick

Spec == Init /\ [][Next]_vars

-----------------------------------------------------------------------------
(* Properties.                                                             *)

TypeOK ==
  /\ cfg \in Configs
  /\ last \in [Users -> {Never} \cup 0..MaxTime]
  /\ now \in 0..MaxTime
  /\ pc \in [Calls -> {"idle", "touch", "adjust", "low", "raise", "high",
                       "lower", "done"}]
  /\ user \in [Calls -> Users]
  /\ stamp \in [Calls -> 0..MaxTime]
  /\ gap \in [Calls -> Int]
  /\ priority \in [Calls -> Int]
  /\ seen \in [Calls -> SUBSET Configs]

\* The bounds of the configurations installed since call c began.
Bounds(c) ==
  {x.MinPriority : x \in seen[c]} \cup {x.MaxPriority : x \in seen[c]}

\* Whatever reloads hit the clamp, the result lies between the bounds of the
\* configurations installed during the call: with no reload it is within the
\* range of the one configuration, also when its minimum is the larger one.
WithinHull ==
  \A c \in Calls : pc[c] = "done" =>
    /\ \E low \in Bounds(c) : low <= priority[c]
    /\ \E high \in Bounds(c) : priority[c] <= high
=============================================================================
