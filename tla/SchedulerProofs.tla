-------------------------- MODULE SchedulerProofs --------------------------
(***************************************************************************)
(* Proofs about Scheduler, for every finite set of requests and workers,   *)
(* heap operations that overlap included.                                  *)
(*                                                                         *)
(* TInv: the types, and that a request nobody has submitted is nowhere.    *)
(* From it follow that a pop never stalls and that the scheduler takes a   *)
(* bounded number of steps after cancel().                                 *)
(*                                                                         *)
(* IInv: the damage of an overlap is confined (Confined).  An operation    *)
(* that overlaps no other one finds the heap as it read it, so it moves    *)
(* one request and no other.  One that does overlap can change only what   *)
(* was in the heap meanwhile, all of which is in raced; so whatever it     *)
(* stores, the other requests stay where they are, once each.              *)
(*                                                                         *)
(* Until the first overlap, every request is such a request, and the moves *)
(* are the steps of RequestQueue as seen from Submit's callers.            *)
(***************************************************************************)
EXTENDS Scheduler, FiniteSetTheorems, WellFoundedInduction, TLAPS

\* Run holds a request from the cut to the send, and perhaps after it stopped;
\* a worker holds one while it is busy.
HandState ==
  /\ run \in {"loop", "polling", "popping", "idle"} => hand = None
  /\ run \in {"cutting", "sending"} => hand # None
  /\ \A w \in Workers : job[w] # None <=> worker[w] = "busy"

\* A request that is not submitted is nowhere, not even in what a heap
\* operation has read, and nothing has put it at risk.
NewIsNowhere ==
  \A r \in Requests : submit[r] = "new" =>
    /\ r \notin Places \cup raced
    /\ \A x \in Requests \cup {Run} : r \notin seen[x]

TInv == TypeOK /\ HandState /\ NewIsNowhere

\* An operation that overlaps no other one is alone, and the heap is as it read
\* it.  While an operation that overlaps is in progress, all that is in the
\* heap, or that an operation has read, is at risk; so is what Run cuts.
Confined ==
  /\ \A x \in Active \ raced : Active = {x} /\ seen[x] = pq
  /\ Active \cap raced # {} =>
       Active \cup pq \cup UNION {seen[y] : y \in Active} \subseteq raced
  /\ run = "cutting" => IF Run \in raced THEN hand \in raced ELSE hand \in pq
  /\ Run \in raced => Popping /\ raced \cap Requests # {}
  /\ crashed => raced # {}

\* A request that is not queued yet, and not at risk, is nowhere.
NotYetQueued ==
  \A r \in Requests \ raced : submit[r] # "queued" => r \notin Places

IInv == TInv /\ Confined /\ NotYetQueued /\ QueuedIsKept /\ AtMostOnce

USE SchedulerAssumption DEF heap, runner, channel, workers

-----------------------------------------------------------------------------
(* The channel as a set.                                                   *)

\* Sending adds the request sent.
LEMMA PoolAppend ==
  ASSUME NEW s \in Seq(Requests), NEW x \in Requests
  PROVE  /\ Append(s, x) \in Seq(Requests) /\ Len(Append(s, x)) = Len(s) + 1
         /\ {Append(s, x)[i] : i \in DOMAIN Append(s, x)}
              = {s[i] : i \in DOMAIN s} \cup {x}
<1>1. /\ Append(s, x) \in Seq(Requests) /\ Len(Append(s, x)) = Len(s) + 1
      /\ DOMAIN Append(s, x) = 1..(Len(s) + 1) /\ DOMAIN s = 1..Len(s)
      /\ Len(s) \in Nat
  OBVIOUS
<1>2. /\ \A i \in 1..Len(s) : Append(s, x)[i] = s[i]
      /\ Append(s, x)[Len(s) + 1] = x
  OBVIOUS
<1>3. \A i \in 1..(Len(s) + 1) : i \in 1..Len(s) \/ i = Len(s) + 1
  BY <1>1
<1>4. \A i \in 1..Len(s) : i \in 1..(Len(s) + 1)
  BY <1>1
<1>5. Len(s) + 1 \in 1..(Len(s) + 1)
  BY <1>1
<1> HIDE DEF heap
<1> QED
  BY <1>1, <1>2, <1>3, <1>4, <1>5

\* Receiving removes the head.
LEMMA PoolTail ==
  ASSUME NEW s \in Seq(Requests), s # <<>>
  PROVE  /\ Tail(s) \in Seq(Requests) /\ Len(Tail(s)) = Len(s) - 1
         /\ Head(s) \in Requests /\ Head(s) = s[1]
         /\ DOMAIN Tail(s) = 1..(Len(s) - 1) /\ DOMAIN s = 1..Len(s)
         /\ Len(s) \in Nat \ {0}
         /\ \A i \in 1..(Len(s) - 1) : Tail(s)[i] = s[i + 1]
OBVIOUS

\* PoolSize is a number.
LEMMA PoolSizeType == PoolSize \in Nat
BY FS_CardinalityType DEF PoolSize

-----------------------------------------------------------------------------
(* What holds even when heap operations overlap.                           *)

LEMMA InitTInv == Init => TInv
<1> SUFFICES ASSUME Init PROVE TInv
  OBVIOUS
<1>1. InPool = {} /\ InWork = {} /\ pool = <<>>
  BY DEF Init, InPool, InWork
<1>2. pool \in Seq(Requests) /\ Len(pool) <= PoolSize
  BY <1>1, PoolSizeType
<1>3. closed \in BOOLEAN /\ ctxDone \in BOOLEAN /\ crashed \in BOOLEAN
  BY DEF Init
<1>4. TypeOK
  BY <1>2, <1>3 DEF Init, TypeOK
<1>5. HandState /\ NewIsNowhere
  BY <1>1 DEF Init, HandState, NewIsNowhere, Places
<1> QED
  BY <1>4, <1>5 DEF TInv

\* What an operation puts at risk when it starts.
LEMMA RiskIsKnown ==
  ASSUME TypeOK, NEW x \in Requests \cup {Run}
  PROVE  /\ AtRisk(x) \subseteq Requests \cup {Run}
         /\ AtRisk(x) = {} \/ AtRisk(x) = {x} \cup Active \cup pq
                                          \cup UNION {seen[y] : y \in Active}
         /\ Active # {} => x \in AtRisk(x) /\ Active \subseteq AtRisk(x)
         /\ Active = {} => AtRisk(x) = {}
<1>1. Active \subseteq Requests \cup {Run}
  BY DEF Active, Pushing
<1>2. UNION {seen[y] : y \in Active} \subseteq Requests
  BY <1>1 DEF TypeOK
<1>3. pq \subseteq Requests
  BY DEF TypeOK
<1> QED
  BY <1>1, <1>2, <1>3 DEF AtRisk

\* ... none of which is new, but for the request itself.
LEMMA RiskIsNotNew ==
  ASSUME TInv, NEW x \in Requests \cup {Run}, NEW r \in Requests,
         submit[r] = "new", r # x
  PROVE  r \notin AtRisk(x)
<1>1. Active \subseteq Requests \cup {Run} /\ r \notin Active
  BY DEF Active, Pushing
<1>2. \A y \in Active : r \notin seen[y]
  BY <1>1 DEF TInv, NewIsNowhere
<1>3. r \notin pq
  BY DEF TInv, NewIsNowhere, Places
<1>4. r \notin UNION {seen[y] : y \in Active}
  BY <1>2
<1> QED
  BY <1>1, <1>3, <1>4, RiskIsKnown DEF TInv

\* A Submit call reads the heap, or stores what it may store.
LEMMA SubmitTInv ==
  ASSUME TInv, NEW r \in Requests, Submit(r) \/ Pushed(r)
  PROVE  TInv'
<1> USE DEF TInv
<1>1. /\ UNCHANGED <<run, hand, pool, closed, worker, job, handled, ctxDone,
                     overtakers>>
      /\ InPool' = InPool /\ InWork' = InWork /\ PoolSize' = PoolSize
  BY DEF Submit, Pushed, Corrupt, InPool, InWork, PoolSize
<1>2. HandState'
  BY <1>1 DEF HandState
<1>3. CASE Submit(r)
  <2>1. PICK p \in Priorities : priority' = [priority EXCEPT ![r] = p]
    BY <1>3 DEF Submit
  <2>2. /\ submit[r] = "new" /\ submit' = [submit EXCEPT ![r] = "pushing"]
        /\ seen' = [seen EXCEPT ![r] = pq] /\ pq' = pq /\ crashed' = crashed
        /\ raced' = raced \cup AtRisk(r)
    BY <1>3 DEF Submit
  <2>3. priority' \in [Requests -> Priorities \cup {None}]
    BY <2>1 DEF TypeOK
  <2>4. /\ submit' \in [Requests -> {"new", "pushing", "queued"}]
        /\ seen' \in [Requests \cup {Run} -> SUBSET Requests]
    BY <2>2 DEF TypeOK
  <2>5. raced' \subseteq Requests \cup {Run}
    BY <2>2, RiskIsKnown DEF TypeOK
  <2>6. TypeOK'
    BY <1>1, <2>2, <2>3, <2>4, <2>5 DEF TypeOK
  <2>7. ASSUME NEW q \in Requests, submit'[q] = "new"
        PROVE  /\ q \notin (Places \cup raced)'
               /\ \A x \in Requests \cup {Run} : q \notin seen'[x]
    <3>1. q # r /\ submit[q] = "new"
      BY <2>2, <2>7 DEF TypeOK
    <3>2. q \notin AtRisk(r) /\ q \notin pq
      BY <3>1, RiskIsNotNew DEF NewIsNowhere, Places
    <3>3. \A x \in Requests \cup {Run} : q \notin seen'[x]
      BY <2>2, <3>1, <3>2 DEF NewIsNowhere, TypeOK
    <3> QED
      BY <1>1, <2>2, <3>1, <3>2, <3>3 DEF NewIsNowhere, Places
  <2>8. NewIsNowhere'
    BY <2>7 DEF NewIsNowhere
  <2> QED
    BY <1>2, <2>6, <2>8
<1>4. ASSUME pq' \in Grown(r), submit[r] = "pushing",
             submit' = [submit EXCEPT ![r] = "queued"],
             seen' = [seen EXCEPT ![r] = {}],
             UNCHANGED <<priority, raced, crashed>>
      PROVE  TInv'
  <2>1. pq' \subseteq seen[r] \cup pq \cup {r}
    BY <1>4 DEF Grown
  <2>2. /\ submit' \in [Requests -> {"new", "pushing", "queued"}]
        /\ seen' \in [Requests \cup {Run} -> SUBSET Requests]
        /\ pq' \subseteq Requests
    BY <1>4, <2>1 DEF TypeOK
  <2>3. TypeOK'
    BY <1>1, <1>4, <2>2 DEF TypeOK
  <2>4. NewIsNowhere'
    BY <1>1, <1>4, <2>1 DEF NewIsNowhere, Places, TypeOK
  <2> QED
    BY <1>2, <2>3, <2>4
<1>5. CASE Corrupt
  <2>1. crashed' \in BOOLEAN /\ UNCHANGED <<submit, priority, pq, seen, raced>>
    BY <1>5 DEF Corrupt
  <2> QED
    BY <1>1, <1>2, <2>1 DEF TypeOK, NewIsNowhere, Places
<1> QED
  BY <1>3, <1>4, <1>5 DEF Pushed

\* Run looks at the heap, and starts to pop when there is something in it.
LEMMA MeasureTInv ==
  ASSUME TInv, Measure
  PROVE  TInv'
<1> USE DEF TInv
<1>1. /\ run = "polling" /\ run' \in {"idle", "popping"}
      /\ UNCHANGED <<submit, priority, pq, hand, pool, closed, worker, job,
                     handled, ctxDone, crashed, overtakers>>
      /\ InPool' = InPool /\ InWork' = InWork /\ PoolSize' = PoolSize
  BY DEF Measure, InPool, InWork, PoolSize
<1>2. /\ seen' = seen \/ seen' = [seen EXCEPT ![Run] = pq]
      /\ raced' = raced \/ raced' = raced \cup AtRisk(Run)
  BY DEF Measure
<1>3. seen' \in [Requests \cup {Run} -> SUBSET Requests]
  BY <1>2 DEF TypeOK
<1>4. raced' \subseteq Requests \cup {Run}
  BY <1>2, RiskIsKnown DEF TypeOK
<1>5. TypeOK'
  BY <1>1, <1>3, <1>4 DEF TypeOK
<1>6. HandState'
  BY <1>1 DEF HandState
<1>7. ASSUME NEW q \in Requests, submit'[q] = "new"
      PROVE  /\ q \notin (Places \cup raced)'
             /\ \A x \in Requests \cup {Run} : q \notin seen'[x]
  <2>1. submit[q] = "new" /\ q # Run
    BY <1>1, <1>7
  <2>2. q \notin AtRisk(Run) /\ q \notin pq
    BY <2>1, RiskIsNotNew DEF NewIsNowhere, Places
  <2>3. \A x \in Requests \cup {Run} : q \notin seen'[x]
    BY <1>2, <2>1, <2>2 DEF NewIsNowhere, TypeOK
  <2> QED
    BY <1>1, <1>2, <2>1, <2>2, <2>3 DEF NewIsNowhere, Places
<1> QED
  BY <1>5, <1>6, <1>7 DEF NewIsNowhere

\* Run takes a request of the heap, and stores the heap without it.
LEMMA PopTInv ==
  ASSUME TInv, Cut \/ Popped
  PROVE  TInv'
<1> USE DEF TInv
<1>1. /\ UNCHANGED <<submit, priority, pool, closed, worker, job, handled,
                     ctxDone, overtakers>>
      /\ InPool' = InPool /\ InWork' = InWork /\ PoolSize' = PoolSize
  BY DEF Cut, Popped, Corrupt, InPool, InWork, PoolSize
<1>2. CASE Corrupt
  <2>1. crashed' \in BOOLEAN /\ UNCHANGED <<pq, seen, raced, run, hand>>
    BY <1>2 DEF Corrupt
  <2> QED
    BY <1>1, <2>1 DEF TypeOK, HandState, NewIsNowhere, Places
<1>3. CASE Cut /\ ~Corrupt
  <2>1. /\ hand' \in pq /\ pq' = pq /\ run' = "cutting"
        /\ seen' = [seen EXCEPT ![Run] = pq] /\ UNCHANGED <<raced, crashed>>
    BY <1>3 DEF Cut, Candidates, Top
  <2>2. seen' \in [Requests \cup {Run} -> SUBSET Requests] /\ hand' \in Requests
    BY <2>1 DEF TypeOK
  <2>3. TypeOK'
    BY <1>1, <2>1, <2>2 DEF TypeOK
  <2>4. HandState'
    BY <1>1, <2>1, <2>2 DEF HandState
  <2>5. NewIsNowhere'
    BY <1>1, <2>1 DEF NewIsNowhere, Places, TypeOK
  <2> QED
    BY <2>3, <2>4, <2>5
<1>4. CASE Popped /\ ~Corrupt
  <2>1. /\ pq' \in Shrunk /\ run = "cutting" /\ run' = "sending" /\ hand' = hand
        /\ seen' = [seen EXCEPT ![Run] = {}] /\ raced' = raced \ {Run}
        /\ crashed' = crashed
    BY <1>4 DEF Popped
  <2>2. pq' \subseteq seen[Run] \cup pq
    BY <2>1 DEF Shrunk, Without
  <2>3. /\ seen' \in [Requests \cup {Run} -> SUBSET Requests]
        /\ pq' \subseteq Requests
    BY <2>1, <2>2 DEF TypeOK
  <2>4. TypeOK'
    BY <1>1, <2>1, <2>3 DEF TypeOK
  <2>5. HandState'
    BY <1>1, <2>1 DEF HandState
  <2>6. NewIsNowhere'
    BY <1>1, <2>1, <2>2 DEF NewIsNowhere, Places, TypeOK
  <2> QED
    BY <2>4, <2>5, <2>6
<1> QED
  BY <1>2, <1>3, <1>4

\* Run passes its select, idles or stops; the context is cancelled.
LEMMA QuietTInv ==
  ASSUME TInv, Poll \/ IdleWait \/ (Send /\ Stop) \/ Cancel \/ UNCHANGED vars
  PROVE  TInv'
<1> USE DEF TInv
<1>1. UNCHANGED <<submit, priority, pq, seen, raced, hand, pool, worker, job,
                  handled, crashed, overtakers>>
  BY DEF Poll, IdleWait, Send, Stop, Cancel, vars
<1>2. \/ run' = run
      \/ run' = "stopped"
      \/ hand = None /\ run' \in {"loop", "polling"}
  BY DEF Poll, IdleWait, Send, Stop, Cancel, vars, HandState
<1>3. closed' \in BOOLEAN /\ ctxDone' \in BOOLEAN
  BY DEF Poll, IdleWait, Send, Stop, Cancel, vars, TypeOK
<1>4. InPool' = InPool /\ InWork' = InWork /\ PoolSize' = PoolSize
  BY <1>1 DEF InPool, InWork, PoolSize
<1>5. run' \in {"loop", "polling", "popping", "cutting", "sending", "idle",
                "stopped"}
  BY <1>2 DEF TypeOK
<1>6. TypeOK'
  BY <1>1, <1>3, <1>4, <1>5 DEF TypeOK
<1>7. HandState'
  BY <1>1, <1>2 DEF HandState
<1>8. NewIsNowhere'
  BY <1>1, <1>4 DEF NewIsNowhere, Places
<1> QED
  BY <1>6, <1>7, <1>8

\* Run sends what it holds.
LEMMA SendTInv ==
  ASSUME TInv, Send, ~Stop
  PROVE  TInv'
<1> USE DEF TInv
<1>1. /\ run = "sending" /\ run' = "loop" /\ Len(pool) < PoolSize
      /\ pool' = Append(pool, hand) /\ hand' = None
      /\ UNCHANGED <<submit, priority, pq, seen, raced, closed, worker, job,
                     handled, ctxDone, crashed, overtakers>>
  BY DEF Send, HasRoom
<1>2. hand \in Requests /\ pool \in Seq(Requests) /\ Len(pool) \in Nat
  BY <1>1 DEF HandState, TypeOK
<1>3. /\ InPool' = InPool \cup {hand} /\ InWork' = InWork
      /\ pool' \in Seq(Requests) /\ Len(pool') = Len(pool) + 1
  BY <1>1, <1>2, PoolAppend DEF InPool, InWork
<1>4. Len(pool') <= PoolSize
  BY <1>1, <1>2, <1>3, PoolSizeType
<1>5. TypeOK'
  BY <1>1, <1>3, <1>4 DEF TypeOK, PoolSize
<1>6. HandState'
  BY <1>1 DEF HandState
<1>7. NewIsNowhere'
  BY <1>1, <1>3 DEF NewIsNowhere, Places
<1> QED
  BY <1>5, <1>6, <1>7

\* A worker receives the head of the channel.
LEMMA TakeTInv ==
  ASSUME TInv, NEW w \in Workers, Take(w)
  PROVE  TInv'
<1> USE DEF TInv
<1> DEFINE h == Head(pool)
<1>1. /\ worker[w] = "waiting" /\ worker' = [worker EXCEPT ![w] = "busy"]
      /\ pool # <<>> /\ pool' = Tail(pool) /\ job' = [job EXCEPT ![w] = h]
      /\ UNCHANGED <<submit, priority, pq, seen, raced, run, hand, closed,
                     handled, ctxDone, crashed>>
  BY DEF Take
<1>2. /\ pool' \in Seq(Requests) /\ Len(pool') = Len(pool) - 1
      /\ h \in Requests /\ h = pool[1] /\ Len(pool) \in Nat \ {0}
      /\ DOMAIN pool' = 1..(Len(pool) - 1) /\ DOMAIN pool = 1..Len(pool)
      /\ \A i \in 1..(Len(pool) - 1) : pool'[i] = pool[i + 1]
  BY <1>1, PoolTail DEF TypeOK
<1>3. overtakers' \in [Requests -> SUBSET Requests]
  BY <1>2 DEF Take, TypeOK
<1> HIDE DEF h
<1>4. h \in InPool /\ InPool' \subseteq InPool
  <2>1. 1 \in 1..Len(pool) /\ \A i \in 1..(Len(pool) - 1) : i + 1 \in 1..Len(pool)
    BY <1>2
  <2> QED
    BY <1>2, <2>1 DEF InPool
<1>5. InWork' \subseteq InWork \cup {h}
  BY <1>1 DEF InWork, TypeOK
<1>6. Len(pool') <= PoolSize
  BY <1>2, PoolSizeType DEF TypeOK
<1>7. TypeOK'
  <2>1. /\ worker' \in [Workers -> {"waiting", "busy", "exited"}]
        /\ job' \in [Workers -> Requests \cup {None}]
    BY <1>1, <1>2 DEF TypeOK
  <2> QED
    BY <1>1, <1>2, <1>3, <1>6, <2>1 DEF TypeOK, PoolSize
<1>8. HandState'
  BY <1>1, <1>2 DEF HandState, TypeOK
<1>9. NewIsNowhere'
  BY <1>1, <1>4, <1>5 DEF NewIsNowhere, Places
<1> QED
  BY <1>7, <1>8, <1>9

\* A worker is done with a request, or exits.
LEMMA WorkerTInv ==
  ASSUME TInv, NEW w \in Workers, Forward(w) \/ Exit(w)
  PROVE  TInv'
<1> USE DEF TInv
<1>1. /\ UNCHANGED <<submit, priority, pq, seen, raced, run, hand, pool,
                     closed, ctxDone, crashed, overtakers>>
      /\ \/ /\ worker[w] = "busy" /\ worker' = [worker EXCEPT ![w] = "waiting"]
            /\ job' = [job EXCEPT ![w] = None]
            /\ handled' = handled \cup {job[w]}
         \/ /\ worker[w] = "waiting" /\ worker' = [worker EXCEPT ![w] = "exited"]
            /\ UNCHANGED <<job, handled>>
  BY DEF Forward, Exit, AfterForward
<1>2. InPool' = InPool /\ PoolSize' = PoolSize
  BY <1>1 DEF InPool, PoolSize
<1>3. InWork' \subseteq InWork /\ handled' \subseteq handled \cup InWork
  BY <1>1 DEF InWork, TypeOK, HandState
<1>4. handled' \subseteq Requests
  BY <1>3 DEF InWork, TypeOK
<1>5. /\ worker' \in [Workers -> {"waiting", "busy", "exited"}]
      /\ job' \in [Workers -> Requests \cup {None}]
  BY <1>1 DEF TypeOK
<1>6. TypeOK'
  BY <1>1, <1>2, <1>4, <1>5 DEF TypeOK
<1>7. HandState'
  BY <1>1 DEF HandState, TypeOK
<1>8. NewIsNowhere'
  BY <1>1, <1>2, <1>3 DEF NewIsNowhere, Places
<1> QED
  BY <1>6, <1>7, <1>8

LEMMA StepTInv == TInv /\ [Next]_vars => TInv'
BY SubmitTInv, MeasureTInv, PopTInv, QuietTInv, SendTInv, TakeTInv, WorkerTInv
DEF Next, RunStep, WorkerStep

THEOREM TInvariance == Spec => []TInv
BY InitTInv, StepTInv, PTL DEF Spec

\* Every variable keeps its type, and the channel is never over its capacity,
\* though heap operations overlap.
THEOREM TypeCorrect == Spec => []TypeOK
BY TInvariance, PTL DEF TInv

-----------------------------------------------------------------------------
(* Run always finds a request to pop.                                      *)

\* A set of naturals has a least element.
LEMMA LeastNatural ==
  ASSUME NEW S, S \subseteq Nat, S # {}
  PROVE  \E m \in S : \A k \in S : m <= k
<1> DEFINE R == {ss \in Nat \X Nat : ss[1] < ss[2]}
<1>1. OpToRel(<, Nat) = R
  BY Zenon DEF OpToRel
<1>2. IsWellFoundedOn(R, Nat)
  BY NatLessThanWellFounded, <1>1, Zenon
<1>3. PICK m \in S : \A k \in S : ~(<<k, m>> \in R)
  <2> HIDE DEF R
  <2> QED
    BY <1>2, WFMin
<1>4. ASSUME NEW k \in S PROVE m <= k
  <2>1. k \in Nat /\ m \in Nat
    OBVIOUS
  <2>2. k < m => <<k, m>> \in R
    BY <2>1
  <2> QED
    BY <1>3, <2>1, <2>2
<1> QED
  BY <1>4

\* Requests with integer priorities: one of them has the highest.
LEMMA TopExists ==
  ASSUME NEW S \in SUBSET Requests, S # {},
         \A r \in S : priority[r] \in Int
  PROVE  Top(S) # {}
<1> DEFINE Counter(T) == T # {} /\ Top(T) = {}
           Sizes == {n \in Nat : \E T \in SUBSET S : Counter(T) /\ Cardinality(T) = n}
<1>1. \A T \in SUBSET S : IsFiniteSet(T) /\ Cardinality(T) \in Nat
  BY FS_Subset, FS_CardinalityType
<1> SUFFICES ASSUME Counter(S) PROVE FALSE
  OBVIOUS
<1>2. Sizes # {}
  BY <1>1
<1>3. PICK m \in Sizes : \A k \in Sizes : m <= k
  <2> HIDE DEF Sizes
  <2>1. Sizes \subseteq Nat
    BY DEF Sizes
  <2> QED
    BY <1>2, <2>1, LeastNatural
<1>4. PICK T \in SUBSET S : Counter(T) /\ Cardinality(T) = m
  OBVIOUS
<1>5. PICK x \in T : TRUE
  BY <1>4
<1>6. CASE T \ {x} = {}
  <2>1. x \in Top(T)
    BY <1>6 DEF Top
  <2> QED
    BY <1>4, <2>1
<1>7. CASE T \ {x} # {}
  <2>1. Cardinality(T \ {x}) = m - 1 /\ m - 1 \in Nat /\ m \in Nat
    <3> HIDE DEF Counter, Sizes
    <3>1. IsFiniteSet(T) /\ Cardinality(T) = m /\ m \in Nat
      BY <1>1, <1>4
    <3>2. Cardinality(T \ {x}) = m - 1
      BY <3>1, FS_RemoveElement
    <3>3. Cardinality(T \ {x}) \in Nat
      BY <1>1
    <3> QED
      BY <3>1, <3>2, <3>3
  <2>2. m - 1 \notin Sizes
    BY <1>3, <2>1
  <2>3. PICK y \in T \ {x} : y \in Top(T \ {x})
    BY <1>7, <2>1, <2>2 DEF Top
  <2>4. x \in Top(T) \/ y \in Top(T)
    <3>1. \A q \in T : priority[q] \in Int
      OBVIOUS
    <3> QED
      BY <2>3, <3>1 DEF Top
  <2> QED
    BY <1>4, <2>4
<1> QED
  BY <1>6, <1>7

\* Submitted requests have a priority, and Run pops from what is not empty.
PopInv ==
  /\ \A r \in Requests : submit[r] # "new" => priority[r] \in Priorities
  /\ run = "popping" => pq # {}

\* While Run pops, there is a request to pop.
PopFindsOne == run = "popping" => Candidates # {}

\* Each step of the scheduler keeps PopInv.
LEMMA StepPopInv == TInv /\ PopInv /\ [Next]_vars => PopInv'
<1> SUFFICES ASSUME TInv, PopInv, [Next]_vars PROVE PopInv'
  OBVIOUS
<1> USE DEF TInv
<1>1. ASSUME NEW r \in Requests, Submit(r) PROVE PopInv'
  <2>1. PICK p \in Priorities : priority' = [priority EXCEPT ![r] = p]
    BY <1>1 DEF Submit
  <2>2. /\ submit' = [submit EXCEPT ![r] = "pushing"] /\ run' = run
        /\ pq' = pq
    BY <1>1 DEF Submit
  <2> QED
    BY <2>1, <2>2 DEF PopInv, TypeOK
<1>2. ASSUME NEW r \in Requests, Pushed(r) PROVE PopInv'
  <2>1. ASSUME NEW S \in Grown(r) PROVE S # {}
    BY DEF Grown
  <2>2. /\ run' = run /\ priority' = priority /\ submit[r] = "pushing"
        /\ submit' = submit \/ submit' = [submit EXCEPT ![r] = "queued"]
        /\ pq' = pq \/ pq' \in Grown(r)
    BY <1>2 DEF Pushed, Corrupt
  <2> QED
    BY <2>1, <2>2 DEF PopInv, TypeOK
<1>3. CASE RunStep
  <2>1. /\ submit' = submit /\ priority' = priority
        /\ \/ run' # "popping"
           \/ run' = run /\ pq' = pq
           \/ pq' = pq /\ pq # {}
    BY <1>3 DEF RunStep, Poll, Measure, Cut, Popped, Corrupt, Send, Stop, IdleWait
  <2> QED
    BY <2>1 DEF PopInv
<1>4. ASSUME NEW w \in Workers, WorkerStep(w) PROVE PopInv'
  BY <1>4 DEF WorkerStep, Take, Forward, Exit, PopInv
<1>5. CASE Cancel \/ UNCHANGED vars
  BY <1>5 DEF Cancel, vars, PopInv
<1> QED
  BY <1>1, <1>2, <1>3, <1>4, <1>5 DEF Next

\* Run never stalls in the middle of a pop: the heap it found filled is filled
\* when PriorityQueue.Pop reads it again, whatever the pushes that overlap have
\* stored; and until an overlap it holds a request of the highest priority.
THEOREM PopNeverStalls == Spec => []PopFindsOne
<1>1. Init => PopInv
  BY DEF Init, PopInv
<1>2. TInv /\ PopInv => PopFindsOne
  <2> SUFFICES ASSUME TInv, PopInv, run = "popping"
               PROVE  Candidates # {}
    BY DEF PopFindsOne
  <2>1. pq \in SUBSET Requests /\ pq # {}
    BY DEF TInv, TypeOK, PopInv
  <2>2. \A r \in pq : submit[r] # "new"
    BY <2>1 DEF TInv, NewIsNowhere, Places
  <2>3. \A r \in pq : priority[r] \in Int
    BY <2>1, <2>2 DEF PopInv
  <2> QED
    BY <2>1, <2>3, TopExists DEF Candidates
<1> QED
  BY <1>1, <1>2, StepPopInv, TInvariance, PTL DEF Spec

-----------------------------------------------------------------------------
(* After cancel() the scheduler takes a bounded number of steps.           *)

\* What is left of Run's way to its return.
RunLeft ==
  CASE run = "stopped" -> 0
    [] run = "loop" -> 1
    [] run = "idle" -> 2
    [] run = "sending" -> 4
    [] run = "cutting" -> 5
    [] run = "popping" -> 6
    [] run = "polling" -> 7

New == {r \in Requests : submit[r] = "new"}
Unqueued == {r \in Requests : submit[r] # "queued"}
Unexited == {w \in Workers : worker[w] # "exited"}
Busy == {w \in Workers : worker[w] = "busy"}

\* How many more steps there can be: of Submit calls, of Run, and of workers
\* that take and forward what is in the channel.
StepsLeft ==
  Cardinality(New) + Cardinality(Unqueued) + RunLeft + 2 * Len(pool)
    + Cardinality(Unexited) + Cardinality(Busy)

\* The bound, whatever the scheduler was doing when cancel() was called.
MostSteps == 2 * Cardinality(Requests) + 7 + 4 * PoolSize

\* Each step after cancel() leaves fewer steps to take.
ShutdownProgress ==
  [][ctxDone => crashed' \/ (StepsLeft' < StepsLeft /\ StepsLeft <= MostSteps)]_vars

\* Counting: a set without one of its elements.
LEMMA OneLess ==
  ASSUME NEW S, IsFiniteSet(S), NEW x \in S
  PROVE  Cardinality(S \ {x}) = Cardinality(S) - 1
BY FS_RemoveElement

\* The parts of StepsLeft are numbers within their bounds.
LEMMA StepCounts ==
  ASSUME TypeOK
  PROVE  /\ IsFiniteSet(New) /\ IsFiniteSet(Unqueued)
         /\ IsFiniteSet(Unexited) /\ IsFiniteSet(Busy)
         /\ Cardinality(New) \in Nat /\ Cardinality(Unqueued) \in Nat
         /\ Cardinality(Unexited) \in Nat /\ Cardinality(Busy) \in Nat
         /\ RunLeft \in Nat /\ RunLeft <= 7 /\ Len(pool) \in Nat
         /\ StepsLeft \in Nat /\ StepsLeft <= MostSteps
<1>1. /\ New \subseteq Requests /\ Unqueued \subseteq Requests
      /\ Unexited \subseteq Workers /\ Busy \subseteq Workers
  BY DEF New, Unqueued, Unexited, Busy
<1>2. /\ IsFiniteSet(New) /\ Cardinality(New) <= Cardinality(Requests)
      /\ IsFiniteSet(Unqueued) /\ Cardinality(Unqueued) <= Cardinality(Requests)
      /\ IsFiniteSet(Unexited) /\ Cardinality(Unexited) <= PoolSize
      /\ IsFiniteSet(Busy) /\ Cardinality(Busy) <= PoolSize
  BY <1>1, FS_Subset DEF PoolSize
<1>3. /\ Cardinality(New) \in Nat /\ Cardinality(Unqueued) \in Nat
      /\ Cardinality(Unexited) \in Nat /\ Cardinality(Busy) \in Nat
      /\ Cardinality(Requests) \in Nat /\ PoolSize \in Nat
  BY <1>2, FS_CardinalityType, PoolSizeType
<1>4. RunLeft \in Nat /\ RunLeft <= 7
  BY DEF RunLeft, TypeOK
<1>5. Len(pool) \in Nat /\ Len(pool) <= PoolSize
  BY DEF TypeOK
<1>6. StepsLeft \in Nat /\ StepsLeft <= MostSteps
  <2>1. Cardinality(New) + Cardinality(Unqueued) <= 2 * Cardinality(Requests)
    BY <1>2, <1>3
  <2>2. 2 * Len(pool) + Cardinality(Unexited) + Cardinality(Busy) <= 4 * PoolSize
    BY <1>2, <1>3, <1>5
  <2>3. StepsLeft = (Cardinality(New) + Cardinality(Unqueued)) + RunLeft
               + (2 * Len(pool) + Cardinality(Unexited) + Cardinality(Busy))
    BY <1>3, <1>4, <1>5 DEF StepsLeft
  <2>4. StepsLeft \in Nat
    BY <1>3, <1>4, <1>5 DEF StepsLeft
  <2>5. \A a, b, c, d, e \in Nat :
          a <= 2 * d /\ b <= 7 /\ c <= 4 * e => (a + b) + c <= 2 * d + 7 + 4 * e
    OBVIOUS
  <2>6. /\ Cardinality(New) + Cardinality(Unqueued) \in Nat
        /\ 2 * Len(pool) + Cardinality(Unexited) + Cardinality(Busy) \in Nat
    BY <1>3, <1>5
  <2> QED
    BY <1>3, <1>4, <2>1, <2>2, <2>3, <2>4, <2>5, <2>6 DEF MostSteps
<1> QED
  BY <1>2, <1>3, <1>4, <1>5, <1>6

\* A Submit call's step.
LEMMA SubmitProgress ==
  ASSUME TypeOK, NEW r \in Requests, Submit(r) \/ (Pushed(r) /\ ~crashed')
  PROVE  StepsLeft' < StepsLeft
<1>1. UNCHANGED <<run, pool, worker>>
  BY DEF Submit, Pushed, Corrupt
<1>2. RunLeft' = RunLeft /\ Unexited' = Unexited /\ Busy' = Busy
  BY <1>1 DEF RunLeft, Unexited, Busy
<1>3. CASE Submit(r)
  <2>1. submit[r] = "new" /\ submit' = [submit EXCEPT ![r] = "pushing"]
    BY <1>3 DEF Submit
  <2>2. New' = New \ {r} /\ r \in New /\ Unqueued' = Unqueued
    BY <2>1 DEF New, Unqueued, TypeOK
  <2>3. Cardinality(New') = Cardinality(New) - 1
    BY <2>2, StepCounts, OneLess
  <2> QED
    BY <1>1, <1>2, <2>2, <2>3, StepCounts DEF StepsLeft
<1>4. CASE Pushed(r) /\ ~crashed'
  <2>1. submit[r] = "pushing" /\ submit' = [submit EXCEPT ![r] = "queued"]
    BY <1>4 DEF Pushed, Corrupt
  <2>2. Unqueued' = Unqueued \ {r} /\ r \in Unqueued /\ New' = New
    BY <2>1 DEF New, Unqueued, TypeOK
  <2>3. Cardinality(Unqueued') = Cardinality(Unqueued) - 1
    BY <2>2, StepCounts, OneLess
  <2> QED
    BY <1>1, <1>2, <2>2, <2>3, StepCounts DEF StepsLeft
<1> QED
  BY <1>3, <1>4

\* A step of Run: it does not poll again, nor begin a second pop.
LEMMA RunProgress ==
  ASSUME TypeOK, HandState, ctxDone, RunStep, ~crashed'
  PROVE  StepsLeft' < StepsLeft
<1>1. UNCHANGED <<submit, worker>>
  BY DEF RunStep, Poll, Measure, Cut, Popped, Corrupt, Send, Stop, IdleWait
<1>2. New' = New /\ Unqueued' = Unqueued /\ Unexited' = Unexited /\ Busy' = Busy
  BY <1>1 DEF New, Unqueued, Unexited, Busy
<1>3. CASE Send /\ ~Stop
  <2>1. run = "sending" /\ run' = "loop" /\ pool' = Append(pool, hand)
    BY <1>3 DEF Send
  <2>2. Len(pool') = Len(pool) + 1
    BY <2>1, PoolAppend DEF TypeOK, HandState
  <2>3. RunLeft = 4 /\ RunLeft' = 1
    BY <2>1 DEF RunLeft
  <2> QED
    BY <1>2, <2>2, <2>3, StepCounts DEF StepsLeft
<1>4. CASE ~(Send /\ ~Stop)
  <2>1. /\ pool' = pool
        /\ \/ run \in {"loop", "idle", "sending"} /\ run' = "stopped"
           \/ run = "idle" /\ run' = "loop"
           \/ run = "polling" /\ run' \in {"idle", "popping"}
           \/ run = "popping" /\ run' = "cutting"
           \/ run = "cutting" /\ run' = "sending"
    BY <1>4 DEF RunStep, Poll, Measure, Cut, Popped, Corrupt, Send, Stop, IdleWait
  <2>2. RunLeft' < RunLeft /\ RunLeft' \in Nat
    BY <2>1 DEF RunLeft
  <2> QED
    BY <1>2, <2>1, <2>2, StepCounts DEF StepsLeft
<1> QED
  BY <1>3, <1>4

\* A worker's step.
LEMMA WorkerProgress ==
  ASSUME TypeOK, NEW w \in Workers, WorkerStep(w)
  PROVE  StepsLeft' < StepsLeft
<1>1. UNCHANGED <<submit, run>>
  BY DEF WorkerStep, Take, Forward, Exit
<1>2. New' = New /\ Unqueued' = Unqueued /\ RunLeft' = RunLeft
  BY <1>1 DEF New, Unqueued, RunLeft
<1>3. CASE Take(w)
  <2>1. /\ worker[w] = "waiting" /\ worker' = [worker EXCEPT ![w] = "busy"]
        /\ Len(pool') = Len(pool) - 1
    BY <1>3, PoolTail DEF Take, TypeOK
  <2>2. Unexited' = Unexited /\ Busy' = Busy \cup {w} /\ w \notin Busy
    BY <2>1 DEF Unexited, Busy, TypeOK
  <2>3. Cardinality(Busy') = Cardinality(Busy) + 1
    BY <2>2, StepCounts, FS_AddElement
  <2> QED
    BY <1>2, <2>1, <2>2, <2>3, StepCounts DEF StepsLeft
<1>4. CASE Forward(w)
  <2>1. /\ worker[w] = "busy" /\ worker' = [worker EXCEPT ![w] = "waiting"]
        /\ pool' = pool
    BY <1>4 DEF Forward, AfterForward
  <2>2. Unexited' = Unexited /\ Busy' = Busy \ {w} /\ w \in Busy
    BY <2>1 DEF Unexited, Busy, TypeOK
  <2>3. Cardinality(Busy') = Cardinality(Busy) - 1
    BY <2>2, StepCounts, OneLess
  <2> QED
    BY <1>2, <2>1, <2>2, <2>3, StepCounts DEF StepsLeft
<1>5. CASE Exit(w)
  <2>1. /\ worker[w] = "waiting" /\ worker' = [worker EXCEPT ![w] = "exited"]
        /\ pool' = pool
    BY <1>5 DEF Exit
  <2>2. Busy' = Busy /\ Unexited' = Unexited \ {w} /\ w \in Unexited
    BY <2>1 DEF Unexited, Busy, TypeOK
  <2>3. Cardinality(Unexited') = Cardinality(Unexited) - 1
    BY <2>2, StepCounts, OneLess
  <2> QED
    BY <1>2, <2>1, <2>2, <2>3, StepCounts DEF StepsLeft
<1> QED
  BY <1>3, <1>4, <1>5 DEF WorkerStep

\* After cancel() the scheduler takes at most MostSteps steps before it crashes
\* or stops for good, whatever each goroutine was waiting for.
THEOREM ShutdownEnds == Spec => ShutdownProgress
<1>1. ASSUME TInv, [Next]_vars, vars' # vars, ctxDone, ~crashed'
      PROVE  StepsLeft' < StepsLeft /\ StepsLeft <= MostSteps
  <2>1. StepsLeft' < StepsLeft
    BY <1>1, SubmitProgress, RunProgress, WorkerProgress DEF Next, Cancel, TInv
  <2> QED
    BY <1>1, <2>1, StepCounts DEF TInv
<1>2. TInv /\ [Next]_vars
        => [ctxDone => crashed' \/ (StepsLeft' < StepsLeft
                                    /\ StepsLeft <= MostSteps)]_vars
  BY <1>1
<1> QED
  BY <1>2, TInvariance, PTL DEF Spec, ShutdownProgress

-----------------------------------------------------------------------------
(* The confinement of overlaps.                                            *)

\* Run is one of the operations in progress exactly while it pops.
LEMMA ActiveRun == (Run \in Active <=> Popping) /\ Active \cap Requests = Pushing
BY DEF Active, Pushing

\* An operation starts.
LEMMA ConfinedStart ==
  ASSUME TypeOK, Confined, NEW x \in Requests \cup {Run},
         x \notin Active, x \notin raced, Active' = Active \cup {x},
         seen' = [seen EXCEPT ![x] = pq], raced' = raced \cup AtRisk(x),
         run' = "cutting" => run = "cutting",
         UNCHANGED <<pq, hand, crashed>>
  PROVE  Confined'
<1>1. Active \subseteq Requests \cup {Run}
  BY DEF Active, Pushing
<1>2. Run \in Active' <=> Popping'
  BY DEF Active, Pushing
<1>3. seen'[x] = pq /\ \A y \in Active : seen'[y] = seen[y]
  BY <1>1 DEF TypeOK
<1>4. CASE Active = {}
  <2>1. raced' = raced /\ Active' = {x}
    BY <1>4, RiskIsKnown
  <2>2. run' # "cutting" /\ Run \notin raced
    BY <1>4, ActiveRun DEF Popping, Confined
  <2> QED
    BY <1>3, <2>1, <2>2 DEF Confined
<1>5. CASE Active # {}
  <2>1. raced' = raced \cup ({x} \cup Active \cup pq
                              \cup UNION {seen[y] : y \in Active})
    BY <1>5, RiskIsKnown
  <2>2. Active' \subseteq raced' /\ pq' \subseteq raced'
    BY <2>1
  <2>3. UNION {seen'[y] : y \in Active'} \subseteq raced'
    <3> SUFFICES ASSUME NEW y \in Active' PROVE seen'[y] \subseteq raced'
      OBVIOUS
    <3>1. CASE y = x
      BY <1>3, <2>1, <3>1
    <3>2. CASE y # x
      <4>1. y \in Active
        BY <3>2
      <4> QED
        BY <1>3, <2>1, <4>1
    <3> QED
      BY <3>1, <3>2
  <2>4. run' = "cutting" => Run \in raced' /\ hand' \in raced'
    BY <2>1, ActiveRun DEF Confined, Popping
  <2>5. Run \in raced' => Popping'
    <3>1. Run \in raced => Run \in Active
      BY ActiveRun DEF Confined
    <3>2. Run \in AtRisk(x) => Run \in Active \cup {x}
      <4>1. Run \notin pq /\ Run \notin UNION {seen[y] : y \in Active}
        BY <1>1 DEF TypeOK
      <4> QED
        BY <4>1, RiskIsKnown
    <3> QED
      BY <1>2, <3>1, <3>2
  <2>6. raced' \cap Requests # {}
    BY <1>1, <1>5, <2>1
  <2> QED
    BY <2>1, <2>2, <2>3, <2>4, <2>5, <2>6 DEF Confined
<1> QED
  BY <1>4, <1>5

\* Nothing that concerns heap operations changes.
LEMMA ConfinedStands ==
  ASSUME Confined, UNCHANGED <<submit, pq, seen, raced, crashed>>,
         UNCHANGED <<run, hand>> \/ ~(Popping \/ Popping')
  PROVE  Confined'
<1>1. Active' = Active
  BY DEF Active, Pushing, Popping
<1> QED
  BY <1>1 DEF Confined, Popping

-----------------------------------------------------------------------------
(* What is not at risk is kept, once.                                      *)

LEMMA InitIInv == Init => IInv
<1> SUFFICES ASSUME Init PROVE IInv
  OBVIOUS
<1>1. InPool = {} /\ InWork = {} /\ Active = {}
  BY DEF Init, InPool, InWork, Active, Pushing, Popping
<1>2. Confined
  BY <1>1 DEF Init, Confined
<1>3. NotYetQueued /\ QueuedIsKept /\ AtMostOnce
  BY <1>1 DEF Init, NotYetQueued, Places, QueuedIsKept, AtMostOnce, InHand
<1> QED
  BY <1>2, <1>3, InitTInv DEF IInv

\* A Submit call starts.
LEMMA SubmitStep ==
  ASSUME IInv, TInv', NEW r \in Requests, Submit(r)
  PROVE  IInv'
<1> USE DEF IInv, TInv
<1>1. /\ submit[r] = "new" /\ submit' = [submit EXCEPT ![r] = "pushing"]
      /\ seen' = [seen EXCEPT ![r] = pq] /\ raced' = raced \cup AtRisk(r)
      /\ UNCHANGED <<pq, run, hand, pool, closed, worker, job, handled, ctxDone,
                     crashed, overtakers>>
  BY DEF Submit
<1>2. /\ InPool' = InPool /\ InWork' = InWork /\ InHand' = InHand
      /\ Places' = Places
  BY <1>1 DEF InPool, InWork, InHand, Places
<1>3. Pushing' = Pushing \cup {r} /\ Active' = Active \cup {r} /\ r \notin Active
  BY <1>1 DEF Pushing, Active, Popping, TypeOK
<1>4. Confined'
  BY <1>1, <1>3, ConfinedStart DEF NewIsNowhere
<1>5. Requests \ raced' \subseteq Requests \ raced
  BY <1>1
<1>6. AtMostOnce'
  BY <1>1, <1>2, <1>5 DEF AtMostOnce
<1>7. NotYetQueued' /\ QueuedIsKept'
  BY <1>1, <1>2, <1>5 DEF NotYetQueued, QueuedIsKept, TypeOK
<1> QED
  BY <1>4, <1>6, <1>7

\* A Submit call ends: as far as requests not at risk are concerned, the heap
\* gains the request or nothing.
LEMMA PushedStep ==
  ASSUME IInv, TInv', NEW r \in Requests, Pushed(r), ~Corrupt
  PROVE  IInv'
<1> USE DEF IInv, TInv
<1>1. /\ submit[r] = "pushing" /\ pq' \in Grown(r)
      /\ submit' = [submit EXCEPT ![r] = "queued"]
      /\ seen' = [seen EXCEPT ![r] = {}]
      /\ UNCHANGED <<priority, raced, run, hand, pool, closed, worker, job,
                     handled, ctxDone, crashed, overtakers>>
  BY DEF Pushed
<1>2. InPool' = InPool /\ InWork' = InWork /\ InHand' = InHand
  BY <1>1 DEF InPool, InWork, InHand
<1>3. /\ r \in Active /\ Pushing' = Pushing \ {r} /\ Active' = Active \ {r}
      /\ Popping' = Popping
  BY <1>1 DEF Pushing, Active, Popping, TypeOK
<1>4. \A y \in Active' : seen'[y] = seen[y]
  BY <1>1, <1>3 DEF TypeOK, Active, Pushing
<1>5. CASE r \in raced
  <2>1. Active \cup pq \cup UNION {seen[y] : y \in Active} \subseteq raced
    BY <1>3, <1>5 DEF Confined
  <2>2. pq' \subseteq seen[r] \cup pq \cup {r}
    BY <1>1, <1>5 DEF Grown
  <2>3. pq' \subseteq raced
    BY <1>3, <1>5, <2>1, <2>2
  <2>4. UNION {seen'[y] : y \in Active'} \subseteq raced
    BY <1>3, <1>4, <2>1
  <2>5. Active' \subseteq raced /\ (run = "cutting" => Run \in raced)
    BY <1>3, <2>1, ActiveRun DEF Popping
  <2>6. Confined'
    BY <1>1, <1>3, <2>3, <2>4, <2>5 DEF Confined
  <2>7. \A x \in Requests \ raced :
          x # r /\ x \notin pq /\ x \notin pq' /\ (x \in Places' <=> x \in Places)
    BY <1>1, <1>2, <1>5, <2>1, <2>3 DEF Places
  <2>8. AtMostOnce'
    BY <1>1, <1>2, <2>7 DEF AtMostOnce
  <2>9. NotYetQueued' /\ QueuedIsKept'
    BY <1>1, <2>7 DEF NotYetQueued, QueuedIsKept, TypeOK
  <2> QED
    BY <2>6, <2>8, <2>9
<1>6. CASE r \notin raced
  <2>1. Active = {r} /\ pq' = pq \cup {r} /\ Active' = {}
    BY <1>1, <1>3, <1>6 DEF Confined, Grown
  <2>2. ~Popping /\ run # "cutting"
    BY <2>1, ActiveRun DEF Popping
  <2>3. Confined'
    BY <1>1, <2>1, <2>2 DEF Confined
  <2>4. r \notin pq \cup {hand} \cup InPool \cup InWork \cup handled
    BY <1>1, <1>6 DEF NotYetQueued, Places
  <2>5. r \notin InHand
    BY <2>4 DEF InHand
  <2>6. AtMostOnce'
    BY <1>1, <1>2, <2>1, <2>4, <2>5 DEF AtMostOnce
  <2>7. NotYetQueued' /\ QueuedIsKept'
    BY <1>1, <1>2, <2>1 DEF NotYetQueued, Places, QueuedIsKept, TypeOK
  <2> QED
    BY <2>3, <2>6, <2>7
<1> QED
  BY <1>5, <1>6

\* A comparison panics: nothing moves any more.
LEMMA CorruptStep ==
  ASSUME IInv, TInv', Corrupt
  PROVE  IInv'
<1> USE DEF IInv, TInv
<1>1. /\ raced # {}
      /\ UNCHANGED <<submit, pq, seen, raced, run, hand, pool, job, handled>>
  BY DEF Corrupt
<1>2. /\ InPool' = InPool /\ InWork' = InWork /\ InHand' = InHand
      /\ Active' = Active /\ Popping' = Popping /\ Places' = Places
  BY <1>1 DEF InPool, InWork, InHand, Active, Pushing, Popping, Places
<1>3. Confined'
  BY <1>1, <1>2 DEF Confined
<1> QED
  BY <1>1, <1>2, <1>3 DEF AtMostOnce, NotYetQueued, QueuedIsKept

\* Run passes its select or idles, or stops; a request in its hands stays there.
LEMMA QuietSteps ==
  ASSUME IInv, TInv', Poll \/ IdleWait \/ (Send /\ Stop) \/ Cancel \/ UNCHANGED vars
  PROVE  IInv'
<1> USE DEF IInv, TInv
<1>1. UNCHANGED <<submit, priority, pq, seen, raced, hand, pool, worker, job,
                  handled, crashed, overtakers>>
  BY DEF Poll, IdleWait, Send, Stop, Cancel, vars
<1>2. run' = run \/ ~(Popping \/ Popping')
  BY DEF Poll, IdleWait, Send, Stop, Cancel, vars, Popping
<1>3. Confined'
  BY <1>1, <1>2, ConfinedStands
<1>4. /\ InPool' = InPool /\ InWork' = InWork /\ InHand' = InHand
      /\ Places' = Places
  BY <1>1, <1>2 DEF InPool, InWork, InHand, Places, Popping
<1>5. AtMostOnce' /\ NotYetQueued' /\ QueuedIsKept'
  BY <1>1, <1>4 DEF AtMostOnce, NotYetQueued, QueuedIsKept
<1> QED
  BY <1>3, <1>5

\* Run finds the heap empty, or starts to pop.
LEMMA MeasureStep ==
  ASSUME IInv, TInv', Measure
  PROVE  IInv'
<1> USE DEF IInv, TInv
<1>1. /\ run = "polling" /\ run' \in {"idle", "popping"} /\ ~Popping
      /\ UNCHANGED <<submit, priority, pq, hand, pool, closed, worker, job,
                     handled, ctxDone, crashed, overtakers>>
  BY DEF Measure, Popping
<1>2. /\ InPool' = InPool /\ InWork' = InWork /\ InHand' = InHand
      /\ Places' = Places
  BY <1>1 DEF InPool, InWork, InHand, Places
<1>3. raced \subseteq raced'
  BY DEF Measure
<1>4. Confined'
  <2>1. CASE run' = "idle"
    <3>1. UNCHANGED <<seen, raced>> /\ ~Popping'
      BY <2>1 DEF Measure, Popping
    <3> QED
      BY <1>1, <3>1, ConfinedStands
  <2>2. CASE run' = "popping"
    <3>1. /\ seen' = [seen EXCEPT ![Run] = pq] /\ raced' = raced \cup AtRisk(Run)
          /\ Popping'
      BY <2>2 DEF Measure, Popping
    <3>2. Active' = Active \cup {Run} /\ Run \notin Active
      BY <1>1, <3>1 DEF Active, Pushing
    <3>3. Run \notin raced
      BY <1>1 DEF Confined
    <3> QED
      BY <1>1, <2>2, <3>1, <3>2, <3>3, ConfinedStart
  <2> QED
    BY <1>1, <2>1, <2>2
<1>5. AtMostOnce' /\ NotYetQueued' /\ QueuedIsKept'
  BY <1>1, <1>2, <1>3 DEF AtMostOnce, NotYetQueued, QueuedIsKept
<1> QED
  BY <1>4, <1>5

\* PriorityQueue.Pop takes a request, which is still in the heap.
LEMMA CutStep ==
  ASSUME IInv, TInv', Cut, ~Corrupt
  PROVE  IInv'
<1> USE DEF IInv, TInv
<1>1. /\ run = "popping" /\ run' = "cutting" /\ hand' \in pq /\ hand = None
      /\ seen' = [seen EXCEPT ![Run] = pq]
      /\ UNCHANGED <<submit, priority, pq, raced, pool, closed, worker, job,
                     handled, ctxDone, crashed, overtakers>>
  BY DEF Cut, Candidates, Top, HandState
<1>2. InPool' = InPool /\ InWork' = InWork /\ InHand' = {} /\ InHand = {}
  BY <1>1 DEF InPool, InWork, InHand
<1>3. \A x \in Requests : x \in Places' <=> x \in Places
  BY <1>1, <1>2 DEF Places
<1>4. Active' = Active /\ Run \in Active /\ Popping'
  BY <1>1 DEF Active, Pushing, Popping
<1>5. seen'[Run] = pq /\ \A y \in Active \ {Run} : seen'[y] = seen[y]
  BY <1>1 DEF TypeOK, Active, Pushing
<1>6. Confined'
  <2>1. CASE Run \in raced
    <3>1. Active \cup pq \cup UNION {seen[y] : y \in Active} \subseteq raced
      BY <1>4, <2>1 DEF Confined
    <3>2. UNION {seen'[y] : y \in Active} \subseteq raced
      BY <1>5, <3>1
    <3> QED
      BY <1>1, <1>4, <2>1, <3>1, <3>2 DEF Confined
  <2>2. CASE Run \notin raced
    <3>1. Active = {Run}
      BY <1>4, <2>2 DEF Confined
    <3> QED
      BY <1>1, <1>4, <1>5, <2>2, <3>1 DEF Confined
  <2> QED
    BY <2>1, <2>2
<1>7. AtMostOnce' /\ NotYetQueued' /\ QueuedIsKept'
  BY <1>1, <1>2, <1>3 DEF AtMostOnce, NotYetQueued, QueuedIsKept
<1> QED
  BY <1>6, <1>7

\* PriorityQueue.Pop stores the heap: as far as requests not at risk are
\* concerned, without the one it took.
LEMMA PoppedStep ==
  ASSUME IInv, TInv', Popped, ~Corrupt
  PROVE  IInv'
<1> USE DEF IInv, TInv
<1>1. /\ run = "cutting" /\ run' = "sending" /\ hand' = hand /\ hand \in Requests
      /\ seen' = [seen EXCEPT ![Run] = {}] /\ raced' = raced \ {Run}
      /\ pq' \in Shrunk
      /\ UNCHANGED <<submit, priority, pool, closed, worker, job, handled,
                     ctxDone, crashed, overtakers>>
  BY DEF Popped, HandState, TypeOK
<1>2. InPool' = InPool /\ InWork' = InWork /\ InHand = {} /\ InHand' = {hand}
  BY <1>1 DEF InPool, InWork, InHand
<1>3. Active' = Active \ {Run} /\ Run \in Active /\ ~Popping'
  BY <1>1 DEF Active, Pushing, Popping
<1>4. \A y \in Active' : seen'[y] = seen[y]
  BY <1>1, <1>3 DEF TypeOK, Active, Pushing
<1>5. Requests \ raced' = Requests \ raced
  BY <1>1
<1>6. CASE Run \in raced
  <2>1. Active \cup pq \cup UNION {seen[y] : y \in Active} \subseteq raced
    BY <1>3, <1>6 DEF Confined
  <2>2. pq' \subseteq seen[Run] \cup pq
    BY <1>1, <1>6 DEF Shrunk
  <2>3. pq' \subseteq raced /\ pq' \subseteq Requests
    BY <1>3, <2>1, <2>2 DEF TypeOK
  <2>4. UNION {seen'[y] : y \in Active'} \subseteq raced'
    <3> SUFFICES ASSUME NEW y \in Active' PROVE seen'[y] \subseteq raced'
      OBVIOUS
    <3>1. seen'[y] \subseteq raced /\ y \in Requests
      BY <1>3, <1>4, <2>1 DEF Active, Pushing
    <3>2. Run \notin seen'[y]
      BY <1>4, <3>1 DEF TypeOK
    <3> QED
      BY <1>1, <3>1, <3>2
  <2>5. raced' # {}
    BY <1>1, <1>6 DEF Confined
  <2>6. Active' \subseteq raced' /\ pq' \subseteq raced'
    BY <1>1, <1>3, <2>1, <2>3
  <2>7. Confined'
    BY <1>1, <2>4, <2>5, <2>6 DEF Confined
  <2>8. hand \in raced
    BY <1>1, <1>6 DEF Confined
  <2>9. \A x \in Requests \ raced :
          x # hand /\ x \notin pq /\ x \notin pq' /\ (x \in Places' <=> x \in Places)
    BY <1>1, <1>2, <2>1, <2>3, <2>8 DEF Places
  <2>10. AtMostOnce'
    BY <1>1, <1>2, <1>5, <2>9 DEF AtMostOnce
  <2>11. NotYetQueued' /\ QueuedIsKept'
    BY <1>1, <1>5, <2>9 DEF NotYetQueued, QueuedIsKept
  <2> QED
    BY <2>7, <2>10, <2>11
<1>7. CASE Run \notin raced
  <2>1. Active = {Run} /\ Active' = {} /\ raced' = raced /\ hand \in pq
    BY <1>1, <1>3, <1>7 DEF Confined
  <2>2. pq' = pq \ {hand} \/ (hand \in raced /\ pq' = pq)
    BY <1>1, <1>7 DEF Shrunk, Without
  <2>3. Confined'
    BY <1>1, <2>1 DEF Confined
  <2>4. \A x \in Requests \ raced :
          /\ x \in pq' <=> x \in pq /\ x # hand
          /\ x \in Places' <=> x \in Places
    BY <1>1, <1>2, <2>2 DEF Places
  <2>5. AtMostOnce'
    BY <1>1, <1>2, <1>5, <2>1, <2>4 DEF AtMostOnce
  <2>6. NotYetQueued' /\ QueuedIsKept'
    BY <1>1, <1>5, <2>4 DEF NotYetQueued, QueuedIsKept
  <2> QED
    BY <2>3, <2>5, <2>6
<1> QED
  BY <1>6, <1>7

\* Run sends: the request moves from its hands to the end of the channel.
LEMMA SendStep ==
  ASSUME IInv, TInv', Send, ~Stop
  PROVE  IInv'
<1> USE DEF IInv, TInv
<1>1. /\ run = "sending" /\ run' = "loop" /\ Len(pool) < PoolSize
      /\ pool' = Append(pool, hand) /\ hand' = None
      /\ UNCHANGED <<submit, priority, pq, seen, raced, closed, worker, job,
                     handled, ctxDone, crashed, overtakers>>
  BY DEF Send, HasRoom
<1>2. hand \in Requests /\ pool \in Seq(Requests) /\ Len(pool) \in Nat
  BY <1>1 DEF HandState, TypeOK
<1>3. InPool' = InPool \cup {hand}
  BY <1>1, <1>2, PoolAppend DEF InPool
<1>4. InWork' = InWork /\ InHand = {hand} /\ InHand' = {}
  BY <1>1, <1>2 DEF InWork, InHand
<1>5. Confined'
  BY <1>1, ConfinedStands DEF Popping
<1>6. AtMostOnce'
  <2> SUFFICES ASSUME NEW x \in Requests \ raced
               PROVE  /\ \A i, j \in DOMAIN pool' : pool'[i] = x /\ pool'[j] = x
                                                      => i = j
                      /\ \A v, w \in Workers : job[v] = x /\ job[w] = x => v = w
                      /\ x \in pq => x \notin InPool' \cup InWork \cup handled
                      /\ x \in InPool' => x \notin InWork \cup handled
                      /\ x \in InWork => x \notin handled
    BY <1>1, <1>4 DEF AtMostOnce
  <2>1. ASSUME NEW i \in DOMAIN pool', NEW j \in DOMAIN pool',
               pool'[i] = x, pool'[j] = x
        PROVE  i = j
    <3>1. /\ DOMAIN pool' = 1..(Len(pool) + 1) /\ pool'[Len(pool) + 1] = hand
          /\ \A k \in 1..Len(pool) : pool'[k] = pool[k]
      BY <1>1, <1>2
    <3>2. x = hand => \A k \in 1..Len(pool) : pool[k] # hand
      BY <1>2, <1>4 DEF AtMostOnce, InPool
    <3>3. \A k, l \in 1..Len(pool) : pool[k] = x /\ pool[l] = x => k = l
      BY <1>2 DEF AtMostOnce
    <3> QED
      BY <1>2, <2>1, <3>1, <3>2, <3>3
  <2>2. x = hand => x \notin pq \cup InPool \cup InWork \cup handled
    BY <1>4 DEF AtMostOnce
  <2> QED
    BY <1>3, <2>1, <2>2 DEF AtMostOnce
<1>7. NotYetQueued' /\ QueuedIsKept'
  BY <1>1, <1>3, <1>4 DEF NotYetQueued, Places, QueuedIsKept
<1> QED
  BY <1>5, <1>6, <1>7

\* A worker receives: the request moves from the head of the channel to it.
LEMMA TakeStep ==
  ASSUME IInv, TInv', NEW w \in Workers, Take(w)
  PROVE  IInv'
<1> USE DEF IInv, TInv
<1> DEFINE h == Head(pool)
<1>1. /\ worker[w] = "waiting" /\ worker' = [worker EXCEPT ![w] = "busy"]
      /\ pool # <<>> /\ pool' = Tail(pool) /\ job' = [job EXCEPT ![w] = h]
      /\ UNCHANGED <<submit, priority, pq, seen, raced, run, hand, closed,
                     handled, ctxDone, crashed>>
  BY DEF Take
<1>2. /\ pool' \in Seq(Requests) /\ Len(pool') = Len(pool) - 1
      /\ h \in Requests /\ h = pool[1] /\ Len(pool) \in Nat \ {0}
      /\ DOMAIN pool' = 1..(Len(pool) - 1) /\ DOMAIN pool = 1..Len(pool)
      /\ \A i \in 1..(Len(pool) - 1) : pool'[i] = pool[i + 1]
  BY <1>1, PoolTail DEF TypeOK
<1> HIDE DEF h
<1>3. job[w] = None /\ InHand' = InHand
  BY <1>1 DEF HandState, InHand
<1>4. InWork' = InWork \cup {h}
  <2>1. h # None
    BY <1>2
  <2> QED
    BY <1>1, <1>3, <2>1 DEF InWork, TypeOK
<1>5. /\ h \in InPool /\ InPool = InPool' \cup {h}
      /\ h \notin raced => h \notin InPool'
  <2>1. \A i \in 1..Len(pool) : i = 1 \/ (i - 1) \in 1..(Len(pool) - 1)
    BY <1>2
  <2>2. \A i \in 1..(Len(pool) - 1) : i + 1 \in 1..Len(pool) /\ i + 1 # 1
    BY <1>2
  <2>3. h \notin raced => \A i \in 1..Len(pool) : pool[i] = h => i = 1
    BY <1>2 DEF AtMostOnce
  <2>4. 1 \in 1..Len(pool)
    BY <1>2
  <2>5. ASSUME NEW q \in InPool, q # h PROVE q \in InPool'
    <3>1. PICK i \in 1..Len(pool) : q = pool[i]
      BY <1>2, <2>5 DEF InPool
    <3>2. (i - 1) \in 1..(Len(pool) - 1) /\ pool'[i - 1] = pool[(i - 1) + 1]
      BY <1>2, <2>1, <2>5, <3>1
    <3>3. pool[(i - 1) + 1] = pool[i]
      BY <1>2
    <3> QED
      BY <1>2, <3>1, <3>2, <3>3 DEF InPool
  <2>6. ASSUME NEW q \in InPool' PROVE q \in InPool /\ (h \notin raced => q # h)
    <3>1. PICK i \in 1..(Len(pool) - 1) : q = pool'[i]
      BY <1>2, <2>6 DEF InPool
    <3> QED
      BY <1>2, <2>2, <2>3, <3>1 DEF InPool
  <2> QED
    BY <1>2, <2>4, <2>5, <2>6 DEF InPool
<1>6. Confined'
  BY <1>1, ConfinedStands
<1>7. AtMostOnce'
  <2> SUFFICES ASSUME NEW x \in Requests \ raced
               PROVE  /\ \A i, j \in DOMAIN pool' : pool'[i] = x /\ pool'[j] = x
                                                      => i = j
                      /\ \A u, v \in Workers : job'[u] = x /\ job'[v] = x => u = v
                      /\ x \in pq => x \notin InHand \cup InPool' \cup InWork'
                                              \cup handled
                      /\ x \in InHand => x \notin InPool' \cup InWork' \cup handled
                      /\ x \in InPool' => x \notin InWork' \cup handled
                      /\ x \in InWork' => x \notin handled
    BY <1>1, <1>3 DEF AtMostOnce
  <2>1. \A i, j \in DOMAIN pool' : pool'[i] = x /\ pool'[j] = x => i = j
    <3>1. \A i \in 1..(Len(pool) - 1) : i + 1 \in 1..Len(pool)
      BY <1>2
    <3>2. \A i, j \in 1..(Len(pool) - 1) : i + 1 = j + 1 => i = j
      BY <1>2
    <3> QED
      BY <1>2, <3>1, <3>2 DEF AtMostOnce
  <2>2. x = h => \A v \in Workers : job[v] # h
    BY <1>2, <1>5 DEF AtMostOnce, InWork
  <2>3. \A u, v \in Workers : job'[u] = x /\ job'[v] = x => u = v
    BY <1>1, <2>2 DEF AtMostOnce, TypeOK
  <2> QED
    BY <1>4, <1>5, <2>1, <2>3 DEF AtMostOnce
<1>8. NotYetQueued' /\ QueuedIsKept'
  BY <1>1, <1>4, <1>5 DEF NotYetQueued, Places, QueuedIsKept
<1> QED
  BY <1>6, <1>7, <1>8

\* A worker finishes or exits.
LEMMA WorkerDoneStep ==
  ASSUME IInv, TInv', NEW w \in Workers, Forward(w) \/ Exit(w)
  PROVE  IInv'
<1> USE DEF IInv, TInv
<1>1. /\ UNCHANGED <<submit, priority, pq, seen, raced, run, hand, pool, closed,
                     ctxDone, crashed, overtakers>>
      /\ \/ /\ worker[w] = "busy" /\ worker' = [worker EXCEPT ![w] = "waiting"]
            /\ job' = [job EXCEPT ![w] = None]
            /\ handled' = handled \cup {job[w]}
         \/ job' = job /\ handled' = handled
  BY DEF Forward, Exit, AfterForward
<1>2. InPool' = InPool /\ InHand' = InHand
  BY <1>1 DEF InPool, InHand
<1>3. Confined'
  BY <1>1, ConfinedStands
<1>4. CASE handled' = handled \cup {job[w]} /\ worker[w] = "busy"
            /\ job' = [job EXCEPT ![w] = None]
  <2>1. job[w] \in InWork /\ job[w] \in Requests /\ job[w] # None
    BY <1>4 DEF HandState, InWork, TypeOK
  <2>2. InWork = InWork' \cup {job[w]}
    BY <1>4, <2>1 DEF InWork, TypeOK
  <2>3. job[w] \notin raced => job[w] \notin InWork'
    BY <1>4, <2>1 DEF AtMostOnce, InWork, TypeOK
  <2>4. \A x \in Requests \ raced : \A u, v \in Workers :
          job'[u] = x /\ job'[v] = x => u = v
    BY <1>4 DEF AtMostOnce, TypeOK
  <2>5. AtMostOnce'
    BY <1>1, <1>2, <1>4, <2>1, <2>2, <2>3, <2>4 DEF AtMostOnce
  <2>6. NotYetQueued' /\ QueuedIsKept'
    BY <1>1, <1>2, <1>4, <2>1, <2>2 DEF NotYetQueued, Places, QueuedIsKept
  <2> QED
    BY <1>3, <2>5, <2>6
<1>5. CASE job' = job /\ handled' = handled
  <2>1. InWork' = InWork
    BY <1>5 DEF InWork
  <2>2. AtMostOnce' /\ NotYetQueued' /\ QueuedIsKept'
    BY <1>1, <1>2, <1>5, <2>1 DEF AtMostOnce, NotYetQueued, Places, QueuedIsKept
  <2> QED
    BY <1>3, <2>2
<1> QED
  BY <1>1, <1>4, <1>5

LEMMA StepIInv == IInv /\ [Next]_vars => IInv'
<1> SUFFICES ASSUME IInv, [Next]_vars PROVE IInv'
  OBVIOUS
<1>1. TInv'
  BY StepTInv DEF IInv
<1>2. ASSUME NEW r \in Requests, Submit(r) \/ Pushed(r) PROVE IInv'
  BY <1>1, <1>2, SubmitStep, PushedStep, CorruptStep
<1>3. CASE RunStep
  BY <1>1, <1>3, QuietSteps, MeasureStep, CutStep, PoppedStep, CorruptStep, SendStep
  DEF RunStep
<1>4. ASSUME NEW w \in Workers, WorkerStep(w) PROVE IInv'
  BY <1>1, <1>4, TakeStep, WorkerDoneStep DEF WorkerStep
<1> QED
  BY <1>1, <1>2, <1>3, <1>4, QuietSteps DEF Next

\* The inductive invariant always holds.
THEOREM Invariance == Spec => []IInv
BY InitIInv, StepIInv, PTL DEF Spec

-----------------------------------------------------------------------------
\* No queued request is lost, not even at shutdown, where it is left where it
\* is, unless it was in the heap, or on its way into it, while heap operations
\* overlapped.
THEOREM Kept == Spec => []QueuedIsKept
BY Invariance, PTL DEF IInv

\* Under the same condition no request is forwarded twice, though operations
\* that overlap may have stored older states of the heap before.
THEOREM Once == Spec => []AtMostOnce
BY Invariance, PTL DEF IInv

-----------------------------------------------------------------------------
(* Until the first overlap.                                                *)

\* One heap operation at a time, each request is in its place, and no panic.
LEMMA Quiet ==
  ASSUME IInv, raced = {}
  PROVE  /\ ~crashed
         /\ \A r \in Pushing : seen[r] = pq
         /\ run = "cutting" => hand \in pq
         /\ \A r \in Requests : submit[r] = "queued" <=> r \in Places
<1> USE DEF IInv, TInv
<1>1. \A r \in Pushing : r \in Active /\ r \notin raced
  BY ActiveRun
<1>2. \A r \in Requests : submit[r] = "queued" <=> r \in Places
  BY DEF QueuedIsKept, NotYetQueued
<1> QED
  BY <1>1, <1>2 DEF Confined

\* What raced holds of requests, it never loses.
LEMMA QuietBefore ==
  ASSUME IInv, [Next]_vars, raced' = {}
  PROVE  raced = {}
<1>1. raced \subseteq raced' \/ (Popped /\ raced' = raced \ {Run})
  BY DEF Next, vars, Submit, Pushed, Corrupt, RunStep, Poll, Measure, Cut, Popped,
         Send, Stop, IdleWait, WorkerStep, Take, Forward, Exit, Cancel
<1>2. Run \in raced => raced \ {Run} # {}
  BY DEF IInv, Confined
<1> QED
  BY <1>1, <1>2

-----------------------------------------------------------------------------
(* Bounded priority inversion.                                             *)

\* q will reach a worker before r unless the services stop: r is in the heap
\* and q already out of it, or both are out and q is in front.
StandsBefore(q, r) ==
  \/ r \in pq /\ (q = hand \/ q \in InPool)
  \/ r = hand /\ q \in InPool
  \/ \E i, j \in DOMAIN pool : i < j /\ pool[i] = q /\ pool[j] = r

\* All that can ever overtake r: what has overtaken it and the requests of
\* lower priority that stand before it.
Overtaking(r) ==
  overtakers[r] \cup {q \in Requests : priority[q] < priority[r]
                                      /\ StandsBefore(q, r)}

\* The set is small when a request is queued, and never grows.
InversionInv ==
  \A r \in Requests :
    /\ submit[r] # "new" => priority[r] \in Priorities
    /\ submit[r] # "queued" => overtakers[r] = {}
    /\ Cardinality(Overtaking(r)) <= PoolSize + 1

\* Later requests overtake each other, but none is recorded.
FairOrder == (raced = {} => InversionInv) /\ BoundedInversion

\* The channel holds at most Len(pool) different requests.
LEMMA PoolCardinality ==
  ASSUME TypeOK
  PROVE  IsFiniteSet(InPool) /\ Cardinality(InPool) <= PoolSize
<1>1. pool \in Seq(Requests) /\ Len(pool) \in Nat /\ DOMAIN pool = 1..Len(pool)
      /\ Len(pool) <= PoolSize
  BY DEF TypeOK
<1> DEFINE f == [i \in 1..Len(pool) |-> pool[i]]
<1>2. f \in Surjection(1..Len(pool), InPool)
  BY <1>1 DEF Surjection, InPool
<1>3. ExistsSurjection(1..Len(pool), InPool)
  BY <1>2 DEF ExistsSurjection
<1>4. IsFiniteSet(InPool)
  BY <1>1, FS_Subset DEF InPool
<1>5. Cardinality(InPool) <= Len(pool) /\ Cardinality(InPool) \in Nat
  BY <1>1, <1>3, <1>4, FS_SurjCardinalityBound, FS_CardinalityType
<1> QED
  BY <1>1, <1>4, <1>5, PoolSizeType

\* A subset of a small set is small.
LEMMA SmallerSet ==
  ASSUME TypeOK, InversionInv, NEW r \in Requests, NEW S, S \subseteq Overtaking(r)
  PROVE  Cardinality(S) <= PoolSize + 1
<1>1. Overtaking(r) \subseteq Requests
  BY DEF Overtaking, TypeOK
<1>2. IsFiniteSet(Overtaking(r)) /\ IsFiniteSet(S)
  BY <1>1, FS_Subset
<1>3. /\ Cardinality(S) <= Cardinality(Overtaking(r))
      /\ Cardinality(S) \in Nat /\ Cardinality(Overtaking(r)) \in Nat
  BY <1>2, FS_Subset, FS_CardinalityType
<1> QED
  BY <1>3, PoolSizeType DEF InversionInv

\* Requests that are somewhere have an integer priority.
LEMMA PlacedPriority ==
  ASSUME IInv, raced = {}, InversionInv, NEW r \in Requests,
         r \in pq \cup {hand} \cup InPool
  PROVE  submit[r] = "queued" /\ priority[r] \in Int
BY DEF IInv, NotYetQueued, Places, InversionInv

LEMMA InitInversion == Init => InversionInv
<1> SUFFICES ASSUME Init, NEW r \in Requests
             PROVE  /\ submit[r] # "new" => priority[r] \in Priorities
                    /\ submit[r] # "queued" => overtakers[r] = {}
                    /\ Cardinality(Overtaking(r)) <= PoolSize + 1
  BY DEF InversionInv
<1>1. Overtaking(r) = {}
  BY DEF Init, Overtaking, StandsBefore, InPool
<1> QED
  BY <1>1, PoolSizeType, FS_EmptySet DEF Init

\* When a request is queued, only the channel and Run's hands are before it.
LEMMA PushedInversion ==
  ASSUME IInv, raced = {}, InversionInv, NEW s \in Requests, Pushed(s)
  PROVE  InversionInv'
<1> USE DEF IInv, TInv
<1>1. /\ submit[s] = "pushing" /\ seen[s] = pq
      /\ s \notin pq \cup {hand} \cup InPool
  BY Quiet DEF Pushed, Pushing, Places
<1>2. /\ pq' = pq \cup {s} /\ submit' = [submit EXCEPT ![s] = "queued"]
      /\ UNCHANGED <<priority, hand, pool, overtakers>>
  BY <1>1 DEF Pushed, Corrupt, Grown
<1>3. InPool' = InPool
  BY <1>2 DEF InPool
<1>4. ASSUME NEW r \in Requests, r # s
      PROVE  Cardinality(Overtaking(r)') <= PoolSize + 1
  <2>1. Overtaking(r)' \subseteq Overtaking(r)
    BY <1>2, <1>3, <1>4 DEF Overtaking, StandsBefore
  <2> QED
    BY <2>1, SmallerSet
<1>5. Cardinality(Overtaking(s)') <= PoolSize + 1
  <2>1. overtakers'[s] = {}
    BY <1>1, <1>2 DEF InversionInv
  <2>2. Overtaking(s)' \subseteq InPool \cup {hand}
    BY <1>1, <1>2, <1>3, <2>1 DEF Overtaking, StandsBefore, InPool
  <2>3. IsFiniteSet(InPool \cup {hand})
        /\ Cardinality(InPool \cup {hand}) <= PoolSize + 1
    <3>1. IsFiniteSet(InPool) /\ Cardinality(InPool) \in Nat
          /\ Cardinality(InPool) <= PoolSize
      BY PoolCardinality, FS_CardinalityType
    <3>2. CASE hand \in InPool
      <4>1. InPool \cup {hand} = InPool
        BY <3>2
      <4> QED
        BY <3>1, <4>1, PoolSizeType
    <3>3. CASE hand \notin InPool
      <4>1. IsFiniteSet(InPool \cup {hand})
            /\ Cardinality(InPool \cup {hand}) = Cardinality(InPool) + 1
        BY <3>1, <3>3, FS_AddElement
      <4> QED
        BY <3>1, <4>1, PoolSizeType
    <3> QED
      BY <3>2, <3>3
  <2>4. IsFiniteSet(Overtaking(s)')
        /\ Cardinality(Overtaking(s)') <= Cardinality(InPool \cup {hand})
    BY <2>2, <2>3, FS_Subset
  <2> QED
    BY <2>3, <2>4, PoolSizeType, FS_CardinalityType
<1>6. PoolSize' = PoolSize
  BY DEF PoolSize
<1> QED
  BY <1>1, <1>2, <1>4, <1>5, <1>6 DEF InversionInv, TypeOK

\* No other step lets a request of lower priority get before another one.
LEMMA OtherInversion ==
  ASSUME IInv, raced = {}, InversionInv,
         \/ \E s \in Requests : Submit(s)
         \/ RunStep
         \/ \E w \in Workers : WorkerStep(w)
         \/ Cancel
         \/ UNCHANGED vars
  PROVE  InversionInv'
<1> USE DEF IInv, TInv
<1>1. SUFFICES ASSUME NEW r \in Requests
               PROVE  /\ submit'[r] # "new" => priority'[r] \in Priorities
                      /\ submit'[r] # "queued" => overtakers'[r] = {}
                      /\ Overtaking(r)' \subseteq Overtaking(r)
  BY <1>1, SmallerSet DEF InversionInv, PoolSize
<1>2. ASSUME NEW s \in Requests, Submit(s)
      PROVE  /\ submit'[r] # "new" => priority'[r] \in Priorities
             /\ submit'[r] # "queued" => overtakers'[r] = {}
             /\ Overtaking(r)' \subseteq Overtaking(r)
  <2>1. PICK p \in Priorities : priority' = [priority EXCEPT ![s] = p]
    BY <1>2 DEF Submit
  <2>2. /\ submit' = [submit EXCEPT ![s] = "pushing"] /\ submit[s] = "new"
        /\ UNCHANGED <<pq, hand, pool, overtakers>>
    BY <1>2 DEF Submit
  <2>3. s \notin pq \cup {hand} \cup InPool
    BY <2>2 DEF NotYetQueued, Places
  <2>4. \A q \in Requests \ {s} : priority'[q] = priority[q]
    BY <2>1 DEF TypeOK
  <2>5. InPool' = InPool
    BY <2>2 DEF InPool
  <2>6. ASSUME NEW q \in Requests, StandsBefore(q, r)'
        PROVE  StandsBefore(q, r) /\ q # s /\ r # s
    BY <2>2, <2>3, <2>5, <2>6 DEF StandsBefore, InPool
  <2>7. Overtaking(r)' \subseteq Overtaking(r)
    BY <2>2, <2>4, <2>6 DEF Overtaking
  <2> QED
    BY <2>1, <2>2, <2>7 DEF InversionInv, TypeOK
<1>3. ASSUME UNCHANGED <<submit, priority, pq, hand, pool, overtakers>>
      PROVE  /\ submit'[r] # "new" => priority'[r] \in Priorities
             /\ submit'[r] # "queued" => overtakers'[r] = {}
             /\ Overtaking(r)' \subseteq Overtaking(r)
  BY <1>3 DEF InversionInv, Overtaking, StandsBefore, InPool
<1>4. CASE Poll \/ Measure \/ IdleWait \/ Stop \/ Cancel \/ UNCHANGED vars
  BY <1>3, <1>4 DEF Poll, Measure, IdleWait, Stop, Cancel, vars
<1>5. ASSUME NEW w \in Workers, Forward(w) \/ Exit(w)
      PROVE  UNCHANGED <<submit, priority, pq, hand, pool, overtakers>>
  BY <1>5 DEF Forward, Exit
<1>6. ASSUME Cut
      PROVE  /\ submit'[r] # "new" => priority'[r] \in Priorities
             /\ submit'[r] # "queued" => overtakers'[r] = {}
             /\ Overtaking(r)' \subseteq Overtaking(r)
  <2>1. run = "popping" /\ hand = None
    BY <1>6 DEF Cut, HandState
  <2>2. PICK h \in Top(pq) : hand' = h /\ pq' = pq
    BY <1>6 DEF Cut, Corrupt, Candidates
  <2>3. UNCHANGED <<submit, priority, pool, overtakers>> /\ InPool' = InPool
    BY <1>6 DEF Cut, Corrupt, InPool
  <2>4. h \in Requests /\ h \in pq /\ \A q \in pq : priority[h] >= priority[q]
    BY <2>2 DEF Top, TypeOK
  <2>5. ASSUME NEW q \in Requests, priority[q] < priority[r], StandsBefore(q, r)'
        PROVE  StandsBefore(q, r)
    <3>1. CASE r \in pq' /\ q = hand'
      <4>1. q = h /\ r \in pq
        BY <2>2, <3>1
      <4>2. priority[q] \in Int /\ priority[r] \in Int
        BY <2>4, <4>1, PlacedPriority
      <4> QED
        BY <2>4, <2>5, <4>1, <4>2
    <3>2. CASE r \in pq' /\ q \in InPool'
      BY <2>2, <2>3, <3>2 DEF StandsBefore
    <3>3. CASE r = hand' /\ q \in InPool'
      BY <2>2, <2>3, <2>4, <3>3 DEF StandsBefore
    <3>4. CASE \E i, j \in DOMAIN pool' : i < j /\ pool'[i] = q /\ pool'[j] = r
      BY <2>3, <3>4 DEF StandsBefore
    <3> QED
      BY <2>5, <3>1, <3>2, <3>3, <3>4 DEF StandsBefore
  <2>6. Overtaking(r)' \subseteq Overtaking(r)
    BY <2>3, <2>5 DEF Overtaking
  <2> QED
    BY <2>3, <2>6 DEF InversionInv
<1>7. ASSUME Send, ~Stop
      PROVE  /\ submit'[r] # "new" => priority'[r] \in Priorities
             /\ submit'[r] # "queued" => overtakers'[r] = {}
             /\ Overtaking(r)' \subseteq Overtaking(r)
  <2>1. /\ run = "sending" /\ pool' = Append(pool, hand) /\ hand' = None
        /\ UNCHANGED <<submit, priority, pq, overtakers>>
    BY <1>7 DEF Send
  <2>2. hand \in Requests /\ pool \in Seq(Requests) /\ Len(pool) \in Nat
    BY <2>1 DEF HandState, TypeOK
  <2>3. InPool' = InPool \cup {hand} /\ hand \notin InPool
    <3>1. hand \in InHand
      BY <2>1, <2>2 DEF InHand
    <3> QED
      BY <2>1, <2>2, <3>1, PoolAppend DEF InPool, AtMostOnce
  <2>4. /\ DOMAIN pool' = 1..(Len(pool) + 1) /\ DOMAIN pool = 1..Len(pool)
        /\ pool'[Len(pool) + 1] = hand
        /\ \A k \in 1..Len(pool) : pool'[k] = pool[k]
    BY <2>1, <2>2
  <2>5. ASSUME NEW q \in Requests, StandsBefore(q, r)' PROVE StandsBefore(q, r)
    <3>1. CASE r \in pq' /\ (q = hand' \/ q \in InPool')
      BY <2>1, <2>3, <3>1 DEF StandsBefore
    <3>2. CASE r = hand' /\ q \in InPool'
      BY <2>1, <3>2
    <3>3. CASE \E i, j \in DOMAIN pool' : i < j /\ pool'[i] = q /\ pool'[j] = r
      <4>1. PICK i, j \in 1..(Len(pool) + 1) :
                   i < j /\ pool'[i] = q /\ pool'[j] = r
        BY <2>4, <3>3
      <4>2. i \in 1..Len(pool) /\ pool[i] = q
        BY <2>2, <2>4, <4>1
      <4>3. CASE j = Len(pool) + 1
        BY <2>4, <4>1, <4>2, <4>3 DEF StandsBefore, InPool
      <4>4. CASE j # Len(pool) + 1
        <5>1. j \in 1..Len(pool) /\ pool[j] = r
          BY <2>2, <2>4, <4>1, <4>4
        <5> QED
          BY <2>4, <4>1, <4>2, <5>1 DEF StandsBefore
      <4> QED
        BY <4>3, <4>4
    <3> QED
      BY <2>5, <3>1, <3>2, <3>3 DEF StandsBefore
  <2>6. Overtaking(r)' \subseteq Overtaking(r)
    BY <2>1, <2>5 DEF Overtaking
  <2> QED
    BY <2>1, <2>6 DEF InversionInv
<1>8. ASSUME NEW w \in Workers, Take(w)
      PROVE  /\ submit'[r] # "new" => priority'[r] \in Priorities
             /\ submit'[r] # "queued" => overtakers'[r] = {}
             /\ Overtaking(r)' \subseteq Overtaking(r)
  <2> DEFINE h == Head(pool)
  <2>1. /\ pool # <<>> /\ pool' = Tail(pool)
        /\ UNCHANGED <<submit, priority, pq, hand>>
        /\ overtakers'[r] = IF r \in Waiting /\ priority[r] > priority[h]
                            THEN overtakers[r] \cup {h} ELSE overtakers[r]
    BY <1>8 DEF Take
  <2>2. /\ h \in Requests /\ h = pool[1] /\ Len(pool) \in Nat \ {0}
        /\ DOMAIN pool' = 1..(Len(pool) - 1) /\ DOMAIN pool = 1..Len(pool)
        /\ \A i \in 1..(Len(pool) - 1) : pool'[i] = pool[i + 1]
    BY <2>1, PoolTail DEF TypeOK
  <2> HIDE DEF h
  <2>3. h \in InPool /\ InPool' \subseteq InPool
    <3>1. 1 \in 1..Len(pool)
      BY <2>2
    <3>2. \A i \in 1..(Len(pool) - 1) : i + 1 \in 1..Len(pool)
      BY <2>2
    <3> QED
      BY <2>2, <3>1, <3>2 DEF InPool
  <2>4. ASSUME NEW q \in Requests, StandsBefore(q, r)' PROVE StandsBefore(q, r)
    <3>1. CASE r \in pq' /\ (q = hand' \/ q \in InPool')
      BY <2>1, <2>3, <3>1 DEF StandsBefore
    <3>2. CASE r = hand' /\ q \in InPool'
      BY <2>1, <2>3, <3>2 DEF StandsBefore
    <3>3. CASE \E i, j \in DOMAIN pool' : i < j /\ pool'[i] = q /\ pool'[j] = r
      <4>1. PICK i, j \in 1..(Len(pool) - 1) :
                   i < j /\ pool'[i] = q /\ pool'[j] = r
        BY <2>2, <3>3
      <4>2. i + 1 \in 1..Len(pool) /\ j + 1 \in 1..Len(pool) /\ i + 1 < j + 1
        BY <2>2, <4>1
      <4>3. pool[i + 1] = q /\ pool[j + 1] = r
        BY <2>2, <4>1
      <4> QED
        BY <2>2, <4>2, <4>3 DEF StandsBefore
    <3> QED
      BY <2>4, <3>1, <3>2, <3>3 DEF StandsBefore
  <2>5. ASSUME r \in Waiting, priority[r] > priority[h]
        PROVE  StandsBefore(h, r)
    <3>1. CASE r \in pq \/ r = hand
      BY <2>3, <3>1 DEF StandsBefore
    <3>2. CASE r \in InPool
      <4>1. PICK j \in 1..Len(pool) : pool[j] = r
        BY <2>2, <3>2 DEF InPool
      <4>2. priority[h] \in Int
        BY <2>2, <2>3, PlacedPriority
      <4>3. j # 1
        BY <2>2, <2>5, <4>1, <4>2
      <4>4. 1 \in DOMAIN pool /\ j \in DOMAIN pool /\ 1 < j
        BY <2>2, <4>1, <4>3
      <4> QED
        BY <2>2, <4>1, <4>4 DEF StandsBefore
    <3> QED
      BY <2>5, <3>1, <3>2 DEF Waiting
  <2>6. Overtaking(r)' \subseteq Overtaking(r)
    <3>1. overtakers'[r] \subseteq Overtaking(r)
      <4>1. CASE r \in Waiting /\ priority[r] > priority[h]
        <5>1. priority[h] < priority[r]
          <6>1. priority[h] \in Int
            BY <2>2, <2>3, PlacedPriority
          <6>2. priority[r] \in Int
            BY <4>1, PlacedPriority DEF Waiting
          <6> QED
            BY <4>1, <6>1, <6>2
        <5> QED
          BY <2>1, <2>2, <2>5, <4>1, <5>1 DEF Overtaking
      <4>2. CASE ~(r \in Waiting /\ priority[r] > priority[h])
        BY <2>1, <4>2 DEF Overtaking
      <4> QED
        BY <4>1, <4>2
    <3> QED
      BY <2>1, <2>4, <3>1 DEF Overtaking
  <2>7. submit'[r] # "queued" => overtakers'[r] = {}
    <3>1. submit[r] # "queued" => r \notin Waiting
      BY PlacedPriority DEF Waiting
    <3> QED
      BY <2>1, <3>1 DEF InversionInv
  <2> QED
    BY <2>1, <2>6, <2>7 DEF InversionInv
<1>9. ASSUME Popped
      PROVE  /\ submit'[r] # "new" => priority'[r] \in Priorities
             /\ submit'[r] # "queued" => overtakers'[r] = {}
             /\ Overtaking(r)' \subseteq Overtaking(r)
  <2>1. pq' \subseteq pq /\ UNCHANGED <<submit, priority, hand, pool, overtakers>>
    BY <1>9 DEF Popped, Corrupt, Shrunk, Without
  <2> QED
    BY <2>1 DEF InversionInv, Overtaking, StandsBefore, InPool
<1> QED
  BY <1>2, <1>3, <1>4, <1>5, <1>6, <1>7, <1>8, <1>9 DEF RunStep, WorkerStep, Send

\* What has overtaken a request is part of that set.
LEMMA InversionBound ==
  ASSUME TypeOK, InversionInv
  PROVE  BoundedInversion
<1> SUFFICES ASSUME NEW r \in Requests
             PROVE  Cardinality(overtakers[r]) <= PoolSize + 1
  BY DEF BoundedInversion
<1>1. overtakers[r] \subseteq Overtaking(r)
  BY DEF Overtaking
<1> QED
  BY <1>1, SmallerSet

LEMMA StepFairOrder == IInv /\ IInv' /\ FairOrder /\ [Next]_vars => FairOrder'
<1> SUFFICES ASSUME IInv, IInv', FairOrder, [Next]_vars PROVE FairOrder'
  OBVIOUS
<1>1. CASE raced' = {}
  <2>1. raced = {}
    BY <1>1, QuietBefore
  <2>2. InversionInv'
    BY <2>1, PushedInversion, OtherInversion DEF FairOrder, Next
  <2>3. TypeOK'
    BY DEF IInv, TInv
  <2>4. BoundedInversion'
    <3> SUFFICES ASSUME NEW r \in Requests
                 PROVE  Cardinality(overtakers'[r]) <= PoolSize' + 1
      BY DEF BoundedInversion
    <3>1. overtakers'[r] \subseteq Overtaking(r)' /\ Overtaking(r)' \subseteq Requests
      BY <2>3 DEF Overtaking, TypeOK
    <3>2. IsFiniteSet(Overtaking(r)') /\ IsFiniteSet(overtakers'[r])
      BY <3>1, FS_Subset
    <3>3. /\ Cardinality(overtakers'[r]) <= Cardinality(Overtaking(r)')
          /\ Cardinality(overtakers'[r]) \in Nat
          /\ Cardinality(Overtaking(r)') \in Nat
      BY <3>1, <3>2, FS_Subset, FS_CardinalityType
    <3>4. Cardinality(Overtaking(r)') <= PoolSize' + 1
      BY <2>2 DEF InversionInv
    <3>5. PoolSize' = PoolSize
      BY DEF PoolSize
    <3> QED
      BY <3>3, <3>4, <3>5, PoolSizeType
  <2> QED
    BY <2>2, <2>4 DEF FairOrder
<1>2. CASE raced' # {}
  <2>1. overtakers' = overtakers
    <3>1. ASSUME NEW w \in Workers, Take(w) PROVE overtakers' = overtakers
      <4>1. raced # {}
        BY <1>2, <3>1 DEF Take
      <4> QED
        BY <3>1, <4>1 DEF Take, IInv, TInv, TypeOK
    <3> QED
      BY <3>1 DEF Next, vars, Submit, Pushed, Corrupt, RunStep, Poll, Measure, Cut,
             Popped, Send, Stop, IdleWait, WorkerStep, Forward, Exit, Cancel
  <2> QED
    BY <1>2, <2>1 DEF FairOrder, BoundedInversion, PoolSize
<1> QED
  BY <1>1, <1>2

\* The set of all that can overtake a request stays small.
THEOREM FairOrderAlways == Spec => []FairOrder
<1>1. Init => FairOrder
  BY InitInversion, InversionBound, InitTInv DEF FairOrder, TInv
<1> QED
  BY <1>1, StepFairOrder, Invariance, PTL DEF Spec

\* A queued request is overtaken by at most WorkerPoolSize + 1 requests of lower
\* priority, as long as no heap operations overlap.
THEOREM Bounded == Spec => []BoundedInversion
BY FairOrderAlways, PTL DEF FairOrder

-----------------------------------------------------------------------------
(* The abstract queue.                                                     *)

\* What the refinement mapping says of a request, in terms of its place.
LEMMA StatusIsPlace ==
  ASSUME IInv, raced = {}, NEW r \in Requests
  PROVE  /\ Status[r] \in {"new", "waiting", "delivered", "handled"}
         /\ Status[r] = "new" <=> submit[r] # "queued"
         /\ Status[r] = "waiting" <=> r \in Waiting
         /\ Status[r] = "delivered" <=> r \in InWork
         /\ Status[r] = "handled" <=> r \in handled
<1> USE DEF IInv, TInv
<1>1. r # None
  OBVIOUS
<1>2. r \in Waiting <=> r \in pq \cup {hand} \cup InPool
  BY <1>1 DEF Waiting
<1>3. submit[r] # "queued" => r \notin Waiting \cup InWork \cup handled
  BY <1>2 DEF NotYetQueued, Places
<1>4. submit[r] = "queued" => r \in Waiting \cup InWork \cup handled
  BY <1>2 DEF QueuedIsKept, Places
<1>5. /\ r \in Waiting => r \notin InWork \cup handled
      /\ r \in InWork => r \notin handled
  <2>1. r = hand => r \in InHand \cup pq
    BY <1>1, Quiet DEF InHand
  <2> QED
    BY <1>1, <1>2, <2>1 DEF AtMostOnce
<1>6. CASE submit[r] # "queued"
  BY <1>3, <1>6 DEF Status
<1>7. CASE submit[r] = "queued" /\ r \in handled
  BY <1>5, <1>7 DEF Status
<1>8. CASE submit[r] = "queued" /\ r \in InWork
  BY <1>5, <1>8 DEF Status
<1>9. CASE submit[r] = "queued" /\ r \in Waiting
  BY <1>5, <1>9 DEF Status
<1> QED
  BY <1>4, <1>6, <1>7, <1>8, <1>9

\* A request that changes its place is the only one that changes its status.
LEMMA OneMoves ==
  ASSUME NEW r \in Requests,
         \A q \in Requests \ {r} : Status'[q] = Status[q]
  PROVE  Status' = [Status EXCEPT ![r] = Status'[r]]
<1>1. /\ Status = [q \in Requests |-> Status[q]]
      /\ Status' = [q \in Requests |-> Status'[q]]
  BY DEF Status
<1> QED
  BY <1>1

\* Before a request is accepted and between two places, it keeps its status.
LEMMA QueueStands ==
  ASSUME IInv, raced = {}, raced' = {},
         \/ \E r \in Requests : Submit(r)
         \/ Poll \/ Measure \/ Cut \/ Popped \/ IdleWait \/ Send \/ Cancel
         \/ UNCHANGED vars
         \/ \E w \in Workers : Exit(w)
  PROVE  UNCHANGED Queue!vars
<1> USE DEF IInv, TInv
<1>1. UNCHANGED <<job, handled, overtakers>>
  BY DEF Submit, Measure, Cut, Popped, Corrupt, Poll, IdleWait, Send, Stop, Cancel,
         Exit, vars
<1>2. InWork' = InWork
  BY <1>1 DEF InWork
<1>3. \A r \in Requests : submit'[r] = "queued" <=> submit[r] = "queued"
  BY DEF Submit, Measure, Cut, Popped, Corrupt, Poll, IdleWait, Send, Stop, Cancel,
         Exit, vars, TypeOK
<1>4. \A r \in Requests : submit[r] = "queued" => priority'[r] = priority[r]
  BY DEF Submit, Measure, Cut, Popped, Corrupt, Poll, IdleWait, Send, Stop, Cancel,
         Exit, vars, TypeOK
<1>5. Status' = Status
  BY <1>1, <1>2, <1>3 DEF Status
<1>6. QueueRank' = QueueRank
  BY <1>3, <1>4 DEF QueueRank
<1> QED
  BY <1>1, <1>5, <1>6 DEF Queue!vars

\* Submit returns: the request is accepted.
LEMMA PushedAccepts ==
  ASSUME IInv, raced = {}, InversionInv, NEW r \in Requests, Pushed(r)
  PROVE  Queue!Accept(r)
<1> USE DEF IInv, TInv
<1>1. submit[r] = "pushing"
  BY Quiet DEF Pushed
<1>2. /\ pq' = pq \cup {r} /\ submit' = [submit EXCEPT ![r] = "queued"]
      /\ UNCHANGED <<priority, raced, hand, pool, job, handled, overtakers>>
  BY <1>1 DEF Pushed, Corrupt, Grown
<1>3. InWork' = InWork /\ InPool' = InPool
  BY <1>2 DEF InWork, InPool
<1>4. Status[r] = "new"
  BY <1>1, StatusIsPlace
<1>5. Status'[r] = "waiting"
  <2>1. r \notin InWork \cup handled
    BY <1>1 DEF NotYetQueued, Places
  <2> QED
    BY <1>2, <1>3, <2>1 DEF Status, TypeOK
<1>6. \A q \in Requests \ {r} : Status'[q] = Status[q]
  BY <1>2, <1>3 DEF Status, TypeOK
<1>7. priority[r] \in Priorities
  BY <1>1 DEF InversionInv
<1>8. QueueRank' = [QueueRank EXCEPT ![r] = priority[r]]
  BY <1>2 DEF QueueRank, TypeOK
<1> QED
  BY <1>2, <1>4, <1>5, <1>6, <1>7, <1>8, OneMoves DEF Queue!Accept

\* A worker receives: the request is delivered, in its turn.
LEMMA TakeDelivers ==
  ASSUME IInv, raced = {}, BoundedInversion', NEW w \in Workers, Take(w)
  PROVE  \E r \in Requests : Queue!Deliver(r)
<1> USE DEF IInv, TInv
<1> DEFINE h == Head(pool)
<1>1. /\ worker[w] = "waiting" /\ pool # <<>>
      /\ job' = [job EXCEPT ![w] = h]
      /\ UNCHANGED <<submit, priority, raced, handled>>
      /\ overtakers' = [q \in Requests |->
                          IF q \in Waiting /\ priority[q] > priority[h]
                          THEN overtakers[q] \cup {h} ELSE overtakers[q]]
  BY DEF Take
<1>2. h \in Requests /\ h \in InPool
  BY <1>1, PoolTail DEF TypeOK, InPool
<1> HIDE DEF h
<1>3. h \in Waiting /\ h # None
  BY <1>2 DEF Waiting
<1>4. InWork' = InWork \cup {h}
  BY <1>1, <1>2 DEF InWork, TypeOK, HandState
<1>5. Status[h] = "waiting"
  BY <1>2, <1>3, StatusIsPlace
<1>6. Status'[h] = "delivered"
  BY <1>1, <1>2, <1>4, <1>5 DEF Status
<1>7. \A q \in Requests \ {h} : Status'[q] = Status[q]
  BY <1>1, <1>4 DEF Status
<1>8. Status' = [Status EXCEPT ![h] = "delivered"]
  BY <1>2, <1>6, <1>7, OneMoves
<1>9. QueueRank' = QueueRank
  BY <1>1 DEF QueueRank
<1>10. \A q \in Requests : q \in Waiting => QueueRank[q] = priority[q]
  <2>1. ASSUME NEW q \in Requests, q \in Waiting PROVE submit[q] = "queued"
    BY <2>1 DEF Waiting, NotYetQueued, Places
  <2> QED
    BY <2>1 DEF QueueRank
<1>11. \A q \in Requests : q \in Queue!Overtaken(h)
                              <=> q \in Waiting /\ priority[q] > priority[h]
  BY <1>2, <1>3, <1>10, StatusIsPlace DEF Queue!Overtaken
<1>12. overtakers' = [q \in Requests |->
          overtakers[q] \cup (IF q \in Queue!Overtaken(h) THEN {h} ELSE {})]
  BY <1>1, <1>11
<1>13. \A q \in Requests : Cardinality(overtakers'[q]) <= PoolSize + 1
  BY DEF BoundedInversion, PoolSize
<1>14. (raced' # {}) = (raced # {})
  BY <1>1
<1> QED
  BY <1>2, <1>5, <1>8, <1>9, <1>12, <1>13, <1>14
  DEF Queue!Deliver, Queue!Cardinality, Cardinality

\* A worker is done: the request is handled.
LEMMA ForwardFinishes ==
  ASSUME IInv, raced = {}, NEW w \in Workers, Forward(w)
  PROVE  \E r \in Requests : Queue!Finish(r)
<1> USE DEF IInv, TInv
<1> DEFINE r == job[w]
<1>1. /\ worker[w] = "busy" /\ job' = [job EXCEPT ![w] = None]
      /\ handled' = handled \cup {r}
      /\ UNCHANGED <<submit, priority, raced, overtakers>>
  BY DEF Forward
<1>2. r \in Requests /\ r \in InWork
  BY <1>1 DEF TypeOK, HandState, InWork
<1>3. InWork' = InWork \ {r}
  BY <1>1, <1>2 DEF InWork, TypeOK, AtMostOnce
<1> HIDE DEF r
<1>4. Status[r] = "delivered"
  BY <1>2, StatusIsPlace
<1>5. Status'[r] = "handled"
  <2>1. submit'[r] = "queued" /\ r \in handled' /\ r \notin InWork'
    BY <1>1, <1>2, <1>3, <1>4, StatusIsPlace
  <2> QED
    BY <1>2, <2>1 DEF Status
<1>6. \A q \in Requests \ {r} : Status'[q] = Status[q]
  BY <1>1, <1>3 DEF Status
<1>7. Status' = [Status EXCEPT ![r] = "handled"] /\ QueueRank' = QueueRank
  BY <1>1, <1>2, <1>5, <1>6, OneMoves DEF QueueRank
<1> QED
  BY <1>1, <1>2, <1>4, <1>7 DEF Queue!Finish

LEMMA InitQueue == Init => Queue!Init
<1> SUFFICES ASSUME Init PROVE Queue!Init
  OBVIOUS
<1>1. Status = [r \in Requests |-> "new"]
  <2>1. InWork = {}
    BY DEF Init, InWork
  <2> QED
    BY <2>1 DEF Init, Status
<1>2. QueueRank = [r \in Requests |-> None]
  BY DEF Init, QueueRank
<1> QED
  BY <1>1, <1>2 DEF Init, Queue!Init

\* Until heap operations overlap, heap, Run, channel and workers together
\* implement the abstract queue: Submit's return accepts a request, the worker's
\* receive delivers it, no matter what main does.
THEOREM Refinement == Spec => ImplementsQueue
<1>1. ASSUME IInv, FairOrder, FairOrder', [Next]_vars, raced = {}, raced' = {}
      PROVE  Queue!Next \/ UNCHANGED Queue!vars
  <2> USE DEF FairOrder
  <2>1. ASSUME NEW r \in Requests, Pushed(r) PROVE Queue!Next
    BY <1>1, <2>1, PushedAccepts DEF Queue!Next
  <2>2. ASSUME NEW w \in Workers, Take(w) PROVE Queue!Next
    BY <1>1, <2>2, TakeDelivers DEF Queue!Next
  <2>3. ASSUME NEW w \in Workers, Forward(w) PROVE Queue!Next
    BY <1>1, <2>3, ForwardFinishes DEF Queue!Next
  <2> QED
    BY <1>1, <2>1, <2>2, <2>3, QueueStands DEF Next, RunStep, WorkerStep
<1>2. ASSUME raced' # {} PROVE Queue!Next
  BY <1>2 DEF Queue!Next, Queue!Break
<1>3. IInv /\ FairOrder /\ FairOrder' /\ [Next]_vars => [Queue!Next]_(Queue!vars)
  BY <1>1, <1>2, QuietBefore
<1>4. Spec => Queue!Spec
  BY <1>3, InitQueue, Invariance, FairOrderAlways, PTL DEF Spec, Queue!Spec
<1> QED
  BY <1>4 DEF ImplementsQueue
=============================================================================
