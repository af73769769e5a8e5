----------------------------- MODULE Scheduler -----------------------------
(***************************************************************************)
(* The scheduler: webhook goroutines Submit requests into a priority heap, *)
(* Run moves the best one at a time into the workerPool channel, and the   *)
(* workers take requests from the channel and forward them.                *)
(*                                                                         *)
(* Nothing synchronises the heap: Submit calls heap.Push while Run reads   *)
(* its length and calls heap.Pop, in other goroutines.  A heap operation   *)
(* is therefore several steps: it reads the slice, and later it stores the *)
(* changed one.  When two operations overlap, one may store what it had    *)
(* read before the other's store, and their swaps of slots may interleave  *)
(* and leave one request twice and another not at all; so the heap then    *)
(* holds any of the requests that were in either, in any order, perhaps    *)
(* some twice, or a nil slot, on which a later comparison panics.          *)
(*                                                                         *)
(* The heap is the set of requests in it; heap.Pop takes one of the        *)
(* highest priority, any one, for container/heap is not stable.  After an  *)
(* overlap the heap is out of order, and it takes any request.             *)
(***************************************************************************)
EXTENDS Integers, Sequences, FiniteSets

CONSTANTS
  Requests,    \* requests, each submitted at most once
  Workers,     \* the worker goroutines, WorkerPoolSize of them
  None,        \* no request, no priority
  Priorities   \* results of calculatePriority

Run == "Run"   \* index of Run's own view in seen

ASSUME SchedulerAssumption ==
  /\ None \notin Requests \cup Priorities
  /\ Run \notin Requests
  /\ IsFiniteSet(Requests) /\ IsFiniteSet(Workers)
  /\ Priorities \subseteq Int

VARIABLES
  submit,      \* where each Submit call is: "new", "pushing", "queued"
  priority,    \* Request.priority
  pq,          \* the heap
  seen,        \* the heap as the operation of a request or of Run read it
  raced,       \* requests put at risk by an overlap of heap operations, and
               \* the operations in progress that overlap another one
  run,         \* where Run is
  hand,        \* the request Run has popped
  pool,        \* contents of workerPool
  closed,      \* workerPool is closed
  worker,      \* where each worker is
  job,         \* the request it forwards
  handled,     \* requests a worker is done with
  ctxDone,     \* the services' context is cancelled
  crashed,     \* a panic has ended the process
  overtakers   \* history: requests of lower priority a worker took first,
               \* recorded until heap operations overlap

heap == <<submit, priority, pq, seen, raced>>
runner == <<run, hand>>
channel == <<pool, closed>>
workers == <<worker, job, handled>>
vars == <<heap, runner, channel, workers, ctxDone, crashed, overtakers>>

PoolSize == Cardinality(Workers)

Init ==
  /\ submit = [r \in Requests |-> "new"]
  /\ priority = [r \in Requests |-> None]
  /\ pq = {}
  /\ seen = [x \in Requests \cup {Run} |-> {}]
  /\ raced = {}
  /\ run = "loop" /\ hand = None
  /\ pool = <<>> /\ closed = FALSE
  /\ worker = [w \in Workers |-> "waiting"]
  /\ job = [w \in Workers |-> None]
  /\ handled = {}
  /\ ctxDone = FALSE
  /\ crashed = FALSE
  /\ overtakers = [r \in Requests |-> {}]

-----------------------------------------------------------------------------
(* Heap operations.                                                        *)

Pushing == {r \in Requests : submit[r] = "pushing"}

Popping == run \in {"popping", "cutting"}

\* The heap operations in progress.
Active == Pushing \cup (IF Popping THEN {Run} ELSE {})

\* What an operation that starts puts at risk if it overlaps another one: both
\* of them, and all that is in the heap, as it is or as they have read it.
AtRisk(x) ==
  IF Active = {} THEN {}
  ELSE {x} \cup Active \cup pq \cup UNION {seen[y] : y \in Active}

\* Mutant: a max-heap with Less the wrong way round.
Top_Lowest(S) == {r \in S : \A q \in S : priority[r] <= priority[q]}

Top(S) == {r \in S : \A q \in S : priority[r] >= priority[q]}

\* A comparison finds a nil slot.
Corrupt ==
  /\ raced # {}
  /\ crashed' = TRUE
  /\ UNCHANGED <<heap, runner, channel, workers, ctxDone, overtakers>>

\* Submit computes the priority (module Priority), and heap.Push reads the
\* slice.
Submit(r) ==
  /\ submit[r] = "new" /\ ~crashed
  /\ submit' = [submit EXCEPT ![r] = "pushing"]
  /\ \E p \in Priorities : priority' = [priority EXCEPT ![r] = p]
  /\ seen' = [seen EXCEPT ![r] = pq]
  /\ raced' = raced \cup AtRisk(r)
  /\ UNCHANGED <<pq, runner, channel, workers, ctxDone, crashed, overtakers>>

\* What heap.Push of r may leave in the heap, which is never empty then.
Grown(r) ==
  IF r \in raced THEN (SUBSET (seen[r] \cup pq \cup {r})) \ {{}}
  ELSE {pq \cup {r}}

\* heap.Push stores, and Submit returns true.
Pushed(r) ==
  /\ submit[r] = "pushing" /\ ~crashed
  /\ \/ /\ pq' \in Grown(r)
        /\ submit' = [submit EXCEPT ![r] = "queued"]
        /\ seen' = [seen EXCEPT ![r] = {}]
        /\ UNCHANGED <<priority, raced, runner, channel, workers, ctxDone,
                       crashed, overtakers>>
     \/ Corrupt

-----------------------------------------------------------------------------
(* Run.                                                                    *)

Stop ==
  /\ ctxDone
  /\ run' = "stopped"
  /\ closed' = TRUE
  /\ UNCHANGED <<heap, hand, pool, workers, ctxDone, crashed, overtakers>>

\* The outer select: the default case, unless the context is done.
Poll ==
  /\ run = "loop" /\ ~crashed
  /\ \/ Stop
     \/ /\ ~ctxDone
        /\ run' = "polling"
        /\ UNCHANGED <<heap, hand, channel, workers, ctxDone, crashed,
                       overtakers>>

\* The length of the queue; when there is something, heap.Pop reads the slice
\* and moves the top to its end.  Nobody else removes requests.
Measure ==
  /\ run = "polling" /\ ~crashed
  /\ \/ /\ pq = {}
        /\ run' = "idle"
        /\ UNCHANGED <<seen, raced>>
     \/ /\ pq # {}
        /\ run' = "popping"
        /\ seen' = [seen EXCEPT ![Run] = pq]
        /\ raced' = raced \cup AtRisk(Run)
  /\ UNCHANGED <<submit, priority, pq, hand, channel, workers, ctxDone, crashed,
                 overtakers>>

\* What may stand at the end of the slice when Pop reads it again: the top; or
\* any request, if a Push has come in between or the heap is out of order.
Candidates == IF raced = {} THEN Top(pq) ELSE pq

\* PriorityQueue.Pop reads the slice and takes its last request.
Cut ==
  /\ run = "popping" /\ ~crashed
  /\ \/ /\ hand' \in Candidates
        /\ seen' = [seen EXCEPT ![Run] = pq]
        /\ run' = "cutting"
        /\ UNCHANGED <<submit, priority, pq, raced, channel, workers, ctxDone,
                       crashed, overtakers>>
     \/ Corrupt

\* Mutants: Pop cuts the slice to nothing; the popped request stays in it.
Without_Truncated(S, r) == {}
Without_Keeping(S, r) == S

Without(S, r) == S \ {r}

\* What Pop may leave in the heap: all but the request it took, and that one as
\* well if it was there twice.
Shrunk ==
  IF Run \in raced THEN SUBSET (seen[Run] \cup pq)
  ELSE {Without(pq, hand)} \cup (IF hand \in raced THEN {pq} ELSE {})

\* PriorityQueue.Pop stores the shorter slice.
Popped ==
  /\ run = "cutting" /\ ~crashed
  /\ \/ /\ pq' \in Shrunk
        /\ run' = "sending"
        /\ seen' = [seen EXCEPT ![Run] = {}]
        /\ raced' = raced \ {Run}
        /\ UNCHANGED <<submit, priority, hand, channel, workers, ctxDone,
                       crashed, overtakers>>
     \/ Corrupt

\* Mutant: the channel is one longer.
HasRoom_OneMore == Len(pool) <= PoolSize

HasRoom == Len(pool) < PoolSize

\* Mutant: the send does not watch the context.
SendWatches_Nothing == FALSE

SendWatches == ctxDone

\* select { workerPool <- request; <-ctx.Done() }
Send ==
  /\ run = "sending" /\ ~crashed
  /\ \/ /\ HasRoom
        /\ pool' = Append(pool, hand)
        /\ hand' = None
        /\ run' = "loop"
        /\ UNCHANGED <<heap, closed, workers, ctxDone, crashed, overtakers>>
     \/ SendWatches /\ Stop

\* select { <-time.After(idleInterval); <-ctx.Done() }
IdleWait ==
  /\ run = "idle" /\ ~crashed
  /\ \/ Stop
     \/ /\ run' = "loop"
        /\ UNCHANGED <<heap, hand, channel, workers, ctxDone, crashed,
                       overtakers>>

-----------------------------------------------------------------------------
(* workerWithContext.                                                      *)

\* The queued requests that no worker has taken.
InPool == {pool[i] : i \in DOMAIN pool}
Waiting == (pq \cup {hand} \cup InPool) \ {None}

\* A worker receives a request, even if the context is done as well.
Take(w) ==
  /\ worker[w] = "waiting" /\ pool # <<>> /\ ~crashed
  /\ pool' = Tail(pool)
  /\ job' = [job EXCEPT ![w] = Head(pool)]
  /\ worker' = [worker EXCEPT ![w] = "busy"]
  /\ overtakers' =
       [q \in Requests |->
          IF raced = {} /\ q \in Waiting /\ priority[q] > priority[Head(pool)]
          THEN overtakers[q] \cup {Head(pool)} ELSE overtakers[q]]
  /\ UNCHANGED <<heap, runner, closed, handled, ctxDone, crashed>>

\* Mutant: the worker's loop is missing.
AfterForward_Exit == "exited"

AfterForward == "waiting"

\* selectDestinations and ForwardToMultipleDestinations (module ForwardCall).
Forward(w) ==
  /\ worker[w] = "busy" /\ ~crashed
  /\ handled' = handled \cup {job[w]}
  /\ job' = [job EXCEPT ![w] = None]
  /\ worker' = [worker EXCEPT ![w] = AfterForward]
  /\ UNCHANGED <<heap, runner, channel, ctxDone, crashed, overtakers>>

\* The context is done, or the channel is closed and empty.
Exit(w) ==
  /\ worker[w] = "waiting" /\ ~crashed
  /\ ctxDone \/ (closed /\ pool = <<>>)
  /\ worker' = [worker EXCEPT ![w] = "exited"]
  /\ UNCHANGED <<heap, runner, channel, job, handled, ctxDone, crashed,
                 overtakers>>

-----------------------------------------------------------------------------
\* main calls cancel().
Cancel ==
  /\ ~ctxDone /\ ~crashed
  /\ ctxDone' = TRUE
  /\ UNCHANGED <<heap, runner, channel, workers, crashed, overtakers>>

RunStep == Poll \/ Measure \/ Cut \/ Popped \/ Send \/ IdleWait
WorkerStep(w) == Take(w) \/ Forward(w) \/ Exit(w)

Next ==
  \/ \E r \in Requests : Submit(r) \/ Pushed(r)
  \/ RunStep
  \/ \E w \in Workers : WorkerStep(w)
  \/ Cancel

Spec == Init /\ [][Next]_vars

\* Runnable goroutines are scheduled, the idle timer fires, and a forward
\* ends (module Forwarder: CallReturns).  Nobody has to cancel or submit.
Fairness ==
  /\ \A r \in Requests : WF_vars(Pushed(r))
  /\ WF_vars(RunStep)
  /\ \A w \in Workers : WF_vars(WorkerStep(w))

FairSpec == Spec /\ Fairness

-----------------------------------------------------------------------------
(* Properties.                                                             *)

TypeOK ==
  /\ submit \in [Requests -> {"new", "pushing", "queued"}]
  /\ priority \in [Requests -> Priorities \cup {None}]
  /\ pq \subseteq Requests
  /\ seen \in [Requests \cup {Run} -> SUBSET Requests]
  /\ raced \subseteq Requests \cup {Run}
  /\ run \in {"loop", "polling", "popping", "cutting", "sending", "idle",
              "stopped"}
  /\ hand \in Requests \cup {None}
  /\ pool \in Seq(Requests) /\ Len(pool) <= PoolSize
  /\ closed \in BOOLEAN
  /\ worker \in [Workers -> {"waiting", "busy", "exited"}]
  /\ job \in [Workers -> Requests \cup {None}]
  /\ handled \subseteq Requests
  /\ ctxDone \in BOOLEAN
  /\ crashed \in BOOLEAN
  /\ overtakers \in [Requests -> SUBSET Requests]

InWork == {job[w] : w \in Workers} \ {None}

\* What Run has taken out of the heap, and has not sent.
InHand == IF run = "cutting" THEN {} ELSE {hand} \ {None}

\* Where a request can be once it is queued.
Places == pq \cup {hand} \cup InPool \cup InWork \cup handled

\* The damage of unsynchronised heap operations is confined to what was in the
\* heap while two of them overlapped: every other request that is queued, before
\* or after, is in the heap, in Run's hands, in the channel, with a worker, or
\* handled, though the heap it is in may be out of order.
QueuedIsKept ==
  \A r \in Requests \ raced : submit[r] = "queued" => r \in Places

\* ... in one of these places only, and in the channel or with the workers
\* once: it is not forwarded twice, though an older stale slice may be stored
\* over the one from which another request was taken.
AtMostOnce ==
  \A r \in Requests \ raced :
    /\ \A i, j \in DOMAIN pool : pool[i] = r /\ pool[j] = r => i = j
    /\ \A v, w \in Workers : job[v] = r /\ job[w] = r => v = w
    /\ r \in pq => r \notin InHand \cup InPool \cup InWork \cup handled
    /\ r \in InHand => r \notin InPool \cup InWork \cup handled
    /\ r \in InPool => r \notin InWork \cup handled
    /\ r \in InWork => r \notin handled

\* scheduler.go, where Submit returns true: "Successfully queued".  A request
\* whose Submit has returned is in the scheduler's keeping.
SubmittedIsKept ==
  ~crashed => \A r \in Requests : submit[r] = "queued" => r \in Places

\* What a queued request can lose to requests of lower priority: those that
\* already sit in the channel or in Run's hands when it is queued.
BoundedInversion ==
  \A r \in Requests : Cardinality(overtakers[r]) <= PoolSize + 1

\* The refinement mapping: what a caller of Submit sees of the requests.
Status ==
  [r \in Requests |->
     CASE submit[r] # "queued" -> "new"
       [] r \in handled -> "handled"
       [] r \in InWork -> "delivered"
       [] OTHER -> "waiting"]

QueueRank ==
  [r \in Requests |-> IF submit[r] = "queued" THEN priority[r] ELSE None]

Queue == INSTANCE RequestQueue WITH
  status <- Status, rank <- QueueRank, broken <- (raced # {}),
  Ranks <- Priorities, NoRank <- None, Slack <- PoolSize + 1

\* As long as no two heap operations have overlapped, heap, channel and workers
\* together deliver each accepted request once, in the order of priority but
\* for PoolSize + 1 requests.
ImplementsQueue == Queue!Spec

\* A queued request is handled, unless the services are being stopped or heap
\* operations have overlapped.
QueuedIsHandled ==
  \A r \in Requests :
    submit[r] = "queued" ~> r \in handled \/ ctxDone \/ raced # {}

\* After cancel(), Run returns and every worker exits, whatever they were
\* waiting for: the queue, the channel, the idle timer or a forward; even if
\* the heap is in disorder, unless that crashes the process.
ShutdownCompletes ==
  ctxDone ~> \/ crashed
             \/ run = "stopped" /\ \A w \in Workers : worker[w] = "exited"
=============================================================================
