-------------------------- MODULE LifecycleProofs --------------------------
(***************************************************************************)
(* Lifecycle implements Scheduler, and so TInv holds in it; with that, for *)
(* any requests, workers and services: the services have returned when     *)
(* main says so, no handler is cut off before the deadline, and of what is *)
(* acknowledged after cancel() at most one request leaves the heap.  Heap  *)
(* operations may overlap throughout.                                      *)
(*                                                                         *)
(* The invariant counts with the wait group: it is the number of services  *)
(* that were spawned and have not returned, so it is zero only when all    *)
(* are back, one that had not begun when the signal came included.  A      *)
(* request acknowledged after cancel() is not submitted yet, so it is not  *)
(* among those Run has passed on; and only the one pop that Run had begun, *)
(* or was about to begin, can add a request to them then.                  *)
(***************************************************************************)
EXTENDS Lifecycle, SchedulerProofs

\* LifeTypeOK without Scheduler's part and the bounds of wg.
OwnTypes ==
  /\ main \in {"boot", "notified", "started", "awaiting", "cancelling",
               "waiting", "draining", "closing", "exited"}
  /\ exit \in {"none", "failed", "killed", "fatal", "graceful"}
  /\ (exit = "none") = (main # "exited")
  /\ sigChan \in BOOLEAN /\ timedOut \in BOOLEAN
  /\ service \in [Services -> {"new", "spawned", "running", "returned"}]
  /\ server \in {"off", "launched", "listening", "closed"}
  /\ http \in [Requests -> {"none", "serving", "returning", "returned", "accepted"}]
  /\ late \subseteq Requests

\* The services for which the wait group waits.
Unreturned == {s \in Services : service[s] \in {"spawned", "running"}}

WaitGroup == wg = Cardinality(Unreturned)

\* How far the services and the server are, by where main is.
Staged ==
  /\ main \in {"boot", "notified"} => \A s \in Services : service[s] = "new"
  /\ main \notin {"boot", "notified", "exited"} =>
       \A s \in Services : service[s] # "new"
  /\ ServicesStopped => /\ \A s \in Services : service[s] = "returned"
                        /\ server = "closed"

\* The scheduler's Run closes the channel before it returns.
RunReturned ==
  /\ run = "stopped" => closed
  /\ service[SchedulerService] = "returned" => run = "stopped"

\* Shutdown returned because no handler was left, unless it gave up.
HandlersReturned ==
  (main = "closing" \/ exit = "graceful") /\ ~timedOut =>
    \A r \in Requests : ~Handling(r)

\* A request is submitted after its acknowledgement; of those acknowledged after
\* cancel(), Run chooses one at most, in a pop for which it had passed its check
\* of the context before.
LateState ==
  /\ ServicesCancelled \/ late # {} => ctxDone
  /\ \A r \in Requests : http[r] \in {"none", "serving"} => submit[r] = "new"
  /\ ctxDone /\ run \in {"polling", "popping"} => late \cap Passed = {}
  /\ \E x \in Requests \cup {None} : late \cap Passed \subseteq {x}

LInv ==
  /\ TInv /\ OwnTypes /\ WaitGroup /\ Staged
  /\ RunReturned /\ HandlersReturned /\ LateState

USE SchedulerAssumption
DEF heap, runner, channel, workers, serverVars, serviceVars, historyVars, lifeVars

-----------------------------------------------------------------------------
(* Lifecycle implements Scheduler.                                         *)

\* Every step of the process is a step of the scheduler or leaves it alone.
LEMMA StepOfScheduler == [LifeNext]_systemVars => [Next]_vars
<1> SUFFICES ASSUME [LifeNext]_systemVars
             PROVE  [Next]_vars
  OBVIOUS
<1>1. CASE MainStep
  BY <1>1 DEF Next, MainStep, Boot, StartAll, StartServers, ReceiveSignal,
              CancelServices, WaitForAll, Shutdown, Return
<1>2. CASE Signal \/ ServerFails \/ Listen
  BY <1>2 DEF Signal, ServerFails, Listen
<1>3. ASSUME NEW s \in Services, Begin(s) \/ Returns(s)
      PROVE  [Next]_vars
  BY <1>3 DEF Begin, Returns
<1>4. ASSUME NEW w \in Workers, Worker(w)
      PROVE  [Next]_vars
  BY <1>4 DEF Next, Worker
<1>5. CASE SchedulerRuns
  BY <1>5 DEF Next, SchedulerRuns
<1>6. ASSUME NEW r \in Requests,
             \/ Arrive(r) \/ Refuse(r) \/ Acknowledge(r) \/ ServeReturns(r)
             \/ Poster(r)
      PROVE  [Next]_vars
  BY <1>6 DEF Next, Arrive, Refuse, Acknowledge, ServeReturns, Poster
<1>7. CASE UNCHANGED systemVars
  BY <1>7 DEF systemVars
<1> QED
  BY <1>1, <1>2, <1>3, <1>4, <1>5, <1>6, <1>7 DEF LifeNext

\* Every behaviour of Lifecycle is one of Scheduler.
THEOREM ImplementsScheduler == LifeSpec => Spec
<1>1. LifeInit => Init
  BY DEF LifeInit
<1> QED
  BY <1>1, StepOfScheduler, PTL DEF LifeSpec, Spec

-----------------------------------------------------------------------------
(* The services as a finite set.                                           *)

LEMMA ServicesFinite == IsFiniteSet(Services)
BY LifecycleAssumption, FS_AddElement DEF Services

LEMMA UnreturnedFinite ==
  IsFiniteSet(Unreturned) /\ Cardinality(Unreturned) \in 0..Cardinality(Services)
<1>1. Unreturned \subseteq Services
  BY DEF Unreturned
<1> QED
  BY <1>1, ServicesFinite, FS_Subset, FS_CardinalityType

-----------------------------------------------------------------------------
LEMMA InitLInv == LifeInit => LInv
<1> SUFFICES ASSUME LifeInit PROVE LInv
  OBVIOUS
<1>1. TInv
  BY InitTInv DEF LifeInit
<1>2. OwnTypes /\ Staged /\ RunReturned /\ HandlersReturned
  BY DEF LifeInit, Init, OwnTypes, Staged, RunReturned, HandlersReturned,
         ServicesStopped, Handling, Services
<1>3. WaitGroup
  <2>1. Unreturned = {}
    BY DEF LifeInit, Unreturned
  <2> QED
    BY <2>1, FS_EmptySet DEF LifeInit, WaitGroup
<1>4. LateState
  BY DEF LifeInit, Init, LateState, ServicesCancelled, Passed
<1> QED
  BY <1>1, <1>2, <1>3, <1>4 DEF LInv

-----------------------------------------------------------------------------
(* Steps, one conjunct of the invariant after the other.                   *)

LEMMA StepOwnTypes ==
  ASSUME OwnTypes, LifeNext
  PROVE  OwnTypes'
<1>1. CASE MainStep
  BY <1>1 DEF OwnTypes, LifeNext, Alive, MainStep, Boot, StartAll, StartServers,
       ReceiveSignal, CancelServices, WaitForAll, Shutdown, Return, End
<1>2. CASE Signal \/ ServerFails \/ Listen
  BY <1>2 DEF OwnTypes, LifeNext, Alive, Signal, ServerFails, Listen, End
<1>3. ASSUME NEW s \in Services, Begin(s) \/ Returns(s)
      PROVE  OwnTypes'
  BY <1>3 DEF OwnTypes, Begin, Returns
<1>4. CASE SchedulerRuns \/ (\E w \in Workers : Worker(w))
             \/ (\E r \in Requests : Poster(r))
  BY <1>4 DEF OwnTypes, SchedulerRuns, Worker, Poster
<1>5. ASSUME NEW r \in Requests,
             Arrive(r) \/ Refuse(r) \/ Acknowledge(r) \/ ServeReturns(r)
      PROVE  OwnTypes'
  BY <1>5 DEF OwnTypes, Arrive, Refuse, Acknowledge, ServeReturns
<1> QED
  BY <1>1, <1>2, <1>3, <1>4, <1>5 DEF LifeNext

\* wg.Add and the spawning of the goroutines are one step of main, before any
\* of them can call wg.Done.
LEMMA StepWaitGroup ==
  ASSUME OwnTypes, WaitGroup, Staged, LifeNext
  PROVE  WaitGroup'
<1>1. CASE StartAll
  <2>1. Unreturned = {}
    BY <1>1 DEF StartAll, Staged, Unreturned
  <2>2. wg = 0
    BY <2>1, FS_EmptySet DEF WaitGroup
  <2>3. Unreturned' = Services /\ wg' = wg + Cardinality(Services)
    BY <1>1 DEF StartAll, Unreturned, Added
  <2> QED
    BY <2>2, <2>3, ServicesFinite, FS_CardinalityType DEF WaitGroup
<1>2. ASSUME NEW s \in Services, Begin(s)
      PROVE  WaitGroup'
  <2>1. wg' = wg /\ Unreturned' = Unreturned
    BY <1>2 DEF Begin, Unreturned, OwnTypes
  <2> QED
    BY <2>1 DEF WaitGroup
<1>3. ASSUME NEW s \in Services, Returns(s)
      PROVE  WaitGroup'
  <2>1. /\ s \in Unreturned /\ wg' = wg - 1
        /\ Unreturned' = Unreturned \ {s}
    BY <1>3 DEF Returns, Unreturned, OwnTypes
  <2> QED
    BY <2>1, UnreturnedFinite, FS_RemoveElement DEF WaitGroup
<1>4. CASE UNCHANGED serviceVars
  BY <1>4 DEF WaitGroup, Unreturned
<1>5. \/ UNCHANGED serviceVars \/ StartAll
      \/ \E s \in Services : Begin(s) \/ Returns(s)
  BY DEF LifeNext, MainStep, Boot, StartServers, ReceiveSignal, CancelServices,
         WaitForAll, Shutdown, Return, Signal, ServerFails, Listen,
         SchedulerRuns, Worker, Arrive, Refuse, Acknowledge, ServeReturns, Poster
<1> QED
  BY <1>1, <1>2, <1>3, <1>4, <1>5

\* WaitForAll returns only when no service is left.
LEMMA StepStaged ==
  ASSUME OwnTypes, WaitGroup, Staged, LifeNext
  PROVE  Staged'
<1>0. Alive
  BY DEF LifeNext
<1>1. CASE WaitForAll
  <2>1. Unreturned = {}
    BY <1>1, UnreturnedFinite, FS_EmptySet DEF WaitForAll, AllDone, WaitGroup
  <2>2. \A s \in Services : service[s] = "returned"
    BY <1>1, <2>1 DEF WaitForAll, Staged, Unreturned, OwnTypes
  <2> QED
    BY <1>1, <2>2 DEF WaitForAll, Staged, ServicesStopped
<1>2. CASE Boot \/ StartAll \/ StartServers \/ ReceiveSignal \/ CancelServices
             \/ Shutdown \/ Return
  BY <1>0, <1>2 DEF Staged, ServicesStopped, OwnTypes, Alive, Boot, StartAll,
       StartServers, ReceiveSignal, CancelServices, Shutdown, Return, End
<1>3. CASE Signal \/ ServerFails \/ Listen
  BY <1>0, <1>3 DEF Staged, ServicesStopped, OwnTypes, Alive, Signal,
       ServerFails, Listen, End
<1>4. ASSUME NEW s \in Services, Begin(s) \/ Returns(s)
      PROVE  Staged'
  BY <1>0, <1>4 DEF Staged, ServicesStopped, OwnTypes, Begin, Returns
<1>5. CASE UNCHANGED <<main, exit, service, server>>
  BY <1>5 DEF Staged, ServicesStopped
<1>6. ASSUME NEW r \in Requests,
             Arrive(r) \/ Refuse(r) \/ Acknowledge(r) \/ ServeReturns(r) \/ Poster(r)
      PROVE  UNCHANGED <<main, exit, service, server>>
  BY <1>6 DEF Arrive, Refuse, Acknowledge, ServeReturns, Poster
<1>7. ASSUME SchedulerRuns \/ \E w \in Workers : Worker(w)
      PROVE  UNCHANGED <<main, exit, service, server>>
  BY <1>7 DEF SchedulerRuns, Worker
<1> QED
  BY <1>1, <1>2, <1>3, <1>4, <1>5, <1>6, <1>7 DEF LifeNext, MainStep

\* Run stops only by closing the channel, and does not step again.
LEMMA RunStops ==
  ASSUME [Next]_vars, run = "stopped" => closed
  PROVE  /\ run' = "stopped" => closed'
         /\ run = "stopped" => run' = "stopped"
<1>1. ASSUME NEW r \in Requests, Submit(r) \/ Pushed(r)
      PROVE  UNCHANGED <<run, closed>>
  BY <1>1 DEF Submit, Pushed, Corrupt
<1>2. ASSUME NEW w \in Workers, WorkerStep(w)
      PROVE  UNCHANGED <<run, closed>>
  BY <1>2 DEF WorkerStep, Take, Forward, Exit
<1>3. CASE RunStep
  BY <1>3 DEF RunStep, Poll, Measure, Cut, Popped, Send, IdleWait, Stop, Corrupt
<1>4. CASE Cancel \/ UNCHANGED vars
  BY <1>4 DEF Cancel, vars
<1> QED
  BY <1>1, <1>2, <1>3, <1>4 DEF Next

LEMMA StepRunReturned ==
  ASSUME OwnTypes, RunReturned, LifeNext
  PROVE  RunReturned'
<1>1. /\ run' = "stopped" => closed'
      /\ run = "stopped" => run' = "stopped"
  BY StepOfScheduler, RunStops DEF RunReturned
<1>2. ASSUME NEW s \in Services, Begin(s) \/ Returns(s)
      PROVE  RunReturned'
  BY <1>1, <1>2 DEF Begin, Returns, OwnTypes, RunReturned, Services
<1>3. CASE StartAll
  BY <1>1, <1>3 DEF StartAll, RunReturned, Services
<1>4. CASE UNCHANGED service
  BY <1>1, <1>4 DEF RunReturned
<1>5. \/ UNCHANGED service \/ StartAll
      \/ \E s \in Services : Begin(s) \/ Returns(s)
  BY DEF LifeNext, MainStep, Boot, StartServers, ReceiveSignal, CancelServices,
         WaitForAll, Shutdown, Return, Signal, ServerFails, Listen,
         SchedulerRuns, Worker, Arrive, Refuse, Acknowledge, ServeReturns, Poster
<1> QED
  BY <1>2, <1>3, <1>4, <1>5

\* While Shutdown waits the server is closed: no handler starts any more.
LEMMA StepHandlersReturned ==
  ASSUME OwnTypes, Staged, HandlersReturned, LifeNext
  PROVE  HandlersReturned'
<1>0. Alive
  BY DEF LifeNext
<1>1. CASE Shutdown
  BY <1>0, <1>1 DEF Shutdown, Drained, HandlersReturned, Handling, OwnTypes, Alive
<1>2. CASE Return
  BY <1>2 DEF Return, End, HandlersReturned, Handling
<1>3. CASE Boot \/ StartAll \/ StartServers \/ ReceiveSignal \/ CancelServices
             \/ WaitForAll
  BY <1>0, <1>3 DEF Boot, StartAll, StartServers, ReceiveSignal, CancelServices,
       WaitForAll, End, HandlersReturned, OwnTypes, Alive
<1>4. CASE Signal \/ ServerFails \/ Listen
  BY <1>0, <1>4 DEF Signal, ServerFails, Listen, End, HandlersReturned, Handling,
       OwnTypes, Alive
<1>5. ASSUME NEW r \in Requests, Arrive(r)
      PROVE  HandlersReturned'
  BY <1>0, <1>5 DEF Arrive, Staged, ServicesStopped, HandlersReturned, OwnTypes,
       Alive
<1>6. ASSUME NEW r \in Requests, Refuse(r) \/ Acknowledge(r) \/ ServeReturns(r)
      PROVE  HandlersReturned'
  <2>1. \A q \in Requests : Handling(q)' => Handling(q)
    BY <1>6 DEF Refuse, Acknowledge, ServeReturns, Handling, OwnTypes
  <2>2. UNCHANGED <<main, exit, timedOut>>
    BY <1>6 DEF Refuse, Acknowledge, ServeReturns
  <2> QED
    BY <2>1, <2>2 DEF HandlersReturned
<1>7. ASSUME UNCHANGED <<main, exit, timedOut, http>>
      PROVE  HandlersReturned'
  BY <1>7 DEF HandlersReturned, Handling
<1>8. ASSUME NEW s \in Services, Begin(s) \/ Returns(s)
      PROVE  UNCHANGED <<main, exit, timedOut, http>>
  BY <1>8 DEF Begin, Returns
<1>9. ASSUME \/ SchedulerRuns \/ \E w \in Workers : Worker(w)
             \/ \E r \in Requests : Poster(r)
      PROVE  UNCHANGED <<main, exit, timedOut, http>>
  BY <1>9 DEF SchedulerRuns, Worker, Poster
<1> QED
  BY <1>1, <1>2, <1>3, <1>4, <1>5, <1>6, <1>7, <1>8, <1>9 DEF LifeNext, MainStep

-----------------------------------------------------------------------------
(* What is acknowledged late.                                              *)

\* After cancel() Run begins no new round: what it has passed on grows only by
\* the request it chooses in a round that had begun before.
LEMMA OnePassedMore ==
  ASSUME TInv, ctxDone, [Next]_vars
  PROVE  \/ /\ Passed' \subseteq Passed \cup {None}
            /\ run' \in {"polling", "popping"} => run \in {"polling", "popping"}
         \/ /\ run = "popping" /\ run' = "cutting"
            /\ \E x \in Requests : Passed' \subseteq Passed \cup {x}
<1> USE DEF TInv
<1>1. ASSUME NEW r \in Requests, Submit(r) \/ Pushed(r)
      PROVE  run' = run /\ Passed' = Passed
  BY <1>1 DEF Submit, Pushed, Corrupt, Passed, InPool, InWork
<1>2. CASE Poll \/ IdleWait \/ (Send /\ Stop)
  <2>1. UNCHANGED <<hand, pool, job, handled>> /\ run' \in {"stopped", "loop"}
    BY <1>2 DEF Poll, IdleWait, Send, Stop
  <2> QED
    BY <2>1 DEF Passed, InPool, InWork
<1>3. CASE Measure \/ Popped
  <2>1. /\ UNCHANGED <<hand, pool, job, handled>>
        /\ run' \in {"polling", "popping"} => run \in {"polling", "popping"}
    BY <1>3 DEF Measure, Popped, Corrupt
  <2> QED
    BY <2>1 DEF Passed, InPool, InWork
<1>4. CASE Cut
  <2>1. CASE Corrupt
    BY <2>1 DEF Corrupt, Passed, InPool, InWork
  <2>2. CASE ~Corrupt
    <3>1. /\ run = "popping" /\ run' = "cutting" /\ hand' \in pq
          /\ UNCHANGED <<pool, job, handled>>
      BY <1>4, <2>2 DEF Cut, Candidates, Top
    <3>2. hand' \in Requests /\ Passed' \subseteq Passed \cup {hand'}
      BY <3>1 DEF Passed, InPool, InWork, TypeOK
    <3> QED
      BY <3>1, <3>2
  <2> QED
    BY <2>1, <2>2
<1>5. CASE Send /\ ~Stop
  <2>1. /\ run = "sending" /\ run' = "loop" /\ hand' = None
        /\ pool' = Append(pool, hand) /\ UNCHANGED <<job, handled>>
    BY <1>5 DEF Send
  <2>2. hand \in Requests /\ pool \in Seq(Requests)
    BY <2>1 DEF TypeOK, HandState
  <2>3. InPool' = InPool \cup {hand} /\ InWork' = InWork
    BY <2>1, <2>2, PoolAppend DEF InPool, InWork
  <2> QED
    BY <2>1, <2>3 DEF Passed
<1>6. ASSUME NEW w \in Workers, Take(w)
      PROVE  run' = run /\ Passed' \subseteq Passed \cup {None}
  <2>1. /\ pool # <<>> /\ pool' = Tail(pool)
        /\ job' = [job EXCEPT ![w] = Head(pool)]
        /\ UNCHANGED <<run, hand, handled>>
    BY <1>6 DEF Take
  <2>2. Head(pool) \in InPool /\ InPool' \subseteq InPool
    <3>1. /\ Head(pool) = pool[1] /\ Len(pool) \in Nat \ {0}
          /\ DOMAIN pool' = 1..(Len(pool) - 1) /\ DOMAIN pool = 1..Len(pool)
          /\ \A i \in 1..(Len(pool) - 1) : pool'[i] = pool[i + 1]
      BY <2>1, PoolTail DEF TypeOK
    <3>2. 1 \in 1..Len(pool) /\ \A i \in 1..(Len(pool) - 1) : i + 1 \in 1..Len(pool)
      BY <3>1
    <3> QED
      BY <3>1, <3>2 DEF InPool
  <2>3. InWork' \subseteq InWork \cup {Head(pool)}
    BY <2>1 DEF InWork, TypeOK
  <2> QED
    BY <2>1, <2>2, <2>3 DEF Passed
<1>7. ASSUME NEW w \in Workers, Forward(w) \/ Exit(w)
      PROVE  run' = run /\ Passed' \subseteq Passed \cup {None}
  <2>1. /\ UNCHANGED <<run, hand, pool>>
        /\ \/ UNCHANGED <<job, handled>>
           \/ /\ job' = [job EXCEPT ![w] = None] /\ worker[w] = "busy"
              /\ handled' = handled \cup {job[w]}
    BY <1>7 DEF Forward, Exit
  <2>2. InPool' = InPool
    BY <2>1 DEF InPool
  <2>3. InWork' \subseteq InWork /\ handled' \subseteq handled \cup InWork
    BY <2>1 DEF InWork, TypeOK, HandState
  <2> QED
    BY <2>1, <2>2, <2>3 DEF Passed
<1>8. CASE Cancel \/ UNCHANGED vars
  BY <1>8 DEF Cancel, vars, Passed, InPool, InWork
<1> QED
  BY <1>1, <1>2, <1>3, <1>4, <1>5, <1>6, <1>7, <1>8 DEF Next, RunStep, WorkerStep

\* A request that is acknowledged now has not been submitted, so Run has not
\* passed it on.
LEMMA StepLateState ==
  ASSUME TInv, OwnTypes, LateState, LifeNext
  PROVE  LateState'
<1>0. [Next]_vars /\ Alive
  BY StepOfScheduler DEF LifeNext
<1> DEFINE OneAtMost ==
      /\ run' \in {"polling", "popping"} => late \cap Passed' = {}
      /\ \E x \in Requests \cup {None} : late \cap Passed' \subseteq {x}
<1>1. ASSUME ctxDone
      PROVE  ctxDone' /\ OneAtMost
  <2>1. ctxDone'
    BY <1>0, <1>1 DEF Next, Submit, Pushed, RunStep, Poll, Measure, Cut, Popped,
         Send, IdleWait, Stop, Corrupt, WorkerStep, Take, Forward, Exit, Cancel, vars
  <2>2. None \notin late
    BY DEF OwnTypes
  <2>3. CASE /\ Passed' \subseteq Passed \cup {None}
             /\ run' \in {"polling", "popping"} => run \in {"polling", "popping"}
    <3>1. late \cap Passed' \subseteq late \cap Passed
      BY <2>2, <2>3
    <3> QED
      BY <1>1, <2>1, <2>3, <3>1 DEF LateState
  <2>4. CASE /\ run = "popping" /\ run' = "cutting"
             /\ \E x \in Requests : Passed' \subseteq Passed \cup {x}
    BY <1>1, <2>1, <2>4 DEF LateState
  <2> QED
    BY <1>0, <1>1, <2>3, <2>4, OnePassedMore
<1>2. ASSUME ~ctxDone
      PROVE  late = {} /\ ~ServicesCancelled
  BY <1>2 DEF LateState
<1>3. ASSUME late' = late, ServicesCancelled' => ServicesCancelled \/ ctxDone',
             \A r \in Requests :
               http'[r] \in {"none", "serving"} => submit'[r] = "new"
      PROVE  LateState'
  <2>1. ~ctxDone => late \cap Passed' = {}
    BY <1>2
  <2> QED
    BY <1>1, <1>2, <1>3, <2>1 DEF LateState
<1>4. ASSUME late' = late, ServicesCancelled' => ServicesCancelled \/ ctxDone',
             UNCHANGED <<http, submit>>
      PROVE  LateState'
  BY <1>3, <1>4 DEF LateState
<1>5. CASE MainStep
  <2>1. late' = late /\ UNCHANGED <<http, submit>>
    BY <1>5 DEF MainStep, Boot, StartAll, StartServers, ReceiveSignal,
         CancelServices, Cancel, WaitForAll, Shutdown, Return, vars
  <2>2. ServicesCancelled' => ServicesCancelled \/ ctxDone'
    BY <1>5 DEF MainStep, Boot, StartAll, StartServers, ReceiveSignal,
         CancelServices, Cancel, WaitForAll, Shutdown, Return, End,
         ServicesCancelled
  <2> QED
    BY <1>4, <2>1, <2>2
<1>6. CASE Signal \/ ServerFails \/ Listen
             \/ \E s \in Services : Begin(s) \/ Returns(s)
  <2>1. late' = late /\ UNCHANGED <<http, submit>>
    BY <1>6 DEF Signal, ServerFails, Listen, Begin, Returns, vars
  <2>2. ServicesCancelled' => ServicesCancelled
    BY <1>6 DEF Signal, ServerFails, Listen, Begin, Returns, End,
         ServicesCancelled
  <2> QED
    BY <1>4, <2>1, <2>2
<1>7. CASE SchedulerRuns \/ \E w \in Workers : Worker(w)
  <2>1. late' = late /\ UNCHANGED <<http, submit>>
    BY <1>7 DEF SchedulerRuns, Worker, RunStep, Poll, Measure, Cut, Popped, Send,
         IdleWait, Stop, Corrupt, WorkerStep, Take, Forward, Exit
  <2>2. ServicesCancelled' => ServicesCancelled
    BY <1>7 DEF SchedulerRuns, Worker, ServicesCancelled
  <2> QED
    BY <1>4, <2>1, <2>2
<1>8. ASSUME NEW q \in Requests, Poster(q)
      PROVE  LateState'
  <2>1. /\ late' = late /\ http' = http /\ main' = main
        /\ http[q] \notin {"none", "serving"}
    BY <1>8 DEF Poster
  <2>2. \A r \in Requests : r # q => submit'[r] = submit[r]
    BY <1>8 DEF Poster, Submit, Pushed, Corrupt, TInv, TypeOK
  <2>3. \A r \in Requests :
          http'[r] \in {"none", "serving"} => submit'[r] = "new"
    BY <2>1, <2>2 DEF LateState
  <2> QED
    BY <1>3, <2>1, <2>3 DEF ServicesCancelled
<1>9. ASSUME NEW q \in Requests, Arrive(q) \/ Refuse(q) \/ ServeReturns(q)
      PROVE  LateState'
  <2>1. /\ late' = late /\ submit' = submit /\ main' = main
        /\ \A r \in Requests : http'[r] \in {"none", "serving"} =>
             http[r] \in {"none", "serving"}
    BY <1>9 DEF Arrive, Refuse, ServeReturns, OwnTypes, vars
  <2>2. \A r \in Requests :
          http'[r] \in {"none", "serving"} => submit'[r] = "new"
    BY <2>1 DEF LateState
  <2> QED
    BY <1>3, <2>1, <2>2 DEF ServicesCancelled
<1>10. ASSUME NEW q \in Requests, Acknowledge(q)
       PROVE  LateState'
  <2>1. /\ http[q] = "serving" /\ http' = [http EXCEPT ![q] = "returning"]
        /\ late' = IF ServicesCancelled THEN late \cup {q} ELSE late
        /\ UNCHANGED vars /\ main' = main
    BY <1>10 DEF Acknowledge
  <2>2. \A r \in Requests :
          http'[r] \in {"none", "serving"} => submit'[r] = "new"
    BY <2>1 DEF LateState, OwnTypes, vars
  <2>3. q \notin Passed
    <3>1. submit[q] = "new"
      BY <2>1 DEF LateState
    <3> QED
      BY <3>1 DEF TInv, NewIsNowhere, Places, Passed
  <2>4. late' \cap Passed' = late \cap Passed /\ UNCHANGED <<run, ctxDone>>
    <3>1. Passed' = Passed
      BY <2>1 DEF vars, Passed, InPool, InWork
    <3> QED
      BY <2>1, <2>3, <3>1 DEF vars
  <2>5. ServicesCancelled' \/ late' # {} => ctxDone'
    BY <2>1 DEF LateState, ServicesCancelled, vars
  <2> QED
    BY <2>2, <2>4, <2>5 DEF LateState
<1> QED
  BY <1>5, <1>6, <1>7, <1>8, <1>9, <1>10 DEF LifeNext

-----------------------------------------------------------------------------
LEMMA StepLInv == LInv /\ [LifeNext]_systemVars => LInv'
<1> SUFFICES ASSUME LInv, [LifeNext]_systemVars
             PROVE  LInv'
  OBVIOUS
<1>1. TInv'
  BY StepOfScheduler, StepTInv DEF LInv
<1>2. CASE LifeNext
  BY <1>1, <1>2, StepOwnTypes, StepWaitGroup, StepStaged, StepRunReturned,
     StepHandlersReturned, StepLateState DEF LInv
<1>3. CASE UNCHANGED systemVars
  <2>1. UNCHANGED vars /\ UNCHANGED lifeVars
    BY <1>3 DEF systemVars
  <2>2. UNCHANGED <<Unreturned, Passed>>
    BY <2>1 DEF Unreturned, Passed, InPool, InWork, vars
  <2> QED
    BY <1>1, <2>1, <2>2 DEF LInv, OwnTypes, WaitGroup, Staged, RunReturned,
         HandlersReturned, LateState, ServicesStopped, ServicesCancelled,
         Handling, vars
<1> QED
  BY <1>2, <1>3

\* The inductive invariant holds throughout.
THEOREM LifeInvariance == LifeSpec => []LInv
BY InitLInv, StepLInv, PTL DEF LifeSpec

-----------------------------------------------------------------------------
\* Scheduler, main, services, servers and handlers keep their types, and the
\* wait group's counter is never negative, for which sync.WaitGroup panics.
THEOREM LifeTypeCorrect == LifeSpec => []LifeTypeOK
<1>1. LInv => LifeTypeOK
  <2> SUFFICES ASSUME LInv PROVE LifeTypeOK
    OBVIOUS
  <2>1. wg \in 0..Cardinality(Services)
    BY UnreturnedFinite DEF LInv, WaitGroup
  <2> QED
    BY <2>1 DEF LInv, TInv, OwnTypes, LifeTypeOK
<1> QED
  BY <1>1, LifeInvariance, PTL

\* When main says that all services have stopped, they have, and the channel
\* to the workers is closed.
THEOREM ServicesBack == LifeSpec => []AllServicesReturned
<1>1. LInv => AllServicesReturned
  BY DEF LInv, Staged, RunReturned, AllServicesReturned, Services
<1> QED
  BY <1>1, LifeInvariance, PTL

\* main returns before a handler does only if Shutdown's deadline has passed.
THEOREM NotCutOff == LifeSpec => []NoHandlerCutOff
<1>1. LInv => NoHandlerCutOff
  BY DEF LInv, HandlersReturned, NoHandlerCutOff
<1> QED
  BY <1>1, LifeInvariance, PTL

\* Of what is acknowledged after cancel(), at most one request leaves the heap.
THEOREM LateBounded == LifeSpec => []AtMostOneLate
<1>1. LInv => AtMostOneLate
  <2> SUFFICES ASSUME LInv PROVE Cardinality(late \cap Passed) <= 1
    BY DEF AtMostOneLate
  <2>1. PICK x \in Requests \cup {None} : late \cap Passed \subseteq {x}
    BY DEF LInv, LateState
  <2>2. late \cap Passed = {} \/ late \cap Passed = {x}
    BY <2>1
  <2> QED
    BY <2>2, FS_EmptySet, FS_Singleton
<1> QED
  BY <1>1, LifeInvariance, PTL

\* main never waits for nobody: while WaitForAll blocks, the context is
\* cancelled and there is a service that has still to begin or to return.
NeverWaitsForNobody ==
  main = "waiting" /\ ~AllDone =>
    ctxDone /\ \E s \in Services : service[s] \in {"spawned", "running"}

\* Whatever was running when the signal came, no wg.Done is missing.
THEOREM WaitHasEnd == LifeSpec => []NeverWaitsForNobody
<1>1. LInv => NeverWaitsForNobody
  <2> SUFFICES ASSUME LInv, main = "waiting", wg # 0
               PROVE  ctxDone /\ Unreturned # {}
    BY DEF NeverWaitsForNobody, AllDone, Unreturned
  <2>1. ctxDone
    BY DEF LInv, LateState, ServicesCancelled
  <2>2. Unreturned # {}
    BY FS_EmptySet DEF LInv, WaitGroup
  <2> QED
    BY <2>1, <2>2
<1> QED
  BY <1>1, LifeInvariance, PTL

\* After main's cancel() the scheduler takes a bounded number of steps, in the
\* whole program as well: Run returns after them, and main need not wait longer.
THEOREM SchedulerEnds == LifeSpec => ShutdownProgress
BY ImplementsScheduler, ShutdownEnds, PTL
=============================================================================
