---------------------------- MODULE RouterProofs ----------------------------
(***************************************************************************)
(* Router implements Scheduler, and so everything proved of Scheduler      *)
(* holds in it; with that, for any requests, destinations and workers,     *)
(* only admitted dispatches reach a destination, and only those that were  *)
(* in the heap while heap operations overlapped can reach one twice.       *)
(*                                                                         *)
(* The invariant follows a request from the handler to the worker: it is   *)
(* submitted only by its goroutine, which exists only once the dispatch    *)
(* has been acknowledged, and a request that is not submitted is nowhere   *)
(* in the scheduler (TInv), so that no worker can send it.  A worker sends *)
(* to the destinations it has selected and not sent to yet, so a second    *)
(* POST to one of them needs a second worker, or a second turn of the      *)
(* request in the channel, both of which AtMostOnce excludes.              *)
(***************************************************************************)
EXTENDS Router, SchedulerProofs

\* RouterTypeOK without Scheduler's part.
OwnTypes ==
  /\ kind \in [Requests -> Auths \X Ops]
  /\ http \in [Requests -> {"none", "reading", "serving", "throttled",
                            "returning", "returned"}]
  /\ reply \in [Requests -> {"none", "200", "400", "401", "429", "500"}]
  /\ poster \in [Requests -> {"none", "submit", "done"}]
  /\ reported \in [Requests -> {"none", "success", "failure"}]
  /\ reqDone \in [Requests -> BOOLEAN]
  /\ left \in [Workers -> SUBSET Dests]
  /\ sent \in [Requests -> SUBSET Dests]
  /\ resent \subseteq Requests /\ unsent \subseteq Requests

\* What is known of one request.
Traced(r) ==
  /\ sent[r] # {} => submit[r] # "new"
  /\ submit[r] # "new" => poster[r] # "none"
  /\ poster[r] # "none" =>
       /\ kind[r] = <<"verified", "dispatch">> /\ reply[r] = "200"
       /\ http[r] \in {"returning", "returned"}

RInv == OwnTypes /\ \A r \in Requests : Traced(r)

\* A request not at risk is sent by a worker that has it, to destinations that
\* this worker has not served yet.
SentInTurn ==
  \A r \in Requests \ raced :
    /\ r \notin resent
    /\ sent[r] # {} => r \in InWork \cup handled
    /\ \A w \in Workers : job[w] = r => sent[r] \cap left[w] = {}

USE SchedulerAssumption DEF heap, runner, channel, workers, handlerVars, forwardVars

-----------------------------------------------------------------------------
(* Router implements Scheduler.                                            *)

LEMMA StepOfScheduler == [RouterNext]_allVars => [Next]_vars
<1> SUFFICES ASSUME [RouterNext]_allVars
             PROVE  [Next]_vars
  OBVIOUS
<1>1. ASSUME NEW r \in Requests,
             \/ \E k \in Kinds : Arrive(r, k)
             \/ ReadBody(r) \/ Serve(r) \/ Disconnect(r) \/ Deliver(r)
      PROVE  [Next]_vars
  BY <1>1 DEF Next, Arrive, Serve, Respond, Throttle, ReportThrottled,
              Acknowledge, ReturnHTTP, ReadBody, Disconnect, Deliver,
              CallSubmit, SubmitReturns, ReportSubmitted
<1>2. ASSUME NEW w \in Workers, Work(w)
      PROVE  [Next]_vars
  BY <1>2 DEF Next, WorkerStep, Work, TakeRequest, Post, EndForward, ExitWorker
<1>3. CASE RunStep \/ Cancel
  BY <1>3 DEF Next
<1>4. CASE UNCHANGED allVars
  BY <1>4 DEF allVars
<1> QED
  BY <1>1, <1>2, <1>3, <1>4 DEF RouterNext

\* Every behaviour of Router is one of Scheduler.
THEOREM ImplementsScheduler == RouterSpec => Spec
<1>1. RouterInit => Init
  BY DEF RouterInit
<1> QED
  BY <1>1, StepOfScheduler, PTL DEF RouterSpec, Spec

-----------------------------------------------------------------------------
(* What the scheduler's steps leave of a request.                          *)

\* A request that is queued stays so, and one that a worker has stays with
\* the workers.
LEMMA SchedulerKeeps ==
  ASSUME TInv, [Next]_vars, NEW r \in Requests
  PROVE  /\ submit[r] = "queued" => submit'[r] = "queued"
         /\ submit[r] # "new" => submit'[r] # "new"
         /\ r \in InWork \cup handled => r \in (InWork \cup handled)'
<1> USE DEF TInv, TypeOK
<1>1. ASSUME NEW q \in Requests, Submit(q) \/ Pushed(q)
      PROVE  /\ submit[r] = "queued" => submit'[r] = "queued"
             /\ submit[r] # "new" => submit'[r] # "new"
             /\ UNCHANGED <<job, handled>>
  BY <1>1 DEF Submit, Pushed, Corrupt
<1>2. CASE RunStep \/ Cancel \/ UNCHANGED vars
  BY <1>2 DEF RunStep, Poll, Measure, Cut, Popped, Send, IdleWait, Stop, Corrupt,
              Cancel, vars, InWork
<1>3. ASSUME NEW w \in Workers, Take(w) \/ Exit(w)
      PROVE  /\ UNCHANGED <<submit, handled>>
             /\ \A v \in Workers : job[v] # None => job'[v] = job[v]
  BY <1>3 DEF Take, Exit, HandState
<1>4. ASSUME NEW w \in Workers, Forward(w)
      PROVE  /\ submit' = submit /\ handled' = handled \cup {job[w]}
             /\ \A v \in Workers : v # w => job'[v] = job[v]
  BY <1>4 DEF Forward
<1> HIDE DEF TInv, TypeOK
<1>5. ASSUME UNCHANGED <<job, handled>>
      PROVE  r \in InWork \cup handled => r \in (InWork \cup handled)'
  BY <1>5 DEF InWork
<1>6. ASSUME NEW w \in Workers, Take(w) \/ Exit(w)
      PROVE  r \in InWork \cup handled => r \in (InWork \cup handled)'
  BY <1>3, <1>6 DEF InWork
<1>7. ASSUME NEW w \in Workers, Forward(w)
      PROVE  r \in InWork \cup handled => r \in (InWork \cup handled)'
  BY <1>4, <1>7 DEF InWork
<1> QED
  BY <1>1, <1>2, <1>3, <1>4, <1>5, <1>6, <1>7 DEF Next, WorkerStep

\* Only Submit makes a request no longer new.
LEMMA StaysNew ==
  ASSUME TInv, NEW r \in Requests, submit[r] = "new",
         \/ \E q \in Requests : Pushed(q)
         \/ RunStep \/ \E w \in Workers : WorkerStep(w)
         \/ Cancel \/ UNCHANGED vars
  PROVE  submit'[r] = "new"
<1> USE DEF TInv, TypeOK
<1>1. ASSUME NEW q \in Requests, Pushed(q)
      PROVE  submit'[r] = "new"
  BY <1>1 DEF Pushed, Corrupt
<1>2. CASE RunStep \/ Cancel \/ UNCHANGED vars
  BY <1>2 DEF RunStep, Poll, Measure, Cut, Popped, Send, IdleWait, Stop, Corrupt,
              Cancel, vars
<1>3. ASSUME NEW w \in Workers, WorkerStep(w)
      PROVE  submit'[r] = "new"
  BY <1>3 DEF WorkerStep, Take, Forward, Exit
<1> QED
  BY <1>1, <1>2, <1>3

-----------------------------------------------------------------------------
LEMMA InitRInv == RouterInit => RInv
<1> SUFFICES ASSUME RouterInit
             PROVE  RInv
  OBVIOUS
<1>1. NoKind \in Auths \X Ops
  BY DEF NoKind, Auths, Ops
<1>2. OwnTypes
  BY <1>1 DEF RouterInit, OwnTypes
<1>3. \A r \in Requests : Traced(r)
  BY DEF RouterInit, Init, Traced
<1> QED
  BY <1>2, <1>3 DEF RInv

\* A step of the scheduler alone.
LEMMA SchedulerAlone ==
  ASSUME RInv, TInv, [Next]_vars, UNCHANGED routerVars,
         \A r \in Requests : submit[r] = "new" /\ poster[r] = "none"
                               => submit'[r] = "new"
  PROVE  RInv'
<1>1. OwnTypes'
  BY DEF RInv, OwnTypes, routerVars
<1>2. ASSUME NEW r \in Requests
      PROVE  Traced(r)'
  <2>1. Traced(r)
    BY DEF RInv
  <2>2. /\ submit[r] = "queued" => submit'[r] = "queued"
        /\ submit[r] # "new" => submit'[r] # "new"
    BY SchedulerKeeps
  <2> QED
    BY <2>1, <2>2 DEF Traced, routerVars
<1> QED
  BY <1>1, <1>2 DEF RInv

\* A step of the handler, the goroutine or the worker's POSTs that leaves the
\* scheduler alone.
LEMMA RequestAlone ==
  ASSUME RInv, UNCHANGED vars, NEW r \in Requests, Traced(r)', OwnTypes',
         \A q \in Requests \ {r} :
           /\ kind'[q] = kind[q] /\ http'[q] = http[q] /\ reply'[q] = reply[q]
           /\ poster'[q] = poster[q] /\ sent'[q] = sent[q]
  PROVE  RInv'
<1>1. submit' = submit
  BY DEF vars
<1>2. ASSUME NEW q \in Requests \ {r}
      PROVE  Traced(q)'
  <2>1. Traced(q)
    BY DEF RInv
  <2> QED
    BY <1>1, <2>1 DEF Traced
<1> QED
  BY <1>2 DEF RInv

LEMMA HandlerStep ==
  ASSUME RInv, NEW r \in Requests,
         \/ \E k \in Kinds : Arrive(r, k)
         \/ ReadBody(r) \/ Serve(r) \/ Disconnect(r) \/ ReportSubmitted(r)
  PROVE  RInv'
<1>0. OwnTypes /\ Traced(r)
  BY DEF RInv
<1>1. UNCHANGED vars /\ UNCHANGED forwardVars
  BY DEF Arrive, ReadBody, Serve, Respond, Throttle, ReportThrottled,
         Acknowledge, ReturnHTTP, Disconnect, ReportSubmitted
<1>2. submit' = submit
  BY <1>1 DEF vars
<1> DEFINE Others == \A q \in Requests \ {r} :
             /\ kind'[q] = kind[q] /\ http'[q] = http[q] /\ reply'[q] = reply[q]
             /\ poster'[q] = poster[q] /\ sent'[q] = sent[q]
<1>3. CASE \E k \in Kinds : Arrive(r, k)
  <2>1. PICK k \in Kinds : Arrive(r, k)
    BY <1>3
  <2>2. k \in Auths \X Ops
    BY RouterAssumption
  <2>3. OwnTypes' /\ Others
    BY <1>0, <2>1, <2>2 DEF OwnTypes, Arrive
  <2>4. Traced(r)'
    BY <1>0, <1>2, <2>1 DEF Traced, OwnTypes, Arrive
  <2> QED
    BY <1>1, <2>3, <2>4, RequestAlone
<1>4. CASE Respond(r)
  <2>1. PICK status \in {"200", "400", "401", "500"} :
          reply' = [reply EXCEPT ![r] = status]
    BY <1>4 DEF Respond, Refusals
  <2>2. OwnTypes' /\ Others
    BY <1>0, <1>4, <2>1 DEF OwnTypes, Respond
  <2>3. Traced(r)'
    BY <1>0, <1>2, <1>4 DEF Traced, OwnTypes, Respond, Serving
  <2> QED
    BY <1>1, <2>2, <2>3, RequestAlone
<1>5. CASE Throttle(r) \/ ReportThrottled(r)
  <2>1. OwnTypes' /\ Others
    BY <1>0, <1>5 DEF OwnTypes, Throttle, ReportThrottled, AfterThrottle
  <2>2. Traced(r)'
    BY <1>0, <1>2, <1>5
    DEF Traced, OwnTypes, Throttle, ReportThrottled, AfterThrottle, Dispatching,
        Serving
  <2> QED
    BY <1>1, <2>1, <2>2, RequestAlone
<1>6. CASE Acknowledge(r)
  <2>1. OwnTypes' /\ Others
    BY <1>0, <1>6 DEF OwnTypes, Acknowledge
  <2>2. kind[r] = <<"verified", "dispatch">>
    BY <1>0, <1>6 DEF Acknowledge, Dispatching, Authentic, OwnTypes
  <2>3. Traced(r)'
    BY <1>0, <1>2, <1>6, <2>2
    DEF Traced, OwnTypes, Acknowledge, Dispatching, Serving
  <2> QED
    BY <1>1, <2>1, <2>3, RequestAlone
<1>7. CASE ReadBody(r) \/ ReturnHTTP(r) \/ Disconnect(r)
  <2>1. OwnTypes' /\ Others
    BY <1>0, <1>7 DEF OwnTypes, ReadBody, ReturnHTTP, Disconnect
  <2>2. Traced(r)'
    BY <1>0, <1>2, <1>7 DEF Traced, OwnTypes, ReadBody, ReturnHTTP, Disconnect
  <2> QED
    BY <1>1, <2>1, <2>2, RequestAlone
<1>8. CASE ReportSubmitted(r)
  <2>1. OwnTypes' /\ Others
    BY <1>0, <1>8 DEF OwnTypes, ReportSubmitted
  <2>2. Traced(r)'
    BY <1>0, <1>2, <1>8 DEF Traced, OwnTypes, ReportSubmitted
  <2> QED
    BY <1>1, <2>1, <2>2, RequestAlone
<1> QED
  BY <1>3, <1>4, <1>5, <1>6, <1>7, <1>8 DEF Serve

\* A worker takes a request and selects the destinations, or is done with it.
LEMMA TakeRequestStep ==
  ASSUME RInv, TInv, NEW w \in Workers, TakeRequest(w) \/ EndForward(w)
  PROVE  RInv'
<1>1. /\ submit' = submit
      /\ UNCHANGED <<handlerVars, poster, reported, reqDone, sent, resent>>
  BY DEF TakeRequest, Take, EndForward, Forward
<1>2. left' \in [Workers -> SUBSET Dests]
  BY DEF TakeRequest, EndForward, RInv, OwnTypes
<1>3. unsent' \subseteq Requests
  BY DEF TakeRequest, EndForward, Forward, RInv, OwnTypes, TInv, TypeOK, HandState
<1>4. OwnTypes'
  BY <1>1, <1>2, <1>3 DEF RInv, OwnTypes
<1>5. ASSUME NEW r \in Requests
      PROVE  Traced(r)'
  BY <1>1, <1>5 DEF RInv, Traced
<1> QED
  BY <1>4, <1>5 DEF RInv

\* What a POST changes.
LEMMA PostChanges ==
  ASSUME RInv, TInv, NEW w \in Workers, Post(w)
  PROVE  /\ UNCHANGED vars
         /\ job[w] \in Requests /\ job[w] \in InWork
         /\ \E d \in left[w] :
              /\ left' = [left EXCEPT ![w] = @ \ {d}]
              /\ sent' = [sent EXCEPT ![job[w]] = @ \cup {d}]
              /\ resent' = resent \/ (d \in sent[job[w]]
                                      /\ resent' = resent \cup {job[w]})
         /\ UNCHANGED <<handlerVars, poster, reported, reqDone, unsent>>
BY DEF Post, TInv, TypeOK, HandState, InWork

\* A worker sends only what it has taken, and that has been submitted.
LEMMA PostStep ==
  ASSUME RInv, TInv, NEW w \in Workers, Post(w)
  PROVE  RInv'
<1>1. /\ UNCHANGED vars
      /\ UNCHANGED <<handlerVars, poster, reported, reqDone, unsent>>
  BY PostChanges
<1>2. PICK r \in Requests : r = job[w] /\ r \in InWork
  BY PostChanges
<1>3. submit[r] # "new" /\ submit' = submit
  BY <1>1, <1>2 DEF TInv, NewIsNowhere, Places, vars
<1>4. OwnTypes /\ Traced(r)
  BY DEF RInv
<1>5. PICK d \in left[w] :
        /\ left' = [left EXCEPT ![w] = @ \ {d}]
        /\ sent' = [sent EXCEPT ![r] = @ \cup {d}]
        /\ resent' = resent \/ resent' = resent \cup {r}
  BY <1>2, PostChanges
<1>6. d \in Dests
  BY <1>4, <1>5 DEF OwnTypes
<1>7. OwnTypes'
  BY <1>1, <1>4, <1>5, <1>6 DEF OwnTypes
<1>8. Traced(r)'
  BY <1>1, <1>3, <1>4 DEF Traced
<1>9. \A q \in Requests \ {r} : sent'[q] = sent[q]
  BY <1>4, <1>5 DEF OwnTypes
<1> QED
  BY <1>1, <1>7, <1>8, <1>9, RequestAlone

LEMMA StepRInv == RInv /\ TInv /\ [RouterNext]_allVars => RInv'
<1> SUFFICES ASSUME RInv, TInv, [RouterNext]_allVars
             PROVE  RInv'
  OBVIOUS
<1>0. [Next]_vars
  BY StepOfScheduler
<1>1. ASSUME NEW r \in Requests,
             \/ \E k \in Kinds : Arrive(r, k)
             \/ ReadBody(r) \/ Serve(r) \/ Disconnect(r) \/ ReportSubmitted(r)
      PROVE  RInv'
  BY <1>1, HandlerStep
<1>2. ASSUME NEW r \in Requests, CallSubmit(r)
      PROVE  RInv'
  <2>1. poster[r] # "none" /\ UNCHANGED routerVars
    BY <1>2 DEF CallSubmit
  <2>2. \A q \in Requests : q # r => submit'[q] = submit[q]
    BY <1>2 DEF CallSubmit, Submit, TInv, TypeOK
  <2> QED
    BY <1>0, <2>1, <2>2, SchedulerAlone
<1>3. ASSUME NEW r \in Requests, SubmitReturns(r)
      PROVE  RInv'
  BY <1>0, <1>3, SchedulerAlone, StaysNew DEF SubmitReturns
<1>4. CASE (RunStep \/ Cancel) /\ UNCHANGED routerVars
  BY <1>0, <1>4, SchedulerAlone, StaysNew
<1>5. ASSUME NEW w \in Workers, ExitWorker(w)
      PROVE  RInv'
  BY <1>0, <1>5, SchedulerAlone, StaysNew DEF ExitWorker, WorkerStep
<1>6. ASSUME NEW w \in Workers, TakeRequest(w) \/ EndForward(w)
      PROVE  RInv'
  BY <1>6, TakeRequestStep
<1>7. ASSUME NEW w \in Workers, Post(w)
      PROVE  RInv'
  BY <1>7, PostStep
<1>8. CASE UNCHANGED allVars
  <2>1. UNCHANGED vars /\ UNCHANGED routerVars
    BY <1>8 DEF allVars
  <2> QED
    BY <1>0, <2>1, SchedulerAlone, StaysNew
<1> QED
  BY <1>1, <1>2, <1>3, <1>4, <1>5, <1>6, <1>7, <1>8
  DEF RouterNext, Deliver, Work

\* Both invariants hold throughout, though heap operations overlap.
THEOREM RouterInvariance == RouterSpec => [](TInv /\ RInv)
<1>1. Spec => []TInv
  BY TInvariance
<1> QED
  BY <1>1, ImplementsScheduler, InitRInv, StepRInv, PTL DEF RouterSpec

-----------------------------------------------------------------------------
(* What is sent once.                                                      *)

LEMMA InitSentInTurn == RouterInit => SentInTurn
BY DEF RouterInit, Init, SentInTurn

\* A request at risk stays so.
LEMMA RacedGrows ==
  ASSUME [Next]_vars
  PROVE  Requests \ raced' \subseteq Requests \ raced
BY DEF Next, vars, Submit, Pushed, Corrupt, RunStep, Poll, Measure, Cut, Popped,
       Send, Stop, IdleWait, WorkerStep, Take, Forward, Exit, Cancel

LEMMA StepSentInTurn ==
  ASSUME SentInTurn, RInv, IInv, [RouterNext]_allVars
  PROVE  SentInTurn'
<1>0. TInv /\ OwnTypes /\ [Next]_vars /\ Requests \ raced' \subseteq Requests \ raced
  BY StepOfScheduler, RacedGrows DEF IInv, RInv
<1>1. ASSUME UNCHANGED <<sent, resent>>, NEW r \in Requests \ raced'
      PROVE  /\ r \notin resent'
             /\ sent'[r] # {} => r \in (InWork \cup handled)'
  <2>1. r \in InWork \cup handled => r \in (InWork \cup handled)'
    BY <1>0, SchedulerKeeps
  <2> QED
    BY <1>0, <1>1, <2>1 DEF SentInTurn
<1>2. ASSUME UNCHANGED forwardVars,
             \A w \in Workers : job'[w] # None => job'[w] = job[w]
      PROVE  SentInTurn'
  <2>1. ASSUME NEW r \in Requests \ raced', NEW w \in Workers, job'[w] = r
        PROVE  sent'[r] \cap left'[w] = {}
    <3>1. job[w] = r /\ r \in Requests \ raced
      BY <1>0, <1>2, <2>1
    <3> QED
      BY <1>2, <3>1 DEF SentInTurn
  <2> QED
    BY <1>1, <1>2, <2>1 DEF SentInTurn
<1>3. ASSUME NEW w \in Workers, TakeRequest(w)
      PROVE  SentInTurn'
  <2> DEFINE h == Head(pool)
  <2>1. /\ pool # <<>> /\ UNCHANGED <<sent, resent>>
        /\ job' = [job EXCEPT ![w] = h]
        /\ \E D \in SUBSET Dests : left' = [left EXCEPT ![w] = D]
    BY <1>3 DEF TakeRequest, Take
  <2>2. h \in InPool /\ h \in Requests
    <3>1. h = pool[1] /\ 1 \in DOMAIN pool /\ h \in Requests
      BY <1>0, <2>1, PoolTail DEF TInv, TypeOK
    <3> QED
      BY <3>1 DEF InPool
  <2> HIDE DEF h
  <2>3. h \notin raced => sent[h] = {}
    BY <2>2 DEF IInv, AtMostOnce, SentInTurn
  <2>4. ASSUME NEW r \in Requests \ raced', NEW v \in Workers, job'[v] = r
        PROVE  sent'[r] \cap left'[v] = {}
    <3>1. r \in Requests \ raced
      BY <1>0
    <3>2. CASE v = w
      <4>1. r = h
        BY <1>0, <2>1, <2>4, <3>2 DEF TInv, TypeOK
      <4> QED
        BY <2>1, <2>3, <3>1, <4>1
    <3>3. CASE v # w
      <4>1. job[v] = r /\ left'[v] = left[v]
        BY <1>0, <2>1, <2>4, <3>3 DEF TInv, TypeOK, OwnTypes
      <4> QED
        BY <2>1, <3>1, <4>1 DEF SentInTurn
    <3> QED
      BY <3>2, <3>3
  <2> QED
    BY <1>1, <2>1, <2>4 DEF SentInTurn
<1>4. ASSUME NEW w \in Workers, EndForward(w)
      PROVE  SentInTurn'
  <2>1. /\ UNCHANGED <<sent, resent>> /\ job' = [job EXCEPT ![w] = None]
        /\ left' = [left EXCEPT ![w] = {}]
    BY <1>4 DEF EndForward, Forward
  <2>2. ASSUME NEW r \in Requests \ raced', NEW v \in Workers, job'[v] = r
        PROVE  sent'[r] \cap left'[v] = {}
    <3>1. r \in Requests \ raced /\ v # w /\ job[v] = r /\ left'[v] = left[v]
      BY <1>0, <2>1, <2>2 DEF TInv, TypeOK, OwnTypes
    <3> QED
      BY <2>1, <3>1 DEF SentInTurn
  <2> QED
    BY <1>1, <2>1, <2>2 DEF SentInTurn
<1>5. ASSUME NEW w \in Workers, Post(w)
      PROVE  SentInTurn'
  <2>1. /\ UNCHANGED <<job, raced, handled>> /\ job[w] \in Requests
        /\ job[w] \in InWork
    BY <1>0, <1>5, PostChanges DEF RInv, vars
  <2>2. PICK d \in left[w] :
          /\ left' = [left EXCEPT ![w] = @ \ {d}]
          /\ sent' = [sent EXCEPT ![job[w]] = @ \cup {d}]
          /\ resent' = resent \/ (d \in sent[job[w]]
                                  /\ resent' = resent \cup {job[w]})
    BY <1>0, <1>5, PostChanges
  <2>3. InWork' = InWork
    BY <2>1 DEF InWork
  <2>4. ASSUME NEW r \in Requests \ raced
        PROVE  /\ r \notin resent'
               /\ sent'[r] # {} => r \in InWork \cup handled
               /\ \A v \in Workers : job[v] = r => sent'[r] \cap left'[v] = {}
    <3>1. CASE r = job[w]
      <4>1. d \notin sent[r] /\ sent'[r] = sent[r] \cup {d}
        BY <1>0, <2>1, <2>2, <3>1 DEF SentInTurn, OwnTypes
      <4>2. \A v \in Workers : job[v] = r => v = w
        BY <3>1 DEF IInv, AtMostOnce
      <4>3. sent'[r] \cap left'[w] = {}
        BY <1>0, <2>2, <3>1, <4>1 DEF SentInTurn, OwnTypes
      <4> QED
        BY <2>1, <2>2, <3>1, <4>1, <4>2, <4>3 DEF SentInTurn
    <3>2. CASE r # job[w]
      <4>1. sent'[r] = sent[r] /\ (r \in resent' => r \in resent)
        BY <1>0, <2>2, <3>2 DEF OwnTypes
      <4>2. \A v \in Workers : job[v] = r => left'[v] = left[v]
        BY <1>0, <2>2, <3>2 DEF OwnTypes
      <4> QED
        BY <4>1, <4>2 DEF SentInTurn
    <3> QED
      BY <3>1, <3>2
  <2> QED
    BY <2>1, <2>3, <2>4 DEF SentInTurn
<1>6. CASE ~\E w \in Workers : TakeRequest(w) \/ EndForward(w) \/ Post(w)
  <2>1. UNCHANGED forwardVars /\ job' = job
    BY <1>6 DEF RouterNext, Arrive, ReadBody, Serve, Respond, Throttle,
         ReportThrottled, Acknowledge, ReturnHTTP, Disconnect, Deliver, CallSubmit,
         SubmitReturns, ReportSubmitted, Work, ExitWorker, routerVars, allVars,
         vars, Submit, Pushed, Corrupt, RunStep, Poll, Measure, Cut, Popped, Send,
         Stop, IdleWait, Exit, Cancel
  <2> QED
    BY <1>2, <2>1
<1> QED
  BY <1>3, <1>4, <1>5, <1>6

\* Both invariants of the requests hold throughout.
THEOREM InTurn == RouterSpec => [](IInv /\ SentInTurn)
<1>1. Spec => []IInv
  BY Invariance
<1> QED
  BY <1>1, ImplementsScheduler, RouterInvariance, InitSentInTurn, StepSentInTurn, PTL
  DEF RouterSpec

\* Handler, goroutines, scheduler and workers keep their types, and the channel
\* is never over its capacity in the whole program either.
THEOREM RouterTypeCorrect == RouterSpec => []RouterTypeOK
<1>1. TInv /\ RInv => RouterTypeOK
  BY DEF TInv, RInv, OwnTypes, RouterTypeOK
<1> QED
  BY <1>1, RouterInvariance, PTL

\* Only dispatches that passed every check are sent anywhere, though heap
\* operations overlap.
THEOREM AdmittedOnly == RouterSpec => []OnlyAdmittedSent
<1>1. RInv => OnlyAdmittedSent
  BY DEF RInv, Traced, OnlyAdmittedSent
<1> QED
  BY <1>1, RouterInvariance, PTL

\* No destination gets a dispatch twice, unless that was in the heap, or on its
\* way into it, while heap operations overlapped.
THEOREM OnceSent == RouterSpec => []SentOnce
<1>1. RInv /\ SentInTurn => SentOnce
  BY DEF RInv, OwnTypes, SentInTurn, SentOnce
<1> QED
  BY <1>1, RouterInvariance, InTurn, PTL

\* The dispatches that webhook goroutines submit are queued, delivered and
\* handled as the abstract queue promises, until heap operations overlap.
THEOREM QueueInRouter == RouterSpec => ImplementsQueue
BY ImplementsScheduler, Refinement, PTL
=============================================================================
