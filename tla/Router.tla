------------------------------- MODULE Router -------------------------------
(***************************************************************************)
(* One webhook request from ServeHTTP to the destinations: the handler's   *)
(* checks and replies, the goroutine that Submits an acknowledged dispatch *)
(* and reports to the QoS manager, the scheduler (module Scheduler) and    *)
(* the POSTs of the worker that takes the request.                         *)
(*                                                                         *)
(* The request's context, r.Context(), travels with it: net/http cancels   *)
(* it when ServeHTTP returns or the client disconnects, and a forward      *)
(* whose context is done sends nothing.                                    *)
(*                                                                         *)
(* The verdict of ShouldThrottle is either one (module QoSManager says     *)
(* which); the goroutines of a forward are module Forwarder.  The results  *)
(* of the POSTs are left out: nobody looks at them but the log.            *)
(***************************************************************************)
EXTENDS Scheduler

CONSTANTS
  Dests,   \* destinations that a bot's configuration may name
  Kinds    \* the requests that may arrive: pairs of Auths and Ops

\* What the checks before the operation code find; unreadable is a body that
\* ends in an error.  A bot may have no secret,
\* for nobody validates the configuration that main starts with: once the
\* signature headers are read, generateSeed repeats the empty string for ever.
Auths == {"unreadable", "unknown", "unsigned", "secretless", "verified"}

Ops == {"malformed", "challenge", "dispatch", "heartbeat", "other"}

ASSUME RouterAssumption == Kinds \subseteq Auths \X Ops /\ IsFiniteSet(Dests)

VARIABLES
  kind,      \* each request's checks and operation
  http,      \* where ServeHTTP is
  reply,     \* status of the response
  poster,    \* where the goroutine that calls Submit is
  reported,  \* the flag of the UpdateMetrics call
  reqDone,   \* r.Context() is cancelled
  left,      \* the destinations to which a worker has yet to send its request
  sent,      \* destinations to which a request was sent
  resent,    \* history: requests sent to one of them again
  unsent     \* history: requests whose forward ended with destinations left

handlerVars == <<kind, http, reply>>
forwardVars == <<left, sent, resent, unsent>>
routerVars == <<handlerVars, poster, reported, reqDone, forwardVars>>
allVars == <<vars, routerVars>>

NoKind == <<"unreadable", "malformed">>

RouterInit ==
  /\ Init
  /\ kind = [r \in Requests |-> NoKind]
  /\ http = [r \in Requests |-> "none"]
  /\ reply = [r \in Requests |-> "none"]
  /\ poster = [r \in Requests |-> "none"]
  /\ reported = [r \in Requests |-> "none"]
  /\ reqDone = [r \in Requests |-> FALSE]
  /\ left = [w \in Workers |-> {}]
  /\ sent = [r \in Requests |-> {}]
  /\ resent = {} /\ unsent = {}

-----------------------------------------------------------------------------
(* ServeHTTP.                                                              *)

Arrive(r, k) ==
  /\ http[r] = "none" /\ ~crashed
  /\ http' = [http EXCEPT ![r] = "reading"]
  /\ kind' = [kind EXCEPT ![r] = k]
  /\ UNCHANGED <<vars, reply, poster, reported, reqDone, forwardVars>>

\* io.ReadAll returns, if it does: the server has no ReadTimeout, and a client
\* may stall in the middle of the body.
ReadBody(r) ==
  /\ http[r] = "reading" /\ ~crashed
  /\ http' = [http EXCEPT ![r] = "serving"]
  /\ UNCHANGED <<vars, kind, reply, poster, reported, reqDone, forwardVars>>

\* Mutant: the result of VerifySignature is ignored.
Authentic_Known(r) == kind[r][1] \in {"unsigned", "verified"}

\* The bot is known and the signature is right.
Authentic(r) == kind[r][1] = "verified"

\* The status of an error reply.
Refusals(r) ==
  {status \in {"400", "401", "500"} :
     \/ status = "500" /\ kind[r][1] = "unreadable"
     \/ status = "401" /\ kind[r][1] \in {"unknown", "unsigned"} /\ ~Authentic(r)
     \/ status = "400" /\ Authentic(r) /\ kind[r][2] \in {"malformed", "challenge"}}

PlainOps == {"challenge", "heartbeat", "other"}

Serving(r) == http[r] = "serving" /\ ~crashed

\* An error reply; or a reply to a challenge, a heartbeat or another
\* operation.
Respond(r) ==
  /\ Serving(r)
  /\ \E status \in Refusals(r) \cup
                   (IF Authentic(r) /\ kind[r][2] \in PlainOps THEN {"200"} ELSE {}) :
       reply' = [reply EXCEPT ![r] = status]
  /\ http' = [http EXCEPT ![r] = "returning"]
  /\ UNCHANGED <<vars, kind, poster, reported, reqDone, forwardVars>>

Dispatching(r) == Serving(r) /\ Authentic(r) /\ kind[r][2] = "dispatch"

\* Mutant: a throttled dispatch is not reported.
AfterThrottle_Return == "returning"

AfterThrottle == "throttled"

\* ShouldThrottle says yes.
Throttle(r) ==
  /\ Dispatching(r)
  /\ reply' = [reply EXCEPT ![r] = "429"]
  /\ http' = [http EXCEPT ![r] = AfterThrottle]
  /\ UNCHANGED <<vars, kind, poster, reported, reqDone, forwardVars>>

\* UpdateMetrics(_, false)
ReportThrottled(r) ==
  /\ http[r] = "throttled" /\ ~crashed
  /\ reported' = [reported EXCEPT ![r] = "failure"]
  /\ http' = [http EXCEPT ![r] = "returning"]
  /\ UNCHANGED <<vars, kind, reply, poster, reqDone, forwardVars>>

\* ShouldThrottle says no: acknowledge, and start the goroutine.
Acknowledge(r) ==
  /\ Dispatching(r)
  /\ reply' = [reply EXCEPT ![r] = "200"]
  /\ http' = [http EXCEPT ![r] = "returning"]
  /\ poster' = [poster EXCEPT ![r] = "submit"]
  /\ UNCHANGED <<vars, kind, reported, reqDone, forwardVars>>

\* ServeHTTP returns, and net/http cancels the context.
ReturnHTTP(r) ==
  /\ http[r] = "returning" /\ ~crashed
  /\ http' = [http EXCEPT ![r] = "returned"]
  /\ reqDone' = [reqDone EXCEPT ![r] = TRUE]
  /\ UNCHANGED <<vars, kind, reply, poster, reported, forwardVars>>

\* The client closes the connection.
Disconnect(r) ==
  /\ http[r] # "none" /\ ~reqDone[r] /\ ~crashed
  /\ reqDone' = [reqDone EXCEPT ![r] = TRUE]
  /\ UNCHANGED <<vars, handlerVars, poster, reported, forwardVars>>

-----------------------------------------------------------------------------
(* The goroutine of an acknowledged dispatch.                              *)

CallSubmit(r) ==
  /\ poster[r] = "submit"
  /\ Submit(r)
  /\ UNCHANGED routerVars

SubmitReturns(r) == Pushed(r) /\ UNCHANGED routerVars

\* UpdateMetrics(_, success), where success is what Submit returned: true.
ReportSubmitted(r) ==
  /\ poster[r] = "submit" /\ submit[r] = "queued" /\ ~crashed
  /\ reported' = [reported EXCEPT ![r] = "success"]
  /\ poster' = [poster EXCEPT ![r] = "done"]
  /\ UNCHANGED <<vars, handlerVars, reqDone, forwardVars>>

-----------------------------------------------------------------------------
(* The worker.                                                             *)

\* A worker takes a request and selects its destinations: those of a regex
\* route that matches, in the map's random order, or the bot's forward_to,
\* which may be empty.
TakeRequest(w) ==
  /\ Take(w)
  /\ \E D \in SUBSET Dests : left' = [left EXCEPT ![w] = D]
  /\ UNCHANGED <<handlerVars, poster, reported, reqDone, sent, resent, unsent>>

\* client.Do sends the request: the context is live.
Post(w) ==
  /\ worker[w] = "busy" /\ ~crashed
  /\ ~reqDone[job[w]]
  /\ \E d \in left[w] :
       /\ left' = [left EXCEPT ![w] = @ \ {d}]
       /\ sent' = [sent EXCEPT ![job[w]] = @ \cup {d}]
       /\ resent' = IF d \in sent[job[w]] THEN resent \cup {job[w]} ELSE resent
  /\ UNCHANGED <<vars, handlerVars, poster, reported, reqDone, unsent>>

\* The forward ends: each destination has answered or failed, or the context
\* is done.
EndForward(w) ==
  /\ Forward(w)
  /\ reqDone[job[w]] \/ left[w] = {}
  /\ unsent' = IF left[w] = {} THEN unsent ELSE unsent \cup {job[w]}
  /\ left' = [left EXCEPT ![w] = {}]
  /\ UNCHANGED <<handlerVars, poster, reported, reqDone, sent, resent>>

ExitWorker(w) == Exit(w) /\ UNCHANGED routerVars

-----------------------------------------------------------------------------
Serve(r) ==
  \/ Respond(r)
  \/ Throttle(r) \/ ReportThrottled(r)
  \/ Acknowledge(r)
  \/ ReturnHTTP(r)

Deliver(r) == CallSubmit(r) \/ SubmitReturns(r) \/ ReportSubmitted(r)

Work(w) == TakeRequest(w) \/ Post(w) \/ EndForward(w) \/ ExitWorker(w)

RouterNext ==
  \/ \E r \in Requests :
       \/ \E k \in Kinds : Arrive(r, k)
       \/ ReadBody(r)
       \/ Serve(r)
       \/ Disconnect(r)
       \/ Deliver(r)
  \/ RunStep /\ UNCHANGED routerVars
  \/ \E w \in Workers : Work(w)
  \/ Cancel /\ UNCHANGED routerVars

RouterSpec == RouterInit /\ [][RouterNext]_allVars

\* Runnable goroutines are scheduled.  Nobody has to send a request, or the rest
\* of one.
RouterFairness ==
  /\ \A r \in Requests :
       /\ WF_allVars(Serve(r))
       /\ WF_allVars(CallSubmit(r))
       /\ WF_allVars(SubmitReturns(r)) /\ WF_allVars(ReportSubmitted(r))
  /\ WF_allVars(RunStep /\ UNCHANGED routerVars)
  /\ \A w \in Workers : WF_allVars(Work(w))

RouterFairSpec == RouterSpec /\ RouterFairness

-----------------------------------------------------------------------------
(* Properties.                                                             *)

RouterTypeOK ==
  /\ TypeOK
  /\ kind \in [Requests -> Auths \X Ops]
  /\ http \in [Requests -> {"none", "reading", "serving", "throttled", "returning", "returned"}]
  /\ reply \in [Requests -> {"none", "200", "400", "401", "429", "500"}]
  /\ poster \in [Requests -> {"none", "submit", "done"}]
  /\ reported \in [Requests -> {"none", "success", "failure"}]
  /\ reqDone \in [Requests -> BOOLEAN]
  /\ left \in [Workers -> SUBSET Dests]
  /\ sent \in [Requests -> SUBSET Dests]
  /\ resent \subseteq Requests /\ unsent \subseteq Requests

\* A destination sees only dispatches with a valid signature that were
\* acknowledged with 200: the goroutine, the queue and the worker carry
\* nothing that ServeHTTP refused, throttled or answered by itself.
OnlyAdmittedSent ==
  \A r \in Requests :
    sent[r] # {} => kind[r] = <<"verified", "dispatch">> /\ reply[r] = "200"

\* No destination gets a dispatch twice, whatever becomes of the other ones and
\* of the services, unless heap operations overlapped while it was in the heap.
SentOnce == resent \subseteq raced

\* Once its body has been read, the QoS manager hears of every verified dispatch
\* that is admitted or throttled, even if the client is gone, the services are
\* being stopped or another dispatch has overtaken it in the heap.
EveryDispatchReported ==
  \A r \in Requests :
    http[r] = "serving" /\ kind[r] = <<"verified", "dispatch">>
      ~> reported[r] # "none" \/ crashed

\* handler.go: "Submit the request to the scheduler for asynchronous
\* processing", after the acknowledgement: an acknowledged dispatch is sent to
\* its destinations, unless the services are stopped.
AcknowledgedIsSent ==
  \A r \in Requests :
    poster[r] = "submit" ~>
      \/ r \in handled \ unsent
      \/ ctxDone \/ crashed
=============================================================================
