----------------------------- MODULE Forwarder -----------------------------
(***************************************************************************)
(* The forwarder: ForwardToMultipleDestinations starts one goroutine per   *)
(* destination and one that closes the result channel, and collects the    *)
(* results; ForwardRequestWithResult is the goroutine.  Several workers    *)
(* are in such a call at once and share the load counter.                  *)
(*                                                                         *)
(* The order of the results and their status codes are left out: the       *)
(* callers look at the number of results and at whether one succeeded.     *)
(* A result is a pair <<destination, Success>>.                            *)
(***************************************************************************)
EXTENDS Integers, FiniteSets

CONSTANTS
  Calls,   \* calls of ForwardToMultipleDestinations
  Dests    \* positions in a destinations slice

ASSUME ForwarderAssumption == IsFiniteSet(Calls) /\ IsFiniteSet(Dests)

VARIABLES
  caller,   \* where each call is
  targets,  \* its destinations
  todo,     \* destinations the loop has not reached
  ctxDone,  \* ctxWithTimeout is done
  g,        \* where each goroutine is
  wg,       \* counter of the wait group
  buf,      \* contents of resultChan
  closed,   \* resultChan is closed
  results,  \* what the call has collected
  load      \* load.Counter

call == <<caller, targets, todo>>
channel == <<buf, closed, results>>
vars == <<call, ctxDone, g, wg, channel, load>>

\* A goroutine: not started; started; between Increment and the end of
\* client.Do; holding a result; past sendResult; past Decrement; past wg.Done.
Holding  == {"ok", "failed"}
InFlight == {"doing", "sent"} \cup Holding
Counted  == {"started", "left"} \cup InFlight
Places   == {"none", "done"} \cup Counted

Init ==
  /\ caller = [c \in Calls |-> "idle"]
  /\ targets = [c \in Calls |-> {}]
  /\ todo = [c \in Calls |-> {}]
  /\ ctxDone = [c \in Calls |-> FALSE]
  /\ g = [p \in Calls \X Dests |-> "none"]
  /\ wg = [c \in Calls |-> 0]
  /\ buf = [c \in Calls |-> {}]
  /\ closed = [c \in Calls |-> FALSE]
  /\ results = [c \in Calls |-> {}]
  /\ load = 0

-----------------------------------------------------------------------------
(* ForwardToMultipleDestinations.                                          *)

Call(c, D) ==
  /\ caller[c] = "idle"
  /\ caller' = [caller EXCEPT ![c] = IF D = {} THEN "returned" ELSE "spawn"]
  /\ targets' = [targets EXCEPT ![c] = D]
  /\ todo' = [todo EXCEPT ![c] = D]
  /\ UNCHANGED <<ctxDone, g, wg, channel, load>>

\* The parent context is cancelled (even before the call) or the processing
\* timeout passes.
Cancel(c) ==
  /\ ~ctxDone[c]
  /\ ctxDone' = [ctxDone EXCEPT ![c] = TRUE]
  /\ UNCHANGED <<call, g, wg, channel, load>>

\* Mutant: the goroutine, not the loop, would call wg.Add.
AddedBySpawn_Nothing(c) == wg[c]

AddedBySpawn(c) == wg[c] + 1

\* One round of the loop: wg.Add(1), go.
Spawn(c, d) ==
  /\ caller[c] = "spawn" /\ d \in todo[c]
  /\ wg' = [wg EXCEPT ![c] = AddedBySpawn(c)]
  /\ g' = [g EXCEPT ![<<c, d>>] = "started"]
  /\ todo' = [todo EXCEPT ![c] = @ \ {d}]
  /\ UNCHANGED <<caller, targets, ctxDone, channel, load>>

\* The loop ends and the closing goroutine starts.
EndLoop(c) ==
  /\ caller[c] = "spawn" /\ todo[c] = {}
  /\ caller' = [caller EXCEPT ![c] = "collect"]
  /\ UNCHANGED <<targets, todo, ctxDone, g, wg, channel, load>>

\* Mutant: the closing goroutine is started before the loop.
CloserStarted_Early(c) == caller[c] \in {"spawn", "collect"}

CloserStarted(c) == caller[c] = "collect"

\* wg.Wait(); close(resultChan)
CloseChan(c) ==
  /\ CloserStarted(c) /\ wg[c] = 0 /\ ~closed[c]
  /\ closed' = [closed EXCEPT ![c] = TRUE]
  /\ UNCHANGED <<call, ctxDone, g, wg, buf, results, load>>

\* One round of "for result := range resultChan".
Collect(c) ==
  /\ caller[c] = "collect"
  /\ \E x \in buf[c] :
       /\ buf' = [buf EXCEPT ![c] = @ \ {x}]
       /\ results' = [results EXCEPT ![c] = @ \cup {x}]
  /\ UNCHANGED <<call, ctxDone, g, wg, closed, load>>

\* Mutant: the collector stops when the channel is drained, closed or not.
Exhausted_IfEmpty(c) == buf[c] = {}

Exhausted(c) == closed[c] /\ buf[c] = {}

\* The channel is closed and drained: return, with the deferred cancel().
Return(c) ==
  /\ caller[c] = "collect" /\ Exhausted(c)
  /\ caller' = [caller EXCEPT ![c] = "returned"]
  /\ ctxDone' = [ctxDone EXCEPT ![c] = TRUE]
  /\ UNCHANGED <<targets, todo, g, wg, channel, load>>

-----------------------------------------------------------------------------
(* The goroutine of destination d.                                         *)

\* loadProvider.Increment()
Enter(c, d) ==
  /\ g[<<c, d>>] = "started"
  /\ load' = load + 1
  /\ g' = [g EXCEPT ![<<c, d>>] = "doing"]
  /\ UNCHANGED <<call, ctxDone, wg, channel>>

\* The request is answered by a status of 2xx (ok); or it is answered by
\* another status, cannot be created or sent, times out, is cancelled, or the
\* code panics and recovers (failed).
Reply(c, d, o) ==
  /\ g[<<c, d>>] = "doing"
  /\ g' = [g EXCEPT ![<<c, d>>] = o]
  /\ UNCHANGED <<call, ctxDone, wg, channel, load>>

\* Mutant: the result is dropped although the context is live.
MayDrop_Always(c) == TRUE

MayDrop(c) == ctxDone[c]

HasRoom(c) == Cardinality(buf[c]) < Cardinality(targets[c])

\* sendResult: either ready case of the select may be taken.
SendResult(c, d) ==
  /\ g[<<c, d>>] \in Holding
  /\ \/ /\ HasRoom(c)
        /\ buf' = [buf EXCEPT ![c] = @ \cup {<<d, g[<<c, d>>] = "ok">>}]
     \/ /\ MayDrop(c)
        /\ UNCHANGED buf
  /\ g' = [g EXCEPT ![<<c, d>>] = "sent"]
  /\ UNCHANGED <<call, ctxDone, wg, closed, results, load>>

\* Mutant: no deferred Decrement.
Decremented_Not == load

Decremented == load - 1

\* The deferred loadProvider.Decrement().
Leave(c, d) ==
  /\ g[<<c, d>>] = "sent"
  /\ load' = Decremented
  /\ g' = [g EXCEPT ![<<c, d>>] = "left"]
  /\ UNCHANGED <<call, ctxDone, wg, channel>>

\* Mutant: no deferred wg.Done().
Finished_Not(c) == wg[c]

Finished(c) == wg[c] - 1

\* The deferred wg.Done().
Done(c, d) ==
  /\ g[<<c, d>>] = "left"
  /\ wg' = [wg EXCEPT ![c] = Finished(c)]
  /\ g' = [g EXCEPT ![<<c, d>>] = "done"]
  /\ UNCHANGED <<call, ctxDone, channel, load>>

-----------------------------------------------------------------------------
Goroutine(c, d) ==
  \/ Enter(c, d)
  \/ \E o \in Holding : Reply(c, d, o)
  \/ SendResult(c, d)
  \/ Leave(c, d)
  \/ Done(c, d)

Caller(c) ==
  \/ \E d \in Dests : Spawn(c, d)
  \/ EndLoop(c)
  \/ CloseChan(c)
  \/ Collect(c)
  \/ Return(c)

Next ==
  \E c \in Calls :
    \/ \E D \in SUBSET Dests : Call(c, D)
    \/ Cancel(c)
    \/ Caller(c)
    \/ \E d \in Dests : Goroutine(c, d)

Spec == Init /\ [][Next]_vars

\* Every runnable goroutine is scheduled; client.Do returns, because its
\* context expires after the processing timeout at the latest.
Fairness ==
  \A c \in Calls : WF_vars(Caller(c)) /\ \A d \in Dests : WF_vars(Goroutine(c, d))

FairSpec == Spec /\ Fairness

-----------------------------------------------------------------------------
(* Properties.                                                             *)

TypeOK ==
  /\ caller \in [Calls -> {"idle", "spawn", "collect", "returned"}]
  /\ targets \in [Calls -> SUBSET Dests]
  /\ todo \in [Calls -> SUBSET Dests]
  /\ ctxDone \in [Calls -> BOOLEAN]
  /\ g \in [Calls \X Dests -> Places]
  /\ wg \in [Calls -> Nat]
  /\ buf \in [Calls -> SUBSET (Dests \X BOOLEAN)]
  /\ closed \in [Calls -> BOOLEAN]
  /\ results \in [Calls -> SUBSET (Dests \X BOOLEAN)]
  /\ load \in Nat

\* The goroutines that the load counter counts.
Loading == {p \in Calls \X Dests : g[p] \in InFlight}

\* The load counter is the number of forwards in flight, whatever mix of
\* answers, timeouts, cancellations and dropped results ended the others.
LoadIsInFlight == load = Cardinality(Loading)

\* No goroutine that still has a result to send meets a closed channel: the
\* send would panic.
NeverSendOnClosed ==
  \A c \in Calls, d \in Dests : g[<<c, d>>] \in Counted => ~closed[c]

\* A returned call leaves nothing running and nothing unread.
ReturnedClean ==
  \A c \in Calls :
    caller[c] = "returned" =>
      /\ buf[c] = {}
      /\ \A d \in targets[c] : g[<<c, d>>] = "done"

Answered(c) == {x[1] : x \in results[c]}

\* A call whose context is live when it returns has a result from every
\* destination.
CompleteUnlessCancelled ==
  [][\A c \in Calls :
       caller[c] = "collect" /\ caller'[c] = "returned" /\ ~ctxDone[c]
         => Answered(c) = targets[c]]_vars

\* A call that was made returns.
CallReturns ==
  \A c \in Calls : caller[c] # "idle" ~> caller[c] = "returned"

-----------------------------------------------------------------------------
(* Refinement of ForwardCall.                                              *)

absStatus ==
  [c \in Calls |-> IF caller[c] \in {"spawn", "collect"} THEN "active"
                   ELSE caller[c]]

absOutcome ==
  [p \in Calls \X Dests |->
     LET kept == buf[p[1]] \cup results[p[1]] IN
     IF <<p[2], TRUE>> \in kept THEN "ok"
     ELSE IF <<p[2], FALSE>> \in kept THEN "failed"
     ELSE IF g[p] \in {"sent", "left", "done"} THEN "dropped"
     ELSE "pending"]

Abstract == INSTANCE ForwardCall WITH
  status <- absStatus, cancelled <- ctxDone, outcome <- absOutcome

\* Goroutines, channel and wait group together behave as ForwardCall says.
ImplementsForwardCall == Abstract!Spec
=============================================================================
