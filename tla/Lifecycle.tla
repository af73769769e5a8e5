------------------------------ MODULE Lifecycle ------------------------------
(***************************************************************************)
(* The life of the process: main starts the background services and the   *)
(* servers, waits for a signal, cancels the services' context, waits for   *)
(* the services, shuts the HTTPS server down and returns, which ends every *)
(* goroutine that is left.                                                 *)
(*                                                                         *)
(* The scheduler is module Scheduler; the other services (analyzer,        *)
(* observer, ML trainer, QoS manager) are loops over a ticker and the      *)
(* context.  A handler is reduced to whether it acknowledges a dispatch    *)
(* (module Router has its checks).  ServeHTTP may take arbitrarily long.   *)
(*                                                                         *)
(* The HTTP server for ACME challenges only matters when it fails.  The    *)
(* configuration watcher and its Stop, which never blocks, are module      *)
(* ConfigReload.                                                           *)
(***************************************************************************)
EXTENDS Scheduler

CONSTANT Tickers   \* the services whose Run is a loop over a ticker

SchedulerService == "scheduler"
Services == Tickers \cup {SchedulerService}

ASSUME LifecycleAssumption ==
  IsFiniteSet(Tickers) /\ SchedulerService \notin Tickers

VARIABLES
  main,      \* where main is
  exit,      \* how the process has ended
  sigChan,   \* the signal channel, of capacity one, is full
  wg,        \* counter of the service manager's wait group
  service,   \* the goroutine of each service
  server,    \* the HTTPS server
  http,      \* where each ServeHTTP is
  timedOut,  \* server.Shutdown has given up
  late       \* history: acknowledged after cancel()

serverVars == <<server, http>>
serviceVars == <<wg, service>>
historyVars == <<timedOut, late>>
lifeVars == <<main, exit, sigChan, serviceVars, serverVars, historyVars>>
systemVars == <<vars, lifeVars>>

LifeInit ==
  /\ Init
  /\ main = "boot" /\ exit = "none"
  /\ sigChan = FALSE
  /\ wg = 0
  /\ service = [s \in Services |-> "new"]
  /\ server = "off"
  /\ http = [r \in Requests |-> "none"]
  /\ timedOut = FALSE
  /\ late = {}

Alive == main # "exited" /\ ~crashed

\* The process ends, and all its goroutines with it.
End(how) == main' = "exited" /\ exit' = how

-----------------------------------------------------------------------------
(* main.                                                                   *)

\* Load, SetDefaults, the constructors, signal.Notify; or os.Exit(1).
Boot ==
  /\ main = "boot"
  /\ \/ main' = "notified" /\ UNCHANGED exit
     \/ End("failed")
  /\ UNCHANGED <<vars, sigChan, serviceVars, serverVars, historyVars>>

\* Mutants: wg.Add is missing; it stands before the loop.
Added_Nothing == 0
Added_Once == 1

\* wg.Add(1) for each service.
Added == Cardinality(Services)

\* serviceManager.StartAll
StartAll ==
  /\ main = "notified"
  /\ wg' = wg + Added
  /\ service' = [s \in Services |-> "spawned"]
  /\ main' = "started"
  /\ UNCHANGED <<vars, exit, sigChan, serverVars, historyVars>>

\* The watcher and the two server goroutines are started.
StartServers ==
  /\ main = "started"
  /\ server' = "launched"
  /\ main' = "awaiting"
  /\ UNCHANGED <<vars, exit, sigChan, serviceVars, http, historyVars>>

\* <-sigChan
ReceiveSignal ==
  /\ main = "awaiting" /\ sigChan
  /\ sigChan' = FALSE
  /\ main' = "cancelling"
  /\ UNCHANGED <<vars, exit, serviceVars, serverVars, historyVars>>

\* Mutant: cancel belongs to another context.
CancelServices_Shadowed ==
  /\ main = "cancelling"
  /\ main' = "waiting"
  /\ UNCHANGED <<vars, exit, sigChan, serviceVars, serverVars, historyVars>>

\* cancel()
CancelServices ==
  /\ main = "cancelling"
  /\ Cancel
  /\ main' = "waiting"
  /\ UNCHANGED <<exit, sigChan, serviceVars, serverVars, historyVars>>

\* Mutant: main does not wait for the services.
AllDone_Unchecked == TRUE

AllDone == wg = 0

\* WaitForAll returns; server.Shutdown closes the listener.
WaitForAll ==
  /\ main = "waiting" /\ AllDone
  /\ server' = "closed"
  /\ main' = "draining"
  /\ UNCHANGED <<vars, exit, sigChan, serviceVars, http, historyVars>>

ServicesCancelled == main \in {"waiting", "draining", "closing"}
ServicesStopped == main \in {"draining", "closing"} \/ exit = "graceful"

Handling(r) == http[r] \in {"serving", "returning"}

\* Mutant: server.Close, which does not wait for the handlers.
Drained_Close == TRUE

Drained == \A r \in Requests : ~Handling(r)

\* Mutant: Shutdown with a context that has no deadline.
Deadline_None == FALSE

\* context.WithTimeout(_, 30 s)
Deadline == TRUE

\* server.Shutdown returns: the handlers have returned, or the deadline has
\* passed.
Shutdown ==
  /\ main = "draining"
  /\ \/ Drained /\ UNCHANGED timedOut
     \/ Deadline /\ (\E r \in Requests : Handling(r)) /\ timedOut' = TRUE
  /\ main' = "closing"
  /\ UNCHANGED <<vars, exit, sigChan, serviceVars, serverVars, late>>

\* configWatcher.Stop, and main returns.
Return ==
  /\ main = "closing"
  /\ End("graceful")
  /\ UNCHANGED <<vars, sigChan, serviceVars, serverVars, historyVars>>

MainStep ==
  \/ Boot
  \/ StartAll
  \/ StartServers
  \/ ReceiveSignal
  \/ CancelServices
  \/ WaitForAll
  \/ Shutdown
  \/ Return

-----------------------------------------------------------------------------
(* Signals, failures of the servers.                                       *)

\* Before signal.Notify a signal kills the process; later it goes into the
\* channel, or is dropped when the channel is full.
Signal ==
  /\ IF main = "boot" THEN End("killed") /\ UNCHANGED sigChan
     ELSE sigChan' = TRUE /\ UNCHANGED <<main, exit>>
  /\ UNCHANGED <<vars, serviceVars, serverVars, historyVars>>

\* ListenAndServe or ListenAndServeTLS fails: logger.Fatal.
ServerFails ==
  /\ server # "off"
  /\ End("fatal")
  /\ UNCHANGED <<vars, sigChan, serviceVars, serverVars, historyVars>>

Listen ==
  /\ server = "launched"
  /\ server' = "listening"
  /\ UNCHANGED <<vars, main, exit, sigChan, serviceVars, http, historyVars>>

-----------------------------------------------------------------------------
(* The goroutines of the service manager.                                  *)

Begin(s) ==
  /\ service[s] = "spawned"
  /\ service' = [service EXCEPT ![s] = "running"]
  /\ UNCHANGED <<vars, main, exit, sigChan, wg, serverVars, historyVars>>

\* Run returns, and wg.Done is called.
Returns(s) ==
  /\ service[s] = "running"
  /\ IF s = SchedulerService THEN run = "stopped" ELSE ctxDone
  /\ service' = [service EXCEPT ![s] = "returned"]
  /\ wg' = wg - 1
  /\ UNCHANGED <<vars, main, exit, sigChan, serverVars, historyVars>>

\* Run of the scheduler, which starts the workers.
SchedulerRuns ==
  /\ service[SchedulerService] = "running"
  /\ RunStep
  /\ UNCHANGED lifeVars

Worker(w) ==
  /\ service[SchedulerService] \in {"running", "returned"}
  /\ WorkerStep(w)
  /\ UNCHANGED lifeVars

-----------------------------------------------------------------------------
(* Requests.                                                               *)

Arrive(r) ==
  /\ server = "listening" /\ http[r] = "none"
  /\ http' = [http EXCEPT ![r] = "serving"]
  /\ UNCHANGED <<vars, main, exit, sigChan, serviceVars, server, historyVars>>

\* Any reply that submits nothing.
Refuse(r) ==
  /\ http[r] = "serving"
  /\ http' = [http EXCEPT ![r] = "returned"]
  /\ UNCHANGED <<vars, main, exit, sigChan, serviceVars, server, historyVars>>

\* 200, and the goroutine that submits.
Acknowledge(r) ==
  /\ http[r] = "serving"
  /\ http' = [http EXCEPT ![r] = "returning"]
  /\ late' = IF ServicesCancelled THEN late \cup {r} ELSE late
  /\ UNCHANGED <<vars, main, exit, sigChan, serviceVars, server, timedOut>>

ServeReturns(r) ==
  /\ http[r] = "returning"
  /\ http' = [http EXCEPT ![r] = "accepted"]
  /\ UNCHANGED <<vars, main, exit, sigChan, serviceVars, server, historyVars>>

\* The goroutine, for which nobody waits.
Poster(r) ==
  /\ http[r] \in {"returning", "accepted"}
  /\ Submit(r) \/ Pushed(r)
  /\ UNCHANGED lifeVars

-----------------------------------------------------------------------------
LifeNext ==
  /\ Alive
  /\ \/ MainStep
     \/ Signal
     \/ ServerFails
     \/ Listen
     \/ \E s \in Services : Begin(s) \/ Returns(s)
     \/ SchedulerRuns
     \/ \E w \in Workers : Worker(w)
     \/ \E r \in Requests :
          \/ Arrive(r)
          \/ Refuse(r)
          \/ Acknowledge(r)
          \/ ServeReturns(r)
          \/ Poster(r)

LifeSpec == LifeInit /\ [][LifeNext]_systemVars

\* main, the services and Run are scheduled, and the deadline of Shutdown
\* passes.  Neither handlers nor workers have to make progress.
LifeFairness ==
  /\ WF_systemVars(Alive /\ MainStep)
  /\ \A s \in Services : WF_systemVars(Alive /\ (Begin(s) \/ Returns(s)))
  /\ WF_systemVars(Alive /\ SchedulerRuns)

LifeFairSpec == LifeSpec /\ LifeFairness

-----------------------------------------------------------------------------
(* Properties.                                                             *)

LifeTypeOK ==
  /\ TypeOK
  /\ main \in {"boot", "notified", "started", "awaiting", "cancelling",
               "waiting", "draining", "closing", "exited"}
  /\ exit \in {"none", "failed", "killed", "fatal", "graceful"}
  /\ (exit = "none") = (main # "exited")
  /\ {sigChan, timedOut} \subseteq BOOLEAN
  /\ wg \in 0..Cardinality(Services)
  /\ service \in [Services -> {"new", "spawned", "running", "returned"}]
  /\ server \in {"off", "launched", "listening", "closed"}
  /\ http \in [Requests -> {"none", "serving", "returning", "returned", "accepted"}]
  /\ late \subseteq Requests

\* main.go: "All background services stopped" is true when it is logged: Run
\* of every service has returned, one that was spawned and had not begun when
\* the signal came included, and the channel to the workers is closed.
AllServicesReturned ==
  ServicesStopped => closed /\ \A s \in Services : service[s] = "returned"

\* A handler is not cut off in the middle of its reply, unless Shutdown has
\* reported that the deadline has passed.
NoHandlerCutOff ==
  exit = "graceful" /\ ~timedOut => \A r \in Requests : ~Handling(r)

\* What Run has chosen, and what it has passed on.
Passed == {hand} \cup InPool \cup InWork \cup handled

\* The server is shut down after the services, so dispatches go on being
\* acknowledged after cancel().  They do not hold up the services' end: Run, even
\* if it had passed its check of the context, takes at most one of them out of
\* the heap.
AtMostOneLate == Cardinality(late \cap Passed) <= 1

\* A signal ends the process, wherever Run, the services and the handlers are
\* at that moment, and even if some handler never returns.
SignalEndsProcess == sigChan ~> main = "exited" \/ crashed
=============================================================================
