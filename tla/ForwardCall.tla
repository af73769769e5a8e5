---------------------------- MODULE ForwardCall ----------------------------
(***************************************************************************)
(* What ForwardToMultipleDestinations promises the worker that calls it,   *)
(* without goroutines, channels or wait groups: each destination is        *)
(* settled once, a result is lost only when the call's context is done,    *)
(* and the call returns when every destination is settled.                 *)
(***************************************************************************)
CONSTANTS Calls, Dests

VARIABLES
  status,    \* "idle", "active", "returned"
  targets,   \* the destinations of the call
  cancelled, \* the call's context is done
  outcome    \* per call and destination

vars == <<status, targets, cancelled, outcome>>

Outcomes == {"pending", "ok", "failed", "dropped"}

TypeOK ==
  /\ status \in [Calls -> {"idle", "active", "returned"}]
  /\ targets \in [Calls -> SUBSET Dests]
  /\ cancelled \in [Calls -> BOOLEAN]
  /\ outcome \in [Calls \X Dests -> Outcomes]

Init ==
  /\ status = [c \in Calls |-> "idle"]
  /\ targets = [c \in Calls |-> {}]
  /\ cancelled = [c \in Calls |-> FALSE]
  /\ outcome = [p \in Calls \X Dests |-> "pending"]

Begin(c, D) ==
  /\ status[c] = "idle"
  /\ status' = [status EXCEPT ![c] = IF D = {} THEN "returned" ELSE "active"]
  /\ targets' = [targets EXCEPT ![c] = D]
  /\ UNCHANGED <<cancelled, outcome>>

\* The caller gives up, or the processing timeout passes.
Cancel(c) ==
  /\ ~cancelled[c]
  /\ cancelled' = [cancelled EXCEPT ![c] = TRUE]
  /\ UNCHANGED <<status, targets, outcome>>

Settle(c, d, o) ==
  /\ status[c] = "active"
  /\ d \in targets[c]
  /\ outcome[<<c, d>>] = "pending"
  /\ o = "dropped" => cancelled[c]
  /\ outcome' = [outcome EXCEPT ![<<c, d>>] = o]
  /\ UNCHANGED <<status, targets, cancelled>>

Return(c) ==
  /\ status[c] = "active"
  /\ \A d \in targets[c] : outcome[<<c, d>>] # "pending"
  /\ status' = [status EXCEPT ![c] = "returned"]
  /\ cancelled' = [cancelled EXCEPT ![c] = TRUE]
  /\ UNCHANGED <<targets, outcome>>

Next ==
  \E c \in Calls :
    \/ \E D \in SUBSET Dests : Begin(c, D)
    \/ Cancel(c)
    \/ \E d \in Dests, o \in {"ok", "failed", "dropped"} : Settle(c, d, o)
    \/ Return(c)

Spec == Init /\ [][Next]_vars
=============================================================================
