---------------------------- MODULE RequestQueue ----------------------------
(***************************************************************************)
(* What the scheduler promises whoever submits a request, without heap,    *)
(* channel, workers or shutdown: a request that Submit has accepted waits  *)
(* until it is delivered, keeps its rank, is delivered once and then       *)
(* handled; and no request is overtaken by more than Slack requests of     *)
(* lower rank while it waits.  It promises nothing any more once it is     *)
(* broken.                                                                 *)
(***************************************************************************)
EXTENDS Integers, FiniteSets

CONSTANTS
  Requests,
  Ranks,
  NoRank,  \* the rank of a request that is not accepted yet
  Slack    \* how many requests of lower rank may overtake a request

VARIABLES
  status,     \* "new", "waiting", "delivered", "handled"
  rank,
  overtakers, \* requests of lower rank that were delivered while it waited
  broken

vars == <<status, rank, overtakers, broken>>

Init ==
  /\ status = [r \in Requests |-> "new"]
  /\ rank = [r \in Requests |-> NoRank]
  /\ overtakers = [r \in Requests |-> {}]
  /\ ~broken

Accept(r) ==
  /\ status[r] = "new"
  /\ status' = [status EXCEPT ![r] = "waiting"]
  /\ \E p \in Ranks : rank' = [rank EXCEPT ![r] = p]
  /\ UNCHANGED <<overtakers, broken>>

Overtaken(r) == {q \in Requests : status[q] = "waiting" /\ rank[q] > rank[r]}

Deliver(r) ==
  /\ status[r] = "waiting"
  /\ status' = [status EXCEPT ![r] = "delivered"]
  /\ overtakers' = [q \in Requests |->
                      overtakers[q] \cup (IF q \in Overtaken(r) THEN {r} ELSE {})]
  /\ \A q \in Requests : Cardinality(overtakers'[q]) <= Slack
  /\ UNCHANGED <<rank, broken>>

Finish(r) ==
  /\ status[r] = "delivered"
  /\ status' = [status EXCEPT ![r] = "handled"]
  /\ UNCHANGED <<rank, overtakers, broken>>

\* From now on anything may happen.
Break == broken'

Next == Break \/ \E r \in Requests : Accept(r) \/ Deliver(r) \/ Finish(r)

Spec == Init /\ [][Next]_vars
=============================================================================
