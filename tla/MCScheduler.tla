---------------------------- MODULE MCScheduler ----------------------------
(* Instances of Scheduler for TLC. *)
EXTENDS Scheduler, TLC

CONSTANT Racers   \* bound: the requests of a behaviour with an overlap

Submitted == {r \in Requests : submit[r] # "new"}

\* Bound: once heap operations have overlapped, only Racers are submitted, all
\* of one priority, since the heap is out of order anyway.
FewRaces ==
  raced # {} =>
    /\ Submitted \subseteq Racers
    /\ \A r \in Submitted : priority[r] = 1

MCNext == Next /\ FewRaces'

MCSpec == Init /\ [][MCNext]_vars

MCFairSpec == MCSpec /\ Fairness
=============================================================================
