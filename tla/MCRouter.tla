------------------------------ MODULE MCRouter ------------------------------
(* Instances of Router for TLC. *)
EXTENDS Router, TLC

\* A dispatch at each stage of the checks, and each operation.
Dispatches == {<<a, "dispatch">> : a \in Auths}
Verified == {<<"verified", op>> : op \in Ops}
AllKinds == Dispatches \cup Verified
DispatchOnly == {<<"verified", "dispatch">>}

\* Bound: in a behaviour with an overlap of heap operations the services go on
\* and no request is cancelled before its ServeHTTP returns.
FewRaces ==
  raced # {} =>
    /\ ~ctxDone
    /\ \A r \in Requests : reqDone[r] => http[r] = "returned"

MCRouterFairSpec == RouterInit /\ [][RouterNext /\ FewRaces']_allVars /\ RouterFairness
=============================================================================
