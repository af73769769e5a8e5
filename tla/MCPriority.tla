----------------------------- MODULE MCPriority -----------------------------
(* Instances of Priority for TLC. *)
EXTENDS Priority, TLC

\* GetDefaultSchedulerConfig.
Default ==
  [ BasePriority |-> 5, MinPriority |-> 1, MaxPriority |-> 10,
    HighLoadAdjustment |-> -2, LowLoadAdjustment |-> 1, analysis |-> 0 ]

\* Ranges below and above what the default configuration computes, and a
\* penalty that lowers.
Low == [Default EXCEPT !.MaxPriority = 4, !.BasePriority = 3,
                       !.HighLoadAdjustment = 4, !.analysis = 1]
High == [Default EXCEPT !.MinPriority = 20, !.MaxPriority = 30]

\* What a file with base_priority and min_priority, and no more, gives.
NoMax == [Default EXCEPT !.MaxPriority = 0, !.HighLoadAdjustment = 0,
                         !.LowLoadAdjustment = 0, !.analysis = 0]

AllConfigs == {Default, Low, High, NoMax}

Symmetry == Permutations(Users) \cup Permutations(Calls)
=============================================================================
