---------------------------- MODULE MCQoSManager ----------------------------
(* Instances of QoSManager for TLC. *)
EXTENDS QoSManager, TLC

\* Breaker and throttling on; BaseThreshold above BaseInterval, so that the
\* level is 1/2 at rest and grows with load and response time.
Strict ==
  [ breakerEnabled |-> TRUE, FailureThreshold |-> 2, RecoveryTimeout |-> 1,
    throttlingEnabled |-> TRUE, BaseInterval |-> 4, MaxInterval |-> 12,
    BaseThreshold |-> 8, MaxThreshold |-> 16, LoadThreshold |-> 80,
    HighLoadThreshold |-> 80, MaxLoad |-> 10, AdjustmentInterval |-> 1 ]

\* A lower failure threshold and a longer recovery, and no load_threshold in
\* the file.
Touchy == [Strict EXCEPT !.FailureThreshold = 1, !.RecoveryTimeout = 2,
                         !.LoadThreshold = 0]

\* The breaker off, and a level of one at rest.
Unbroken == [Strict EXCEPT !.breakerEnabled = FALSE, !.MaxInterval = 6]

\* Throttling off.
Unthrottled == [Strict EXCEPT !.throttlingEnabled = FALSE]

AllConfigs == {Strict, Touchy, Unbroken, Unthrottled}
StrictOnly == {Strict}

\* Observer load in hundredths, average response time (Second = 4).
CalmOrBusy == {<<0, 0>>, <<100, 8>>}
=============================================================================
