---------------------------- MODULE MCConfigReload ----------------------------
(* Instances of ConfigReload for TLC. *)
EXTENDS ConfigReload, TLC

\* A complete file with hot reload.
Complete ==
  [DefaultConfig EXCEPT !.QoS = [@ EXCEPT !.HotReload = TRUE]]

\* Another level, a limit without a load threshold, and a bot with routes only.
Production ==
  [Complete EXCEPT
     !.LogLevel = "production",
     !.Bots = {[Secret |-> TRUE, ForwardTo |-> {}, RegexRoutes |-> TRUE]},
     !.QoS = [@ EXCEPT !.MaxLoad = 50, !.LoadThreshold = 0]]

\* Next to nothing but the bots: hot reload is asked for without max_load, and
\* the pool of workers without base_priority.
Partial ==
  [Complete EXCEPT
     !.LogLevel = "", !.Port = FALSE,
     !.QoS = [MaxLoad |-> 0, HotReload |-> TRUE, LoadThreshold |-> 0],
     !.Scheduler = [BasePriority |-> 0, MaxPriority |-> 0, WorkerPoolSize |-> 2]]

\* A bot without a secret, and a level that zap does not know.
Secretless ==
  [Complete EXCEPT
     !.LogLevel = "unknown",
     !.Bots = {[Secret |-> FALSE, ForwardTo |-> {"url"}, RegexRoutes |-> FALSE]}]

AllContents == {Complete, Production, Partial, Secretless}
=============================================================================
