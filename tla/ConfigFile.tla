------------------------------ MODULE ConfigFile ------------------------------
(***************************************************************************)
(* What a configuration file says, and what Validate and SetDefaults make  *)
(* of it.  Of the fields of config.Config those are kept on which one of   *)
(* them or the reload depends; a field that the file leaves out has its    *)
(* zero value.  The two ports, which only matter at the start, are one.    *)
(***************************************************************************)
EXTENDS Naturals

LogLevels == {"", "development", "production", "unknown"}

\* ForwardTo is what url.Parse thinks of the targets of forward_to.
BotConfig ==
  [ Secret : BOOLEAN,                              \* it is not empty
    ForwardTo : SUBSET {"url", "malformed"},
    RegexRoutes : BOOLEAN ]                        \* there are some

QoSSection == [ MaxLoad : Nat, HotReload : BOOLEAN, LoadThreshold : Nat ]

SchedulerSection == [ BasePriority : Nat, MaxPriority : Nat, WorkerPoolSize : Nat ]

Config ==
  [ LogLevel : LogLevels, Port : BOOLEAN, Bots : SUBSET BotConfig,
    QoS : QoSSection, Scheduler : SchedulerSection ]

-----------------------------------------------------------------------------
(* The defaults.  Hot reload is off in them; LoadThreshold is 0.8, here in *)
(* hundredths.                                                             *)

DefaultQoS == [ MaxLoad |-> 100, HotReload |-> FALSE, LoadThreshold |-> 80 ]

DefaultScheduler ==
  [ BasePriority |-> 5, MaxPriority |-> 10, WorkerPoolSize |-> 10 ]

DefaultLogLevel == "development"

\* What GenerateDefaultConfig writes.
DefaultConfig ==
  [ LogLevel |-> DefaultLogLevel, Port |-> TRUE,
    Bots |-> {[Secret |-> TRUE, ForwardTo |-> {"url"}, RegexRoutes |-> TRUE]},
    QoS |-> DefaultQoS, Scheduler |-> DefaultScheduler ]

-----------------------------------------------------------------------------
ValidBot(b) ==
  /\ b.Secret
  /\ b.ForwardTo # {} \/ b.RegexRoutes
  /\ "malformed" \notin b.ForwardTo

Validate(c) == c.Bots # {} /\ \A b \in c.Bots : ValidBot(b)

\* One missing value replaces its whole section, and nothing else in a section
\* is filled in.
SetDefaults(c) ==
  [ c EXCEPT
      !.LogLevel = IF @ = "" THEN DefaultLogLevel ELSE @,
      !.Port = TRUE,
      !.QoS = IF @.MaxLoad = 0 THEN DefaultQoS ELSE @,
      !.Scheduler = IF @.BasePriority = 0 THEN DefaultScheduler ELSE @ ]
=============================================================================
