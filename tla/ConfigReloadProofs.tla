------------------------- MODULE ConfigReloadProofs -------------------------
(***************************************************************************)
(* What a reload may install, for all contents of the file, any number of  *)
(* reloads, overlapping or not, and any edits: a configuration is valid,   *)
(* unless it is the first one of the watcher, and has the fields that      *)
(* SetDefaults tests wherever it is used.  And where reloads do not        *)
(* overlap, the components converge on the file.                           *)
(*                                                                         *)
(* The invariant is about what the reload goroutines hold: a configuration *)
(* that has passed Load is valid and went through SetDefaults, until the   *)
(* goroutine starts its next reload.  For convergence it says how far a    *)
(* change has come: a write is still to be loaded, or the goroutine that   *)
(* loaded it still has to install it, or the component has it.             *)
(***************************************************************************)
EXTENDS ConfigReload, TLAPS

\* The values that TestedDefaultsSet is about.
HasTested(c) ==
  /\ c.QoS.MaxLoad # 0
  /\ c.Scheduler.BasePriority # 0
  /\ c.Port /\ c.LogLevel # ""

\* What the reload goroutines hold.
HeldFit ==
  \A i \in Reloads :
    /\ HasTested(new[i])
    /\ reload[i] \notin {"idle", "load"} => Validate(new[i])

IInv == TypeOK /\ TestedDefaultsSet /\ HeldFit

-----------------------------------------------------------------------------
(* Validate and SetDefaults.                                               *)

LEMMA DefaultConfigType == DefaultConfig \in Config
BY DEF DefaultConfig, Config, DefaultQoS, DefaultScheduler, DefaultLogLevel,
       LogLevels, BotConfig, QoSSection, SchedulerSection

\* The file that the program writes when there is none passes its own check.
THEOREM DefaultConfigValid == Validate(DefaultConfig)
<1> DEFINE bot == [Secret |-> TRUE, ForwardTo |-> {"url"}, RegexRoutes |-> TRUE]
<1>1. DefaultConfig.Bots = {bot}
  BY DEF DefaultConfig
<1>2. bot.Secret /\ bot.ForwardTo = {"url"}
  OBVIOUS
<1>3. ValidBot(bot)
  <2> HIDE DEF bot
  <2>1. "malformed" \notin {"url"} /\ {"url"} # {}
    OBVIOUS
  <2> QED
    BY <1>2, <2>1 DEF ValidBot
<1> HIDE DEF bot
<1> QED
  BY <1>1, <1>3 DEF Validate

LEMMA SetDefaultsType ==
  ASSUME NEW c \in Config
  PROVE  SetDefaults(c) \in Config
<1>1. /\ c.LogLevel \in LogLevels /\ c.QoS \in QoSSection
      /\ c.Scheduler \in SchedulerSection
  BY DEF Config
<1>2. DefaultLogLevel \in LogLevels /\ DefaultQoS \in QoSSection
      /\ DefaultScheduler \in SchedulerSection
  BY DEF DefaultLogLevel, LogLevels, DefaultQoS, QoSSection, DefaultScheduler,
         SchedulerSection
<1> DEFINE level == IF c.LogLevel = "" THEN DefaultLogLevel ELSE c.LogLevel
           qos == IF c.QoS.MaxLoad = 0 THEN DefaultQoS ELSE c.QoS
           sched == IF c.Scheduler.BasePriority = 0 THEN DefaultScheduler
                    ELSE c.Scheduler
<1>3. level \in LogLevels /\ qos \in QoSSection /\ sched \in SchedulerSection
  BY <1>1, <1>2
<1>4. SetDefaults(c) = [c EXCEPT !.LogLevel = level, !.Port = TRUE,
                                 !.QoS = qos, !.Scheduler = sched]
  BY DEF SetDefaults, Config
<1> HIDE DEF level, qos, sched
<1> QED
  BY <1>3, <1>4 DEF Config

LEMMA SetDefaultsFills ==
  ASSUME NEW c \in Config
  PROVE  HasTested(SetDefaults(c))
<1> DEFINE d == SetDefaults(c)
<1>1. d.Port
  BY DEF SetDefaults, Config
<1>2. d.LogLevel # ""
  BY DEF SetDefaults, Config, DefaultLogLevel
<1>3. d.QoS.MaxLoad # 0
  <2>1. d.QoS = IF c.QoS.MaxLoad = 0 THEN DefaultQoS ELSE c.QoS
    BY DEF SetDefaults, Config
  <2> HIDE DEF d
  <2> QED
    BY <2>1 DEF DefaultQoS
<1>4. d.Scheduler.BasePriority # 0
  <2>1. d.Scheduler = IF c.Scheduler.BasePriority = 0 THEN DefaultScheduler
                      ELSE c.Scheduler
    BY DEF SetDefaults, Config
  <2> HIDE DEF d
  <2> QED
    BY <2>1 DEF DefaultScheduler
<1> QED
  BY <1>1, <1>2, <1>3, <1>4 DEF HasTested

\* The defaults touch nothing that Validate looks at, so validating first, as
\* reloadConfig does, and setting defaults first come to the same.
THEOREM ValidateCommutes ==
  ASSUME NEW c \in Config
  PROVE  Validate(SetDefaults(c)) <=> Validate(c)
<1>1. SetDefaults(c).Bots = c.Bots
  BY DEF SetDefaults, Config
<1> QED
  BY <1>1 DEF Validate

-----------------------------------------------------------------------------
(* Load.                                                                   *)

LEMMA LoadedType ==
  ASSUME TypeOK
  PROVE  Loaded \in Files /\ (Loaded # Unparsable => Loaded \in Config)
<1>1. file \in Files /\ Contents \subseteq Config
  BY ReloadAssumption DEF TypeOK
<1>2. DefaultConfig \in Config
  BY DefaultConfigType
<1> QED
  BY <1>1, <1>2 DEF Loaded, Files, Parsed

LEMMA InitInv == Init => IInv
<1> SUFFICES ASSUME Init
             PROVE  IInv
  OBVIOUS
<1>1. file \in Config
  BY ReloadAssumption DEF Init
<1>2. SetDefaults(file) \in Config /\ HasTested(SetDefaults(file))
  BY <1>1, SetDefaultsType, SetDefaultsFills
<1>3. LoggerOf(SetDefaults(file).LogLevel) \in {"development", "production"}
  BY DEF LoggerOf
<1>4. edits \in 0..MaxEdits
  BY ReloadAssumption DEF Init
<1>5. TypeOK
  BY <1>2, <1>3, <1>4 DEF Init, TypeOK, Files, Parsed
<1>6. TestedDefaultsSet
  BY <1>2 DEF Init, TestedDefaultsSet, HasTested
<1>7. HeldFit
  BY <1>2 DEF Init, HeldFit
<1> QED
  BY <1>5, <1>6, <1>7 DEF IInv

\* A critical section of a reload that replaces one component's pointer.
LEMMA InstallStep ==
  ASSUME IInv, NEW i \in Reloads, NEW x \in Followers,
         NEW next \in {"idle", "logger"} \cup Followers, Install(i, x, next)
  PROVE  /\ installed' \in [Components -> Config]
         /\ reload' \in [Reloads -> {"idle", "load", "logger"} \cup Followers]
         /\ TestedDefaultsSet' /\ HeldFit'
         /\ \A y \in Components : installed'[y] # installed[y] =>
              Validate(installed'[y])
<1>1. /\ reload \in [Reloads -> {"idle", "load", "logger"} \cup Followers]
      /\ installed \in [Components -> Config] /\ new \in [Reloads -> Config]
      /\ reload[i] = x /\ x \in Components
      /\ installed' = [installed EXCEPT ![x] = new[i]]
      /\ reload' = [reload EXCEPT ![i] = next]
      /\ new' = new
  BY DEF IInv, TypeOK, Install, reloadVars, Components
<1>2. HasTested(new[i]) /\ Validate(new[i])
  BY <1>1 DEF IInv, HeldFit, Followers
<1>3. \A y \in Components : installed'[y] = IF y = x THEN new[i] ELSE installed[y]
  BY <1>1
<1>4. \A j \in Reloads : reload'[j] = IF j = i THEN next ELSE reload[j]
  BY <1>1
<1>5. TestedDefaultsSet'
  BY <1>2, <1>3 DEF IInv, TestedDefaultsSet, HasTested
<1>6. HeldFit'
  BY <1>1, <1>2, <1>4 DEF IInv, HeldFit
<1> QED
  BY <1>1, <1>2, <1>3, <1>5, <1>6

LEMMA StepInv == IInv /\ [Next]_vars => IInv'
<1> SUFFICES ASSUME IInv, [Next]_vars
             PROVE  IInv'
  OBVIOUS
<1> USE DEF fileVars, watcherVars, reloadVars
<1>0. TypeOK /\ TestedDefaultsSet /\ HeldFit
  BY DEF IInv
<1>1. ASSUME NEW c \in Contents \cup {Unparsable}, Write(c)
      PROVE  IInv'
  <2>1. edits' \in 0..MaxEdits
    BY <1>0, <1>1, ReloadAssumption DEF Write, Edited, TypeOK
  <2>2. TypeOK'
    BY <1>0, <1>1, <2>1 DEF Write, TypeOK, Files, Parsed
  <2> QED
    BY <1>0, <1>1, <2>2 DEF Write, IInv, TestedDefaultsSet, HeldFit
<1>2. ASSUME NEW c \in Contents \cup {Unparsable, Missing}, Replace(c)
      PROVE  IInv'
  <2>1. edits' \in 0..MaxEdits
    BY <1>0, <1>2, ReloadAssumption DEF Replace, Edited, TypeOK
  <2>2. TypeOK'
    BY <1>0, <1>2, <2>1 DEF Replace, TypeOK, Files, Parsed
  <2> QED
    BY <1>0, <1>2, <2>2 DEF Replace, IInv, TestedDefaultsSet, HeldFit
<1>3. CASE NewConfigWatcher
  <2>1. Loaded \in Files /\ (Loaded # Unparsable => Loaded \in Config)
    BY <1>0, LoadedType
  <2>2. /\ installed' \in [Components -> Config]
        /\ \A x \in Components \ {"watcher"} : installed'[x] = installed[x]
    BY <1>0, <1>3, <2>1 DEF NewConfigWatcher, TypeOK
  <2>3. TypeOK'
    BY <1>0, <1>3, <2>1, <2>2 DEF NewConfigWatcher, LoadFile, TypeOK
  <2>4. TestedDefaultsSet'
    BY <1>0, <2>2 DEF TestedDefaultsSet
  <2>5. HeldFit'
    BY <1>0, <1>3 DEF NewConfigWatcher, HeldFit
  <2> QED
    BY <2>3, <2>4, <2>5 DEF IInv
<1>4. CASE NoHotReload \/ Start \/ HandleEvent \/ Stop \/ ExitLoop
  <2>1. TypeOK'
    BY <1>0, <1>4
    DEF TypeOK, NoHotReload, Start, HandleEvent, Rearmed, Stop, ExitLoop
  <2>2. UNCHANGED <<installed, reload, new>>
    BY <1>4 DEF NoHotReload, Start, HandleEvent, Stop, ExitLoop
  <2> QED
    BY <1>0, <2>1, <2>2 DEF IInv, TestedDefaultsSet, HeldFit
<1>5. ASSUME NEW i \in Reloads, Fire(i)
      PROVE  IInv'
  <2>1. TypeOK'
    BY <1>0, <1>5 DEF TypeOK, Fire
  <2>2. HeldFit'
    BY <1>0, <1>5 DEF TypeOK, HeldFit, Fire
  <2> QED
    BY <1>0, <1>5, <2>1, <2>2 DEF IInv, TestedDefaultsSet, Fire
<1>6. ASSUME NEW i \in Reloads, Load(i)
      PROVE  IInv'
  <2>1. Loaded \in Files /\ (Loaded # Unparsable => Loaded \in Config)
    BY <1>0, LoadedType
  <2>2. Accepted(Loaded) =>
          /\ Completed(Loaded) \in Config
          /\ HasTested(Completed(Loaded)) /\ Validate(Completed(Loaded))
    BY <2>1, SetDefaultsType, SetDefaultsFills, ValidateCommutes
    DEF Accepted, Completed
  <2>3. TypeOK'
    BY <1>0, <1>6, <2>1, <2>2 DEF Load, LoadFile, TypeOK, Followers
  <2>4. HeldFit'
    <3>1. CASE Accepted(Loaded) /\ new' = [new EXCEPT ![i] = Completed(Loaded)]
                 /\ reload' = [reload EXCEPT ![i] = "watcher"]
      BY <1>0, <2>2, <3>1 DEF TypeOK, HeldFit
    <3>2. CASE reload' = [reload EXCEPT ![i] = "idle"] /\ new' = new
      BY <1>0, <3>2 DEF TypeOK, HeldFit
    <3> QED
      BY <1>6, <3>1, <3>2 DEF Load
  <2> QED
    BY <1>0, <1>6, <2>3, <2>4 DEF IInv, TestedDefaultsSet, Load
<1>7. ASSUME NEW i \in Reloads,
             InstallWatcher(i) \/ InstallMain(i) \/ InstallQoS(i)
               \/ InstallScheduler(i)
      PROVE  IInv'
  <2>1. PICK x \in Followers, next \in {"idle", "logger"} \cup Followers :
          Install(i, x, next)
    BY <1>7 DEF InstallWatcher, InstallMain, InstallQoS, InstallScheduler,
                AfterReload, Followers
  <2>2. /\ installed' \in [Components -> Config]
        /\ reload' \in [Reloads -> {"idle", "load", "logger"} \cup Followers]
        /\ TestedDefaultsSet' /\ HeldFit'
    BY <2>1, InstallStep
  <2>3. old' \in [Reloads -> Config]
    BY <1>0, <1>7 DEF TypeOK, InstallWatcher, InstallMain, InstallQoS,
                      InstallScheduler, Components, Followers
  <2>4. UNCHANGED <<file, edits, missed, boot, watched, event, armed, loop,
                    stopped, new, logger>>
    BY <1>7 DEF InstallWatcher, InstallMain, InstallQoS, InstallScheduler,
                Install
  <2>5. TypeOK'
    BY <1>0, <2>2, <2>3, <2>4 DEF TypeOK
  <2> QED
    BY <2>2, <2>5 DEF IInv
<1>8. ASSUME NEW i \in Reloads, InstallLogger(i)
      PROVE  IInv'
  <2>1. logger' \in {"development", "production"}
    BY <1>0, <1>8 DEF TypeOK, InstallLogger, LoggerOf
  <2>2. TypeOK'
    BY <1>0, <1>8, <2>1 DEF TypeOK, InstallLogger, Followers
  <2>3. HeldFit'
    BY <1>0, <1>8 DEF TypeOK, HeldFit, InstallLogger
  <2> QED
    BY <1>0, <1>8, <2>2, <2>3 DEF IInv, TestedDefaultsSet, InstallLogger
<1>9. CASE UNCHANGED vars
  BY <1>0, <1>9 DEF vars, IInv, TypeOK, TestedDefaultsSet, HeldFit
<1> QED
  BY <1>1, <1>2, <1>3, <1>4, <1>5, <1>6, <1>7, <1>8, <1>9 DEF Next, Reload

\* The invariant holds throughout.
THEOREM Invariance == Spec => []IInv
BY InitInv, StepInv, PTL DEF Spec

-----------------------------------------------------------------------------
\* The file, the watcher, the reloads and the components keep their types.
THEOREM TypeCorrect == Spec => []TypeOK
<1>1. IInv => TypeOK
  BY DEF IInv
<1> QED
  BY <1>1, Invariance, PTL

\* No component ever works with a configuration that lacks a field which
\* SetDefaults tests.
THEOREM TestedDefaults == Spec => []TestedDefaultsSet
<1>1. IInv => TestedDefaultsSet
  BY DEF IInv
<1> QED
  BY <1>1, Invariance, PTL

\* However edits and reloads interleave, what is installed has been validated.
THEOREM OnlyValid == Spec => OnlyValidInstalled
<1> DEFINE ValidStep ==
     \A x \in Components :
       installed'[x] # installed[x] =>
         Validate(installed'[x]) \/ (x = "watcher" /\ boot = "loaded")
<1>1. IInv /\ [Next]_vars => [ValidStep]_vars
  <2> SUFFICES ASSUME IInv, Next
               PROVE  ValidStep
    OBVIOUS
  <2> USE DEF fileVars, watcherVars, reloadVars
  <2>1. CASE NewConfigWatcher
    <3>1. installed \in [Components -> Config]
      BY DEF IInv, TypeOK
    <3> QED
      BY <2>1, <3>1 DEF NewConfigWatcher
  <2>2. ASSUME NEW i \in Reloads,
               InstallWatcher(i) \/ InstallMain(i) \/ InstallQoS(i)
                 \/ InstallScheduler(i)
        PROVE  ValidStep
    <3>1. PICK x \in Followers, next \in {"idle", "logger"} \cup Followers :
            Install(i, x, next)
      BY <2>2 DEF InstallWatcher, InstallMain, InstallQoS, InstallScheduler,
                  AfterReload, Followers
    <3> QED
      BY <3>1, InstallStep
  <2>3. CASE UNCHANGED installed
    BY <2>3
  <2>4. ASSUME NEW i \in Reloads, Fire(i) \/ Load(i) \/ InstallLogger(i)
        PROVE  UNCHANGED installed
    BY <2>4 DEF Fire, Load, InstallLogger
  <2>5. NoHotReload \/ Start \/ HandleEvent \/ Stop \/ ExitLoop
          => UNCHANGED installed
    BY DEF NoHotReload, Start, HandleEvent, Stop, ExitLoop
  <2>6. ASSUME NEW c, Write(c) \/ Replace(c)
        PROVE  UNCHANGED installed
    BY <2>6 DEF Write, Replace
  <2> QED
    BY <2>1, <2>2, <2>3, <2>4, <2>5, <2>6 DEF Next, Reload
<1> QED
  BY <1>1, Invariance, PTL DEF Spec, OnlyValidInstalled

-----------------------------------------------------------------------------
(* Convergence, for reloads that do not overlap.                           *)

\* What a reload goroutine that has got this far has yet to install.
Pending(stage) ==
  CASE stage = "watcher" -> {"watcher", "main", "qos", "scheduler"}
    [] stage = "main" -> {"main", "qos", "scheduler"}
    [] stage \in {"logger", "qos"} -> {"qos", "scheduler"}
    [] stage = "scheduler" -> {"scheduler"}
    [] OTHER -> {}

\* At most one reload is under way.
Single == \A i, j \in Reloads : reload[i] # "idle" /\ reload[j] # "idle" => i = j

\* The file only disappears in a way that the watcher misses.
FileThere == ~missed => file # Missing

\* The logger follows main's configuration, except between the two steps of
\* handleConfigReload, when it follows the one before.
LoggerFollows ==
  \/ /\ \A i \in Reloads : reload[i] # "logger"
     /\ logger = LoggerOf(installed["main"].LogLevel)
  \/ \E i \in Reloads :
       /\ reload[i] = "logger"
       /\ logger = LoggerOf(old[i].LogLevel)
       /\ new[i] = installed["main"]

GoodFile == ~missed /\ ~stopped /\ file # Unparsable /\ Validate(file)

\* A write waits to be loaded.
Due == event \/ armed \/ \E i \in Reloads : reload[i] = "load"

UpToDate(x) ==
  \/ installed[x] = SetDefaults(file)
  \/ x = "watcher" /\ installed[x] = file

\* The file has been loaded, and is installed wherever no goroutine is still
\* going to install it.
Progressed ==
  /\ \A i \in Reloads : reload[i] # "idle" => new[i] = SetDefaults(file)
  /\ \A x \in Followers :
       UpToDate(x) \/ \E i \in Reloads : x \in Pending(reload[i])

Synced == GoodFile => Due \/ Progressed

CInv == IInv /\ Single /\ FileThere /\ LoggerFollows /\ Synced

LEMMA SyncInit == Init => CInv
<1> SUFFICES ASSUME Init
             PROVE  CInv
  OBVIOUS
<1>1. Single
  BY DEF Init, Single
<1>2. FileThere
  <2>1. Contents \subseteq Config /\ Missing \notin Config
    BY ReloadAssumption
  <2> QED
    BY <2>1 DEF Init, FileThere
<1>3. LoggerFollows
  BY DEF Init, LoggerFollows, Components, Followers
<1>4. Synced
  BY DEF Init, Synced, Progressed, UpToDate, Components
<1> QED
  BY <1>1, <1>2, <1>3, <1>4, InitInv DEF CInv

\* Steps that leave the reload goroutines and the components alone.
LEMMA QuietStep ==
  ASSUME CInv, UNCHANGED <<reload, new, old, installed, logger>>
  PROVE  Single' /\ LoggerFollows'
BY DEF CInv, Single, LoggerFollows

\* One critical section of a reload that replaces a component's pointer.
LEMMA InstallProgress ==
  ASSUME CInv, NEW i \in Reloads, NEW x \in Followers,
         NEW next \in {"idle", "logger"} \cup Followers, Install(i, x, next),
         Pending(next) = Pending(x) \ {x}
  PROVE  Single' /\ FileThere' /\ Synced'
<1> USE DEF fileVars, watcherVars
<1>1. /\ reload \in [Reloads -> {"idle", "load", "logger"} \cup Followers]
      /\ installed \in [Components -> Config]
      /\ x \in Components /\ x # "idle" /\ x # "load"
      /\ Single /\ FileThere /\ Synced
  BY DEF CInv, IInv, TypeOK, Components, Followers
<1>2. /\ reload[i] = x /\ new' = new
      /\ UNCHANGED <<file, missed, stopped, event, armed>>
      /\ \A j \in Reloads : reload'[j] = IF j = i THEN next ELSE reload[j]
      /\ \A y \in Components :
           installed'[y] = IF y = x THEN new[i] ELSE installed[y]
  BY <1>1 DEF Install
<1>3. \A j \in Reloads : j # i => reload[j] = "idle"
  BY <1>1, <1>2 DEF Single
<1>4. Single'
  BY <1>2, <1>3 DEF Single
<1>5. FileThere'
  BY <1>1, <1>2 DEF FileThere
<1>6. Synced'
  <2> SUFFICES ASSUME GoodFile', ~Due'
               PROVE  Progressed'
    BY DEF Synced
  <2>1. GoodFile /\ ~Due
    BY <1>1, <1>2, <1>3 DEF GoodFile, Due
  <2>2. Progressed
    BY <1>1, <2>1 DEF Synced
  <2>3. new[i] = SetDefaults(file)
    BY <1>1, <1>2, <2>2 DEF Progressed
  <2>4. \A j \in Reloads : reload'[j] # "idle" => new'[j] = SetDefaults(file)
    BY <1>2, <1>3, <2>3
  <2>5. ASSUME NEW y \in Followers
        PROVE  UpToDate(y)' \/ \E j \in Reloads : y \in Pending(reload'[j])
    <3>1. y \in Components
      BY DEF Components
    <3>2. CASE y = x
      BY <1>2, <2>3, <3>1, <3>2 DEF UpToDate
    <3>3. CASE y # x /\ UpToDate(y)
      BY <1>2, <3>1, <3>3 DEF UpToDate
    <3>4. CASE y # x /\ \E j \in Reloads : y \in Pending(reload[j])
      <4>1. PICK j \in Reloads : y \in Pending(reload[j])
        BY <3>4
      <4>2. Pending("idle") = {}
        BY DEF Pending
      <4>3. j = i
        BY <1>3, <4>1, <4>2
      <4> QED
        BY <1>2, <3>4, <4>1, <4>3
    <3> QED
      BY <2>2, <3>2, <3>3, <3>4 DEF Progressed
  <2> QED
    BY <1>2, <2>4, <2>5 DEF Progressed
<1> QED
  BY <1>4, <1>5, <1>6

LEMMA PendingSteps ==
  /\ Pending("main") = Pending("watcher") \ {"watcher"}
  /\ Pending("logger") = Pending("main") \ {"main"}
  /\ Pending("qos") = Pending("logger")
  /\ Pending("scheduler") = Pending("qos") \ {"qos"}
  /\ Pending("idle") = Pending("scheduler") \ {"scheduler"}
BY DEF Pending

LEMMA SyncStep == Exclusive /\ CInv /\ [Next]_vars => CInv'
<1> SUFFICES ASSUME Exclusive, CInv, [Next]_vars
             PROVE  CInv'
  OBVIOUS
<1> USE DEF fileVars, watcherVars, reloadVars
<1>0. /\ TypeOK /\ Single /\ FileThere /\ LoggerFollows /\ Synced
      /\ reload \in [Reloads -> {"idle", "load", "logger"} \cup Followers]
      /\ installed \in [Components -> Config]
      /\ new \in [Reloads -> Config] /\ old \in [Reloads -> Config]
  BY DEF CInv, IInv, TypeOK
<1>00. IInv'
  BY StepInv DEF CInv
<1>1. ASSUME NEW c \in Contents \cup {Unparsable}, Write(c)
      PROVE  CInv'
  <2>1. Single' /\ LoggerFollows'
    BY <1>1, QuietStep DEF Write
  <2>2. FileThere'
    BY <1>0, <1>1, ReloadAssumption DEF Write, FileThere
  <2>3. Synced'
    BY <1>0, <1>1 DEF Write, Synced, GoodFile, Due, TypeOK
  <2> QED
    BY <1>00, <2>1, <2>2, <2>3 DEF CInv
<1>2. ASSUME NEW c \in Contents \cup {Unparsable, Missing}, Replace(c)
      PROVE  CInv'
  <2>1. Single' /\ LoggerFollows'
    BY <1>2, QuietStep DEF Replace
  <2>2. FileThere' /\ Synced'
    BY <1>2 DEF Replace, FileThere, Synced, GoodFile
  <2> QED
    BY <1>00, <2>1, <2>2 DEF CInv
<1>3. CASE NewConfigWatcher
  <2>1. /\ UNCHANGED <<reload, new, old, logger, missed, stopped, event, armed>>
        /\ file' = Loaded
        /\ \A x \in Components \ {"watcher"} : installed'[x] = installed[x]
        /\ installed'["watcher"] \in {installed["watcher"], Loaded}
    BY <1>0, <1>3 DEF NewConfigWatcher, LoadFile, Components, Followers
  <2>2. ~missed => file' = file
    BY <1>0, <2>1 DEF FileThere, Loaded
  <2>3. Single'
    BY <1>0, <2>1 DEF Single
  <2>4. LoggerFollows'
    BY <1>0, <2>1 DEF LoggerFollows, Components, Followers
  <2>5. FileThere'
    BY <1>0, <2>1, <2>2 DEF FileThere
  <2>6. Synced'
    <3> SUFFICES ASSUME GoodFile', ~Due'
                 PROVE  Progressed'
      BY DEF Synced
    <3>1. file' = file /\ GoodFile /\ ~Due
      BY <2>1, <2>2 DEF GoodFile, Due
    <3>2. Progressed
      BY <1>0, <3>1 DEF Synced
    <3>3. ASSUME NEW x \in Followers
          PROVE  UpToDate(x) => UpToDate(x)'
      <4>1. x \in Components
        BY DEF Components
      <4>2. CASE installed'[x] = installed[x]
        BY <3>1, <4>2 DEF UpToDate
      <4>3. CASE x = "watcher" /\ installed'[x] = file'
        BY <4>3 DEF UpToDate
      <4> QED
        BY <2>1, <4>1, <4>2, <4>3
    <3>4. \A i \in Reloads : reload'[i] # "idle" => new'[i] = SetDefaults(file')
      BY <2>1, <3>1, <3>2 DEF Progressed
    <3>5. ASSUME NEW x \in Followers
          PROVE  UpToDate(x)' \/ \E i \in Reloads : x \in Pending(reload'[i])
      BY <2>1, <3>2, <3>3 DEF Progressed
    <3> QED
      BY <3>4, <3>5 DEF Progressed
  <2> QED
    BY <1>00, <2>3, <2>4, <2>5, <2>6 DEF CInv
<1>4. CASE NoHotReload \/ Start \/ HandleEvent \/ Stop \/ ExitLoop
  <2>1. /\ UNCHANGED <<reload, new, old, installed, logger, file, missed>>
        /\ \/ stopped'
           \/ stopped' = stopped /\ armed'
           \/ stopped' = stopped /\ UNCHANGED <<event, armed>>
    <3>1. CASE NoHotReload \/ Start
      BY <3>1 DEF NoHotReload, Start
    <3>2. CASE HandleEvent
      BY <3>2 DEF HandleEvent, Rearmed
    <3>3. CASE Stop
      BY <3>3 DEF Stop
    <3>4. CASE ExitLoop
      <4>1. stopped' = stopped /\ stopped = TRUE
        BY <1>0, <3>4 DEF ExitLoop, TypeOK
      <4> QED
        BY <3>4, <4>1 DEF ExitLoop
    <3> QED
      BY <1>4, <3>1, <3>2, <3>3, <3>4
  <2>2. Single' /\ LoggerFollows'
    BY <2>1, QuietStep
  <2>3. FileThere'
    BY <1>0, <2>1 DEF FileThere
  <2>4. Synced'
    <3> SUFFICES ASSUME GoodFile', ~Due'
                 PROVE  Progressed'
      BY DEF Synced
    <3>1. GoodFile /\ ~Due
      BY <2>1 DEF GoodFile, Due
    <3> QED
      BY <1>0, <2>1, <3>1 DEF Synced, Progressed, UpToDate
  <2> QED
    BY <1>00, <2>2, <2>3, <2>4 DEF CInv
<1>5. ASSUME NEW i \in Reloads, Fire(i)
      PROVE  CInv'
  <2>1. /\ UNCHANGED <<new, old, installed, logger, file, missed>>
        /\ \A j \in Reloads : reload[j] = "idle"
        /\ \A j \in Reloads : reload'[j] = IF j = i THEN "load" ELSE "idle"
    BY <1>0, <1>5 DEF Fire
  <2>2. Single'
    BY <2>1 DEF Single
  <2>3. LoggerFollows'
    BY <1>0, <2>1 DEF LoggerFollows
  <2>4. FileThere' /\ Synced'
    BY <1>0, <2>1 DEF FileThere, Synced, Due
  <2> QED
    BY <1>00, <2>2, <2>3, <2>4 DEF CInv
<1>6. ASSUME NEW i \in Reloads, Load(i)
      PROVE  CInv'
  <2>1. /\ reload[i] = "load" /\ file' = Loaded
        /\ UNCHANGED <<old, installed, logger, missed, stopped, event, armed>>
        /\ reload'[i] \in {"idle", "watcher"}
        /\ \A j \in Reloads : j # i => reload'[j] = reload[j]
    BY <1>0, <1>6 DEF Load, LoadFile
  <2>2. ~missed => file' = file
    BY <1>0, <2>1 DEF FileThere, Loaded
  <2>3. \A j \in Reloads : j # i => reload[j] = "idle" /\ reload'[j] = "idle"
    BY <1>0, <2>1 DEF Single
  <2>4. Single'
    BY <2>3 DEF Single
  <2>5. LoggerFollows'
    BY <1>0, <2>1, <2>3 DEF LoggerFollows
  <2>6. FileThere'
    BY <1>0, <2>1, <2>2 DEF FileThere
  <2>7. Synced'
    <3> SUFFICES ASSUME GoodFile'
                 PROVE  Progressed'
      BY DEF Synced
    <3>1. file' = file /\ Accepted(Loaded) /\ Loaded = file
      BY <2>1, <2>2 DEF GoodFile, Accepted
    <3>2. reload'[i] = "watcher" /\ new'[i] = SetDefaults(file)
      BY <1>0, <1>6, <3>1 DEF Load, Completed
    <3>3. Pending("watcher") = Followers
      BY DEF Pending, Followers
    <3> QED
      BY <2>3, <3>1, <3>2, <3>3 DEF Progressed
  <2> QED
    BY <1>00, <2>4, <2>5, <2>6, <2>7 DEF CInv
<1>7. ASSUME NEW i \in Reloads, InstallMain(i)
      PROVE  CInv'
  <2>1. /\ Install(i, "main", "logger") /\ logger' = logger
        /\ old' = [old EXCEPT ![i] = installed["main"]]
    BY <1>7 DEF InstallMain
  <2>2. Single' /\ FileThere' /\ Synced'
    BY <2>1, InstallProgress, PendingSteps DEF Followers
  <2>3. \A j \in Reloads : reload[j] # "logger"
    BY <1>0, <2>1 DEF Install, Single
  <2>4. logger = LoggerOf(installed["main"].LogLevel)
    BY <1>0, <2>3 DEF LoggerFollows
  <2>5. /\ reload'[i] = "logger" /\ old'[i] = installed["main"]
        /\ new'[i] = installed'["main"]
    BY <1>0, <2>1 DEF Install, Components, Followers
  <2>6. LoggerFollows'
    BY <2>1, <2>4, <2>5 DEF LoggerFollows
  <2> QED
    BY <1>00, <2>2, <2>6 DEF CInv
<1>8. ASSUME NEW i \in Reloads,
             InstallWatcher(i) \/ InstallQoS(i) \/ InstallScheduler(i)
      PROVE  CInv'
  <2>1. PICK x \in Followers \ {"main"}, next \in {"idle"} \cup Followers :
          Install(i, x, next) /\ Pending(next) = Pending(x) \ {x}
    BY <1>8, PendingSteps
    DEF InstallWatcher, InstallQoS, InstallScheduler, AfterReload, Followers
  <2>2. Single' /\ FileThere' /\ Synced'
    BY <2>1, InstallProgress
  <2>3. \A j \in Reloads : reload[j] # "logger" /\ reload'[j] # "logger"
    BY <1>0, <2>1 DEF Install, Single, Followers
  <2>4. installed'["main"] = installed["main"] /\ logger' = logger
    BY <1>0, <1>8, <2>1
    DEF Install, InstallWatcher, InstallQoS, InstallScheduler, Components,
        Followers
  <2>5. LoggerFollows'
    BY <1>0, <2>3, <2>4 DEF LoggerFollows
  <2> QED
    BY <1>00, <2>2, <2>5 DEF CInv
<1>9. ASSUME NEW i \in Reloads, InstallLogger(i)
      PROVE  CInv'
  <2>1. /\ reload[i] = "logger" /\ reload' = [reload EXCEPT ![i] = "qos"]
        /\ UNCHANGED <<new, old, installed, file, missed, stopped, event, armed>>
    BY <1>9 DEF InstallLogger
  <2>2. \A j \in Reloads : reload'[j] = IF j = i THEN "qos" ELSE "idle"
    BY <1>0, <2>1 DEF Single
  <2>3. Single'
    BY <2>2 DEF Single
  <2>4. logger = LoggerOf(old[i].LogLevel) /\ new[i] = installed["main"]
    BY <1>0, <2>1 DEF LoggerFollows, Single
  <2>5. logger' = LoggerOf(installed["main"].LogLevel)
    BY <1>9, <2>4 DEF InstallLogger
  <2>6. LoggerFollows'
    BY <2>1, <2>2, <2>5 DEF LoggerFollows
  <2>7. FileThere'
    BY <1>0, <2>1 DEF FileThere
  <2>8. Synced'
    <3> SUFFICES ASSUME GoodFile', ~Due'
                 PROVE  Progressed'
      BY DEF Synced
    <3>1. \A j \in Reloads : j # i => reload[j] = "idle"
      BY <1>0, <2>1 DEF Single
    <3>2. GoodFile /\ ~Due
      BY <2>1, <3>1 DEF GoodFile, Due
    <3>3. Progressed
      BY <1>0, <3>2 DEF Synced
    <3>4. \A j \in Reloads : Pending(reload'[j]) = Pending(reload[j])
      BY <2>1, <2>2, <3>1, PendingSteps
    <3> QED
      BY <2>1, <2>2, <3>3, <3>4 DEF Progressed, UpToDate
  <2> QED
    BY <1>00, <2>3, <2>6, <2>7, <2>8 DEF CInv
<1>10. CASE UNCHANGED vars
  <2>1. /\ UNCHANGED <<reload, new, old, installed, logger, file, missed,
                       stopped, event, armed>>
    BY <1>10 DEF vars
  <2> QED
    BY <1>0, <1>00, <2>1
    DEF CInv, Single, FileThere, LoggerFollows, Synced, GoodFile, Due,
        Progressed, UpToDate
<1> QED
  BY <1>1, <1>2, <1>3, <1>4, <1>5, <1>6, <1>7, <1>8, <1>9, <1>10
  DEF Next, Reload

\* Reloads that do not overlap leave every component, and the logger, with
\* what the file says.
THEOREM Convergence == Exclusive => (Spec => []Converged)
<1> SUFFICES ASSUME Exclusive
             PROVE  Spec => []Converged
  OBVIOUS
<1>1. CInv => Converged
  <2> SUFFICES ASSUME CInv, Settled, ~missed, ~stopped, file # Unparsable,
                      Validate(file)
               PROVE  /\ \A x \in Relevant : installed[x] = SetDefaults(file)
                      /\ installed["watcher"] \in {file, SetDefaults(file)}
                      /\ logger = LoggerOf(SetDefaults(file).LogLevel)
    BY DEF Converged
  <2>1. \A i \in Reloads : reload[i] = "idle"
    BY DEF Settled, NoReload
  <2>2. GoodFile /\ ~Due
    BY <2>1 DEF GoodFile, Due, Settled
  <2>3. Progressed
    BY <2>2 DEF CInv, Synced
  <2>4. Pending("idle") = {}
    BY DEF Pending
  <2>5. \A x \in Followers : UpToDate(x)
    BY <2>1, <2>3, <2>4 DEF Progressed
  <2>6. \A x \in Relevant : installed[x] = SetDefaults(file)
    BY <2>5 DEF UpToDate, Relevant
  <2>7. installed["watcher"] \in {file, SetDefaults(file)}
    BY <2>5 DEF UpToDate, Followers
  <2>8. logger = LoggerOf(installed["main"].LogLevel)
    BY <2>1 DEF CInv, LoggerFollows
  <2> QED
    BY <2>6, <2>7, <2>8 DEF Relevant, Followers
<1>2. Init => CInv
  BY SyncInit
<1>3. CInv /\ [Next]_vars => CInv'
  BY SyncStep
<1> QED
  BY <1>1, <1>2, <1>3, PTL DEF Spec
=============================================================================
