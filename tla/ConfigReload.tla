---------------------------- MODULE ConfigReload ----------------------------
(***************************************************************************)
(* Configuration hot reload: the file, the watcher's event loop with its   *)
(* debounce timer, the goroutines that the timer starts, and the           *)
(* components that keep a pointer to a configuration.                      *)
(*                                                                         *)
(* Each component is updated in a critical section of its own, so a reload *)
(* is a sequence of steps; time.AfterFunc starts every reload in a new     *)
(* goroutine, so two reloads can overlap when one takes longer than the    *)
(* debounce delay.  Exclusive = TRUE assumes that they do not.             *)
(*                                                                         *)
(* fsnotify is external: a write to the watched inode makes an event,      *)
(* equal events that wait in the queue are merged, and the watch ends when *)
(* the inode is replaced or removed.                                       *)
(***************************************************************************)
EXTENDS ConfigFile

CONSTANTS
  Contents,    \* what an operator may save that yaml.Unmarshal accepts
  Unparsable,  \* what it does not accept
  Missing,     \* the file does not exist
  Reloads,     \* goroutines started by the debounce timer
  Exclusive,   \* whether a reload ends before the next one starts
  MaxEdits     \* bound on the operator's edits

Parsed == Contents \cup {DefaultConfig}
Files == Parsed \cup {Unparsable, Missing}

ASSUME ReloadAssumption ==
  /\ Contents \subseteq Config
  /\ Unparsable \notin Config \cup {Missing} /\ Missing \notin Config
  /\ Exclusive \in BOOLEAN /\ MaxEdits \in Nat

\* cw.currentConfig; main's currentConfig; qm.qosConfig; s.schedulerConfig;
\* h.config and s.qosConfig, which no reload updates.
Followers == {"watcher", "main", "qos", "scheduler"}
Relevant == Followers \ {"watcher"}
Components == Followers \cup {"handler", "timeouts"}

VARIABLES
  file,       \* contents of config.yaml
  edits,      \* number of edits made
  boot,       \* main's progress: "loaded", "created", "watching" or a failure
  watched,    \* the watch on the file exists
  event,      \* a write event waits in the queue
  armed,      \* the debounce timer runs
  loop,       \* watchLoop: "off", "running", "exited"
  stopped,    \* Stop has been called
  reload,     \* where each reload goroutine is
  new,        \* the configuration it has loaded
  old,        \* the configuration main had before it
  installed,  \* the configuration of each component
  logger,     \* kind of main's logger
  missed      \* history: the file changed while nobody watched

fileVars == <<file, edits, missed>>
watcherVars == <<boot, watched, event, armed, loop, stopped>>
reloadVars == <<reload, new, old>>
vars == <<fileVars, watcherVars, reloadVars, installed, logger>>

\* Mutant: the level is taken as it is.
LoggerOf_Unchecked(level) == level

\* initLogger; an unknown level is reported and taken as development.
LoggerOf(level) == IF level = "production" THEN "production" ELSE "development"

\* main has loaded the file, whatever Validate would say of it, and has made
\* the components.
Init ==
  /\ file \in Contents
  /\ edits = 0 /\ missed = FALSE
  /\ boot = "loaded" /\ watched = FALSE /\ event = FALSE
  /\ armed = FALSE /\ loop = "off" /\ stopped = FALSE
  /\ reload = [i \in Reloads |-> "idle"]
  /\ new = [i \in Reloads |-> SetDefaults(file)]
  /\ old = [i \in Reloads |-> SetDefaults(file)]
  /\ installed = [x \in Components |-> SetDefaults(file)]
  /\ logger = LoggerOf(SetDefaults(file).LogLevel)

-----------------------------------------------------------------------------
(* The operator.                                                           *)

Edited == edits < MaxEdits /\ edits' = edits + 1

\* The file is written in place.
Write(c) ==
  /\ Edited /\ file # Missing
  /\ file' = c
  /\ event' = (event \/ watched)
  /\ missed' = (missed \/ ~watched)
  /\ UNCHANGED <<boot, watched, armed, loop, stopped, reloadVars, installed,
                 logger>>

\* The file is removed, or replaced by renaming another one.
Replace(c) ==
  /\ Edited
  /\ file' = c
  /\ watched' = FALSE
  /\ missed' = TRUE
  /\ UNCHANGED <<boot, event, armed, loop, stopped, reloadVars, installed,
                 logger>>

-----------------------------------------------------------------------------
(* Load, the start of the watcher, watchLoop and Stop.                     *)

\* What Load reads; it writes the default file first when there is none.
Loaded == IF file = Missing THEN DefaultConfig ELSE file

LoadFile == file' = Loaded /\ UNCHANGED <<edits, missed>>

\* NewConfigWatcher, which neither validates nor sets defaults; when it fails
\* main goes on with no watcher.
NewConfigWatcher ==
  /\ boot = "loaded" /\ installed["main"].QoS.HotReload
  /\ LoadFile
  /\ \/ /\ Loaded # Unparsable
        /\ boot' = "created"
        /\ installed' = [installed EXCEPT !["watcher"] = Loaded]
     \/ /\ Loaded = Unparsable
        /\ boot' = "unwatched"
        /\ UNCHANGED installed
  /\ UNCHANGED <<watched, event, armed, loop, stopped, reloadVars, logger>>

\* Hot reload is switched off in the first configuration.
NoHotReload ==
  /\ boot = "loaded" /\ ~installed["main"].QoS.HotReload
  /\ boot' = "unwatched"
  /\ UNCHANGED <<fileVars, watched, event, armed, loop, stopped, reloadVars,
                 installed, logger>>

\* ConfigWatcher.Start; it fails when the file is missing.
Start ==
  /\ boot = "created"
  /\ \/ /\ file # Missing
        /\ boot' = "watching" /\ watched' = TRUE /\ loop' = "running"
     \/ /\ file = Missing
        /\ boot' = "failed" /\ UNCHANGED <<watched, loop>>
  /\ UNCHANGED <<fileVars, event, armed, stopped, reloadVars, installed, logger>>

\* Mutant: while a reload runs, an event arms nothing.
Rearmed_WhenIdle == armed \/ \A i \in Reloads : reload[i] = "idle"

Rearmed == TRUE

\* A write event: the timer is stopped and armed again.
HandleEvent ==
  /\ loop = "running" /\ event
  /\ event' = FALSE
  /\ armed' = Rearmed
  /\ UNCHANGED <<fileVars, boot, watched, loop, stopped, reloadVars, installed,
                 logger>>

\* main calls Stop, even of a watcher that failed to start: it closes done and
\* the fsnotify watcher.
Stop ==
  /\ boot \in {"watching", "failed"} /\ ~stopped
  /\ stopped' = TRUE /\ watched' = FALSE
  /\ UNCHANGED <<fileVars, boot, event, armed, loop, reloadVars, installed,
                 logger>>

\* The loop notices either that done is closed, and stops the timer, or that
\* the watcher's event channel is closed, and just returns.
ExitLoop ==
  /\ loop = "running" /\ stopped
  /\ loop' = "exited"
  /\ armed' \in {FALSE, armed}
  /\ event' = FALSE
  /\ UNCHANGED <<fileVars, boot, watched, stopped, reloadVars, installed, logger>>

\* The debounce delay passes: a new goroutine calls reloadConfig.
Fire(i) ==
  /\ armed /\ reload[i] = "idle"
  /\ Exclusive => \A j \in Reloads : reload[j] = "idle"
  /\ armed' = FALSE
  /\ reload' = [reload EXCEPT ![i] = "load"]
  /\ UNCHANGED <<fileVars, boot, watched, event, loop, stopped, new, old,
                 installed, logger>>

-----------------------------------------------------------------------------
(* reloadConfig and handleConfigReload.                                    *)

\* Mutant: the error of Validate is ignored.
Accepted_Parsed(c) == c # Unparsable

Accepted(c) == c # Unparsable /\ Validate(c)

\* Mutant: the defaults are not set.
Completed_Raw(c) == c

Completed(c) == SetDefaults(c)

\* Load, Validate, SetDefaults.
Load(i) ==
  /\ reload[i] = "load"
  /\ LoadFile
  /\ \/ /\ Accepted(Loaded)
        /\ new' = [new EXCEPT ![i] = Completed(Loaded)]
        /\ reload' = [reload EXCEPT ![i] = "watcher"]
     \/ /\ ~Accepted(Loaded)
        /\ reload' = [reload EXCEPT ![i] = "idle"]
        /\ UNCHANGED new
  /\ UNCHANGED <<watcherVars, old, installed, logger>>

\* One critical section: the component's pointer is replaced.
Install(i, x, next) ==
  /\ reload[i] = x
  /\ installed' = [installed EXCEPT ![x] = new[i]]
  /\ reload' = [reload EXCEPT ![i] = next]
  /\ UNCHANGED <<fileVars, watcherVars, new>>

\* cw.currentConfig, under cw.mu.
InstallWatcher(i) == Install(i, "watcher", "main") /\ UNCHANGED <<old, logger>>

\* currentConfig, under configMutex.
InstallMain(i) ==
  /\ Install(i, "main", "logger")
  /\ old' = [old EXCEPT ![i] = installed["main"]]
  /\ UNCHANGED logger

\* initLogger, when the log level differs from the old configuration's.
InstallLogger(i) ==
  /\ reload[i] = "logger"
  /\ logger' = IF old[i].LogLevel # new[i].LogLevel
               THEN LoggerOf(new[i].LogLevel) ELSE logger
  /\ reload' = [reload EXCEPT ![i] = "qos"]
  /\ UNCHANGED <<fileVars, watcherVars, new, old, installed>>

\* QoSManager.UpdateConfig (module QoSManager).
InstallQoS(i) == Install(i, "qos", "scheduler") /\ UNCHANGED <<old, logger>>

\* Mutant: the goroutine never returns.
AfterReload_Stuck == "scheduler"

AfterReload == "idle"

\* Scheduler.UpdateConfig; the reload is complete.
InstallScheduler(i) ==
  Install(i, "scheduler", AfterReload) /\ UNCHANGED <<old, logger>>

-----------------------------------------------------------------------------
Reload(i) ==
  \/ Load(i)
  \/ InstallWatcher(i)
  \/ InstallMain(i)
  \/ InstallLogger(i)
  \/ InstallQoS(i)
  \/ InstallScheduler(i)

Next ==
  \/ \E c \in Contents \cup {Unparsable} : Write(c)
  \/ \E c \in Contents \cup {Unparsable, Missing} : Replace(c)
  \/ NewConfigWatcher
  \/ NoHotReload
  \/ Start
  \/ HandleEvent
  \/ Stop
  \/ ExitLoop
  \/ \E i \in Reloads : Fire(i) \/ Reload(i)

Spec == Init /\ [][Next]_vars

\* Runnable goroutines are scheduled and the timer fires.  Nobody has to edit
\* the file or stop the program.
Fairness ==
  /\ WF_vars(NewConfigWatcher) /\ WF_vars(Start)
  /\ WF_vars(HandleEvent) /\ WF_vars(ExitLoop)
  /\ WF_vars(\E i \in Reloads : Fire(i))
  /\ \A i \in Reloads : WF_vars(Reload(i))

FairSpec == Spec /\ Fairness

-----------------------------------------------------------------------------
(* Properties.                                                             *)

TypeOK ==
  /\ file \in Files
  /\ edits \in 0..MaxEdits
  /\ boot \in {"loaded", "created", "watching", "failed", "unwatched"}
  /\ loop \in {"off", "running", "exited"}
  /\ {watched, event, armed, stopped, missed} \subseteq BOOLEAN
  /\ reload \in [Reloads -> {"idle", "load", "logger"} \cup Followers]
  /\ new \in [Reloads -> Config]
  /\ old \in [Reloads -> Config]
  /\ installed \in [Components -> Config]
  /\ logger \in {"development", "production"}

NoReload == \A i \in Reloads : reload[i] = "idle"

\* Nothing is under way between the file and the components.
Settled == loop = "running" /\ ~event /\ ~armed /\ NoReload

\* A component's configuration changes only to one that Validate accepts;
\* except that NewConfigWatcher installs its first one unvalidated.
OnlyValidInstalled ==
  [][\A x \in Components :
       installed'[x] # installed[x] =>
         Validate(installed'[x]) \/ (x = "watcher" /\ boot = "loaded")]_vars

\* Whatever the file leaves out, at the start or in a later edit, and whatever
\* reloads overlap, a configuration in use has the fields that SetDefaults
\* tests: the divisor MaxLoad, the scheduler's base, the ports and the level.
\* It says nothing of the other fields, which stay 0 when the file sets the
\* tested one of their section and not them: LoadThreshold, the other divisor,
\* or WorkerPoolSize.
TestedDefaultsSet ==
  \A x \in Components \ {"watcher"} :
    /\ installed[x].QoS.MaxLoad # 0
    /\ installed[x].Scheduler.BasePriority # 0
    /\ installed[x].Port /\ installed[x].LogLevel # ""

\* Once the events, the timer and the reloads have settled, every component
\* that follows reloads has what the file says with SetDefaults applied, and
\* so has the logger, however the edits interleaved with events, timer and
\* reloads; unless the file is invalid or was changed while no watch existed.
\* It holds for reloads that do not overlap (Exclusive); ComponentsAgree is
\* what goes wrong when they do.  The watcher's first configuration lacks the
\* defaults.
Converged ==
  Settled /\ ~missed /\ ~stopped /\ file # Unparsable /\ Validate(file) =>
    /\ \A x \in Relevant : installed[x] = SetDefaults(file)
    /\ installed["watcher"] \in {file, SetDefaults(file)}
    /\ logger = LoggerOf(SetDefaults(file).LogLevel)

\* Reload work always comes to rest.
Settles == <>[](NoReload /\ ~armed /\ (event => loop # "running"))

\* main.go: handleConfigReload "handles configuration reload and updates
\* relevant components": when no reload is under way, the components that it
\* updates have the same configuration.
ComponentsAgree ==
  NoReload /\ ~missed =>
    \A x, y \in Relevant : installed[x] = installed[y]
=============================================================================
