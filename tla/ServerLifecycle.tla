---------------------------- MODULE ServerLifecycle ----------------------------
(***************************************************************************)
(* What the monitor keeps about a server, from its creation over the API to  *)
(* its deletion or the monitor's shutdown: the rows of the store, the cron   *)
(* entry of the scheduler, and the entry of the stream manager with the      *)
(* session goroutine behind it.  The HTTP handlers (internal/api), the hooks *)
(* that cmd/monitor/main.go hangs on them, the hot-launch goroutine, the     *)
(* session loops and the shutdown sequence all run concurrently; m.mu and    *)
(* entriesMu are held for one map access at a time.  The process boots first: *)
(* from the configuration to the first request, any step of it failing.      *)
(***************************************************************************)
EXTENDS Config, FiniteSets

CONSTANTS
  Servers,    (* Server ids; an id is never used twice.                        *)
  Boot,       (* The servers the store holds when the process starts.         *)
  Sources     (* Pairs of a configuration file and the environment's part.    *)

ASSUME LifecycleAssumption ==
  /\ Boot \subseteq Servers
  /\ \A source \in Sources : \A part \in {source.file, source.env} :
       \A k \in DOMAIN part.num : part.num[k] \in Int

VARIABLES
  rows,       (* servers table.                                               *)
  children,   (* Servers with a log_cursors or system_snapshots row.          *)
  jobs,       (* Scheduler.entries.                                           *)
  entries,    (* Manager.sessions; empty for good once Stop has nilled it.    *)
  stopped,    (* Manager.stopped: sessions is nil.                            *)
  session,    (* The session goroutine of each server.                        *)
  cut,        (* Sessions whose stop channel is closed or context cancelled.  *)
  create,     (* The create handler, up to its hooks.                         *)
  launch,     (* The hot-launch goroutine (LaunchServer).                     *)
  delete,     (* The delete handler.                                          *)
  phase,      (* run: the steps of the boot, up, the steps of the shutdown.   *)
  config,     (* The configuration; NoConfig once the boot is over.           *)
  streaming,  (* There is a stream manager.                                   *)
  raced       (* History: servers whose deletion overtook a step of creation. *)

stores == <<rows, children>>
manager == <<entries, stopped, session, cut>>
boot == <<config, streaming>>
vars == <<rows, children, jobs, entries, stopped, session, cut, create, launch,
          delete, phase, boot, raced>>

BootPhases == {"load", "open", "register", "alerts", "streamer", "launch"}
NoConfig == [num |-> <<>>, text |-> <<>>]

TypeOK ==
  /\ rows \subseteq Servers /\ children \subseteq rows
  /\ jobs \subseteq Servers
  /\ entries \subseteq Servers /\ (stopped => entries = {})
  /\ stopped \in BOOLEAN
  /\ session \in [Servers -> {"none", "running", "over"}]
  /\ cut \subseteq {s \in Servers : session[s] # "none"}
  /\ create \in [Servers -> {"none", "inserted", "done"}]
  /\ launch \in [Servers -> {"none", "check", "get", "insert", "return", "done"}]
  /\ delete \in [Servers -> {"none", "unschedule", "remove", "stop", "done"}]
  /\ phase \in BootPhases \cup
               {"up", "signalled", "unscheduled", "stopping", "drained", "exited",
                "panicked"}
  /\ streaming \in BOOLEAN /\ (phase \notin BootPhases => config = NoConfig)
  /\ raced \subseteq Servers

Init ==
  /\ rows = Boot
  /\ children \in SUBSET Boot
  /\ jobs = {}
  /\ entries = {} /\ stopped = FALSE
  /\ session = [s \in Servers |-> "none"]
  /\ cut = {}
  /\ create = [s \in Servers |-> IF s \in Boot THEN "done" ELSE "none"]
  /\ launch = [s \in Servers |-> IF s \in Boot THEN "done" ELSE "none"]
  /\ delete = [s \in Servers |-> "none"]
  /\ phase = "load"
  /\ \E source \in Sources : config = Merged(source.file, source.env)
  /\ streaming = FALSE
  /\ raced = {}

(* Requests are served, hooks and goroutines run.                             *)
Alive == phase \notin BootPhases \cup {"exited", "panicked"}

-----------------------------------------------------------------------------
(* The boot: run, from config.Load to ListenAndServe.  A step that fails      *)
(* returns, and what the steps before it started ends with the process; a     *)
(* signal makes the steps that use the store fail.                            *)
Leave(next) == phase' = next /\ config' = NoConfig
GoOn(next)  == phase' = next /\ UNCHANGED config

LoadConfig ==
  /\ phase = "load"
  /\ \/ Accepted(config) /\ GoOn("open")
     \/ Leave("exited")  (* The file or the environment cannot be read.       *)
  /\ UNCHANGED <<stores, jobs, manager, create, launch, delete, streaming, raced>>

OpenStore ==
  /\ phase = "open"
  /\ GoOn("register") \/ Leave("exited")
  /\ UNCHANGED <<stores, jobs, manager, create, launch, delete, streaming, raced>>

(* registerScheduledPulls, sched.Start.                                       *)
RegisterPulls ==
  /\ phase = "register"
  /\ \/ jobs' = rows /\ GoOn("alerts")
     \/ jobs' = jobs /\ Leave("exited")
  /\ UNCHANGED <<stores, manager, create, launch, delete, streaming, raced>>

(* alerts.New and Service.Start: a ticker of no interval panics.              *)
StartAlerts ==
  /\ phase = "alerts"
  /\ IF ~ Enabled(config, "alerts.enabled") THEN GoOn("streamer")
     ELSE IF ~ AlertsValid(config) THEN Leave("exited")
     ELSE IF config.num["alerts.evaluation_interval"] <= 0 THEN Leave("panicked")
     ELSE GoOn("streamer")
  /\ UNCHANGED <<stores, jobs, manager, create, launch, delete, streaming, raced>>

(* streamer.NewManager.                                                       *)
BuildStreamer ==
  /\ phase = "streamer"
  /\ streaming' = (Enabled(config, "streaming.enabled") /\ StreamerValid(config))
  /\ IF ~ Enabled(config, "streaming.enabled") THEN Leave("up")
     ELSE IF ~ StreamerValid(config) THEN Leave("exited")
     ELSE GoOn("launch")
  /\ UNCHANGED <<stores, jobs, manager, create, launch, delete, raced>>

(* Manager.Start: a server that cannot be launched is passed over, and the    *)
(* ticker is made of the interval as it was configured.                       *)
StartStreamer ==
  /\ phase = "launch"
  /\ \/ \E launched \in SUBSET rows :
          /\ entries' = launched
          /\ session' = [s \in Servers |-> IF s \in launched THEN "running" ELSE "none"]
          /\ Leave(IF config.num["streaming.flush_interval"] <= 0 THEN "panicked" ELSE "up")
     \/ Leave("exited") /\ UNCHANGED <<entries, session>>
  /\ UNCHANGED <<stores, jobs, stopped, cut, create, launch, delete, streaming, raced>>

(* The address is taken, or the listener breaks: run returns without stopping *)
(* anything.                                                                  *)
ListenFails ==
  /\ phase = "up"
  /\ phase' = "exited"
  /\ UNCHANGED <<stores, jobs, manager, create, launch, delete, boot, raced>>

-----------------------------------------------------------------------------
(* The create handler.  The request's context ends with the signal, so the    *)
(* store takes no new server after it.                                        *)
CreateRow(s) ==
  /\ phase = "up"
  /\ create[s] = "none"
  /\ rows' = rows \cup {s}
  /\ create' = [create EXCEPT ![s] = "inserted"]
  /\ UNCHANGED <<children, jobs, manager, launch, delete, phase, boot, raced>>

(* The operators named Mutant are changes a plausible bug would make to the   *)
(* definition after them; no specification uses them.                        *)
MutantServerCreated(s) ==
  /\ Alive
  /\ create[s] = "inserted"
  /\ jobs' = jobs \cup {s}
  /\ create' = [create EXCEPT ![s] = "done"]
  /\ launch' = [launch EXCEPT ![s] = "insert"]
  /\ UNCHANGED <<stores, manager, delete, phase, boot, raced>>

(* onServerCreated: AddKeyed, and the launch goroutine starts, if anything is *)
(* streamed at all.                                                           *)
ServerCreated(s) ==
  /\ Alive
  /\ create[s] = "inserted"
  /\ jobs' = jobs \cup {s}
  /\ create' = [create EXCEPT ![s] = "done"]
  /\ launch' = [launch EXCEPT ![s] = IF streaming THEN "check" ELSE "done"]
  /\ UNCHANGED <<stores, manager, delete, phase, boot, raced>>

(* A row that refers to the server: the snapshot captured after its creation  *)
(* or by a refresh, or a cursor written by a flush.  Without the server's row *)
(* the foreign key refuses it.                                                *)
ChildWritten(s) ==
  /\ Alive
  /\ s \in rows
  /\ children' = children \cup {s}
  /\ UNCHANGED <<rows, jobs, manager, create, launch, delete, phase, boot, raced>>

-----------------------------------------------------------------------------
(* LaunchServer, in its goroutine, under a context of its own.                *)
LaunchCheck(s) ==
  /\ Alive
  /\ launch[s] = "check"
  /\ launch' = [launch EXCEPT ![s] = IF s \in entries THEN "return" ELSE "get"]
  /\ UNCHANGED <<stores, jobs, manager, create, delete, phase, boot, raced>>

(* GetServer and the cursor reads; then the session starts.                   *)
LaunchGet(s) ==
  /\ Alive
  /\ launch[s] = "get"
  /\ s \in rows
  /\ session' = [session EXCEPT ![s] = "running"]
  /\ launch' = [launch EXCEPT ![s] = "insert"]
  /\ UNCHANGED <<stores, jobs, entries, stopped, cut, create, delete, phase, boot, raced>>

LaunchFails(s) ==
  /\ Alive
  /\ launch[s] = "get"
  /\ launch' = [launch EXCEPT ![s] = "done"]
  /\ UNCHANGED <<stores, jobs, manager, create, delete, phase, boot, raced>>

(* The session enters the map; a write to the nil map of a stopped manager    *)
(* panics.                                                                    *)
LaunchInsert(s) ==
  /\ Alive
  /\ launch[s] = "insert"
  /\ IF stopped
     THEN phase' = "panicked" /\ UNCHANGED entries
     ELSE entries' = entries \cup {s} /\ UNCHANGED phase
  /\ launch' = [launch EXCEPT ![s] = "return"]
  /\ UNCHANGED <<stores, jobs, stopped, session, cut, create, delete, boot, raced>>

(* The deferred cancel: launchCtx is the context the session runs under.      *)
LaunchReturns(s) ==
  /\ Alive
  /\ launch[s] = "return"
  /\ launch' = [launch EXCEPT ![s] = "done"]
  /\ cut' = cut \cup {s}
  /\ UNCHANGED <<stores, jobs, entries, stopped, session, create, delete, phase, boot, raced>>

(* Session.loop returns once its stop channel is closed or its context ends.  *)
(* The sessions launched at boot run under the signal context.                *)
SessionEnds(s) ==
  /\ Alive
  /\ session[s] = "running"
  /\ s \in cut \/ (s \in Boot /\ phase # "up")
  /\ session' = [session EXCEPT ![s] = "over"]
  /\ UNCHANGED <<stores, jobs, entries, stopped, cut, create, launch, delete, phase,
                 boot, raced>>

-----------------------------------------------------------------------------
MutantDeleteRow(s) ==
  /\ phase = "up"
  /\ delete[s] = "none"
  /\ s \in rows
  /\ rows' = IF s \in children THEN rows ELSE rows \ {s}
  /\ delete' = [delete EXCEPT ![s] = "unschedule"]
  /\ raced' = IF create[s] = "inserted" THEN raced \cup {s} ELSE raced
  /\ UNCHANGED <<children, jobs, manager, create, launch, phase, boot>>

(* The delete handler.  A row that another one refers to stays: the migration *)
(* creates both foreign keys with OnDelete NoAction, and the handler answers  *)
(* 500 and runs no hook.                                                      *)
DeleteRow(s) ==
  /\ phase = "up"
  /\ delete[s] = "none"
  /\ s \in rows \ children
  /\ rows' = rows \ {s}
  /\ delete' = [delete EXCEPT ![s] = "unschedule"]
  /\ raced' = IF create[s] = "inserted" THEN raced \cup {s} ELSE raced
  /\ UNCHANGED <<children, jobs, manager, create, launch, phase, boot>>

MutantUnschedule(s) ==
  /\ Alive
  /\ delete[s] = "unschedule"
  /\ delete' = [delete EXCEPT ![s] = "remove"]
  /\ UNCHANGED <<stores, jobs, manager, create, launch, phase, boot, raced>>

(* onServerDeleted: RemoveKeyed ...                                           *)
Unschedule(s) ==
  /\ Alive
  /\ delete[s] = "unschedule"
  /\ jobs' = jobs \ {s}
  /\ delete' = [delete EXCEPT ![s] = IF streaming THEN "remove" ELSE "done"]
  /\ UNCHANGED <<stores, manager, create, launch, phase, boot, raced>>

MutantRemoveServer(s) ==
  /\ Alive
  /\ delete[s] = "remove"
  /\ entries' = entries \ {s}
  /\ delete' = [delete EXCEPT ![s] = "done"]
  /\ UNCHANGED <<stores, jobs, stopped, session, cut, create, launch, phase, boot, raced>>

(* ... and RemoveServer: the entry goes under the lock, and only a session     *)
(* found there is told to stop.                                               *)
RemoveServer(s) ==
  /\ Alive
  /\ delete[s] = "remove"
  /\ IF s \in entries
     THEN /\ entries' = entries \ {s}
          /\ cut' = cut \cup {s}
          /\ delete' = [delete EXCEPT ![s] = "stop"]
          /\ UNCHANGED raced
     ELSE /\ delete' = [delete EXCEPT ![s] = "done"]
          /\ raced' = IF launch[s] \in {"check", "get", "insert"}
                      THEN raced \cup {s} ELSE raced
          /\ UNCHANGED <<entries, cut>>
  /\ UNCHANGED <<stores, jobs, stopped, session, create, launch, phase, boot>>

(* Session.Stop waits for the loop to end, or five seconds.                   *)
DeleteReturns(s) ==
  /\ Alive
  /\ delete[s] = "stop"
  /\ delete' = [delete EXCEPT ![s] = "done"]
  /\ UNCHANGED <<stores, jobs, manager, create, launch, phase, boot, raced>>

-----------------------------------------------------------------------------
(* The shutdown of run, step by step; every wait in it has a timeout.         *)
Signal ==
  /\ phase = "up"
  /\ phase' = "signalled"
  /\ UNCHANGED <<stores, jobs, manager, create, launch, delete, boot, raced>>

SchedulerStops ==
  /\ phase = "signalled"
  /\ phase' = "unscheduled"
  /\ UNCHANGED <<stores, jobs, manager, create, launch, delete, boot, raced>>

(* Manager.Stop takes the map away, then stops what was in it.                *)
ManagerStops ==
  /\ phase = "unscheduled" /\ streaming
  /\ phase' = "stopping"
  /\ stopped' = TRUE
  /\ cut' = cut \cup entries
  /\ entries' = {}
  /\ UNCHANGED <<stores, jobs, session, create, launch, delete, boot, raced>>

ManagerStopped ==
  /\ phase = "stopping"
  /\ phase' = "drained"
  /\ UNCHANGED <<stores, jobs, manager, create, launch, delete, boot, raced>>

(* srv.Shutdown waits for the handlers or for its deadline; then run returns. *)
Exit ==
  /\ phase = "drained" \/ (phase = "unscheduled" /\ ~ streaming)
  /\ phase' = "exited"
  /\ UNCHANGED <<stores, jobs, manager, create, launch, delete, boot, raced>>

Next ==
  \/ \E s \in Servers :
       \/ CreateRow(s) \/ ServerCreated(s) \/ ChildWritten(s)
       \/ LaunchCheck(s) \/ LaunchGet(s) \/ LaunchFails(s) \/ LaunchInsert(s)
       \/ LaunchReturns(s) \/ SessionEnds(s)
       \/ DeleteRow(s) \/ Unschedule(s) \/ RemoveServer(s)
       \/ DeleteReturns(s)
  \/ LoadConfig \/ OpenStore \/ RegisterPulls \/ StartAlerts \/ BuildStreamer
  \/ StartStreamer \/ ListenFails
  \/ Signal \/ SchedulerStops \/ ManagerStops \/ ManagerStopped \/ Exit

Spec == Init /\ [][Next]_vars

(* Goroutines and handlers that have begun run on; a session that is told to   *)
(* end does so once its flush returns.  Nothing obliges a client to create or  *)
(* delete, nor a signal to come.                                              *)
FairSpec ==
  /\ Spec
  /\ \A s \in Servers :
       /\ WF_vars(ServerCreated(s))
       /\ WF_vars(LaunchCheck(s) \/ LaunchGet(s) \/ LaunchFails(s) \/ LaunchInsert(s)
                    \/ LaunchReturns(s))
       /\ WF_vars(SessionEnds(s))
       /\ WF_vars(Unschedule(s) \/ RemoveServer(s) \/ DeleteReturns(s))

-----------------------------------------------------------------------------
(* What Config.validate lets pass boots: no ticker is made of an interval of   *)
(* zero, which Manager.Start, unlike NewManager, does not correct.  The only   *)
(* panic left is the launch that outlives Manager.Stop (manager.go:281).      *)
PanicNeedsAStoppedManager == phase = "panicked" => stopped

(* A server whose creation has been answered is pulled as long as its row      *)
(* exists: a deletion that is refused or only begun leaves the cron entry.     *)
EveryServerIsPulled ==
  Alive => \A s \in rows : create[s] = "done" => s \in jobs

(* A deleted server leaves a cron entry or a session entry behind only if its  *)
(* deletion overtook a step of its creation: the hooks run after the row is    *)
(* visible, in no order with those of the deletion.                           *)
OrphansNeedARace ==
  \A s \in Servers : delete[s] = "done" /\ s \in jobs \cup entries => s \in raced

(* A session launched at boot ends only with its server or with the monitor,   *)
(* and until then the manager knows it.                                       *)
BootStreamsStay ==
  phase = "up" => \A s \in Boot \cap rows :
    session[s] # "none" => session[s] = "running" /\ s \in entries

(* A deleted server is not tailed for ever, even when its deletion found no    *)
(* session because the launch had not stored it yet.                          *)
RemovedIsNotTailed ==
  \A s \in Servers :
    (delete[s] = "done") ~> (session[s] # "running" \/ ~ Alive)

(* A server added over the API is streamed without a restart.                 *)
HotLaunchStreams ==
  \A s \in Servers \ Boot :
    phase = "up" /\ s \in rows \cap entries /\ launch[s] = "done" =>
      session[s] = "running"

=============================================================================
