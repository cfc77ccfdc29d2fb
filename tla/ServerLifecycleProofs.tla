------------------------- MODULE ServerLifecycleProofs -------------------------
(***************************************************************************)
(* Proofs about ServerLifecycle, for any servers, any configurations and     *)
(* any interleaving of handlers, goroutines, sessions, boot and shutdown.    *)
(***************************************************************************)
EXTENDS ServerLifecycle, TLAPS

(***************************************************************************)
(* The boot.                                                               *)
(***************************************************************************)
(* The configuration has an integer wherever the program reads one.          *)
Numbered(c) == \A k \in Numbers : c.num[k] \in Int

BootInv ==
  /\ phase \in BootPhases => Numbered(config)
  /\ phase \in BootPhases \ {"load"} => Accepted(config)
  /\ phase = "launch" => Enabled(config, "streaming.enabled")
  /\ phase = "panicked" => stopped

LEMMA MergedIsNumbered ==
  ASSUME NEW source \in Sources
  PROVE  Numbered(Merged(source.file, source.env))
<1> DEFINE m == Merged(source.file, source.env)
<1>1. \A k \in Numbers : Defaults.num[k] \in Int /\ k \in DOMAIN Defaults.num
  BY DEF Defaults
<1>2. \A k \in DOMAIN source.env.num : source.env.num[k] \in Int
  BY LifecycleAssumption
<1>3. \A k \in DOMAIN source.file.num : source.file.num[k] \in Int
  BY LifecycleAssumption
<1>4. m.num = Over(source.env.num, Over(source.file.num, Defaults.num))
  BY DEF Merged
<1> QED
  BY <1>1, <1>2, <1>3, <1>4 DEF Numbered, Over

LEMMA BootInit == Init => BootInv
<1> SUFFICES ASSUME Init PROVE BootInv
  OBVIOUS
<1>1. PICK source \in Sources : config = Merged(source.file, source.env)
  BY DEF Init
<1> QED
  BY <1>1, MergedIsNumbered DEF Init, BootInv, BootPhases

LEMMA BootStep == BootInv /\ [Next]_vars => BootInv'
<1> SUFFICES ASSUME BootInv, [Next]_vars PROVE BootInv'
  OBVIOUS
<1> USE DEF BootInv, BootPhases
<1>1. CASE LoadConfig
  BY <1>1 DEF LoadConfig, Leave, GoOn, manager, Numbered, Accepted
<1>2. CASE OpenStore
  BY <1>2 DEF OpenStore, Leave, GoOn, manager, Numbered, Accepted
<1>3. CASE RegisterPulls
  BY <1>3 DEF RegisterPulls, Leave, GoOn, manager, Numbered, Accepted
<1>4. CASE StartAlerts
  <2>1. phase = "alerts" /\ Numbered(config) /\ Accepted(config)
    BY <1>4 DEF StartAlerts
  <2>2. AlertsValid(config) => ~ config.num["alerts.evaluation_interval"] <= 0
    <3>1. config.num["alerts.evaluation_interval"] \in Int
      BY <2>1 DEF Numbered, Numbers, AlertNumbers
    <3>2. AlertsValid(config) => config.num["alerts.evaluation_interval"] >= 15
      BY DEF AlertsValid
    <3> QED
      BY <3>1, <3>2
  <2>3. phase' \in {"streamer", "exited"} /\ (phase' = "streamer" => config' = config)
    BY <1>4, <2>2 DEF StartAlerts, Leave, GoOn
  <2> QED
    BY <2>1, <2>3 DEF Numbered, Accepted
<1>5. CASE BuildStreamer
  BY <1>5 DEF BuildStreamer, Leave, GoOn, Numbered, Accepted
<1>6. CASE StartStreamer
  <2>1. phase = "launch" /\ Numbered(config) /\ Accepted(config)
    /\ Enabled(config, "streaming.enabled")
    BY <1>6 DEF StartStreamer
  <2>2. ~ config.num["streaming.flush_interval"] <= 0
    <3>1. config.num["streaming.flush_interval"] \in Int
      BY <2>1 DEF Numbered, Numbers, StreamNumbers
    <3>2. config.num["streaming.flush_interval"] >= 1
      BY <2>1 DEF Accepted, StreamNumbers
    <3> QED
      BY <3>1, <3>2
  <2>3. phase' \in {"up", "exited"}
    BY <1>6, <2>2 DEF StartStreamer, Leave
  <2> QED
    BY <2>3
<1>7. CASE UNCHANGED vars
  BY <1>7 DEF vars, boot, Numbered, Accepted
<1>8. CASE \E s \in Servers : LaunchInsert(s)
  BY <1>8 DEF LaunchInsert, Alive
<1>9. CASE ListenFails \/ Signal \/ SchedulerStops \/ ManagerStops \/ ManagerStopped \/ Exit
  BY <1>9 DEF ListenFails, Signal, SchedulerStops, ManagerStops, ManagerStopped, Exit
<1>10. CASE \E s \in Servers :
              \/ CreateRow(s) \/ ServerCreated(s) \/ ChildWritten(s) \/ LaunchCheck(s)
              \/ LaunchGet(s) \/ LaunchFails(s) \/ LaunchReturns(s) \/ SessionEnds(s)
              \/ DeleteRow(s) \/ Unschedule(s) \/ RemoveServer(s) \/ DeleteReturns(s)
  BY <1>10 DEF CreateRow, ServerCreated, ChildWritten, LaunchCheck, LaunchGet, LaunchFails,
       LaunchReturns, SessionEnds, DeleteRow, Unschedule, RemoveServer, DeleteReturns, Alive,
       manager, boot
<1> QED
  BY <1>1, <1>2, <1>3, <1>4, <1>5, <1>6, <1>7, <1>8, <1>9, <1>10 DEF Next

(* No configuration that validate accepts makes the boot panic: only a launch *)
(* that outlives Manager.Stop does (main.go run, manager.go Start).           *)
THEOREM BootNeverPanics == Spec => []PanicNeedsAStoppedManager
<1>1. BootInv => PanicNeedsAStoppedManager
  BY DEF BootInv, PanicNeedsAStoppedManager
<1> QED
  BY BootInit, BootStep, <1>1, PTL DEF Spec
(***************************************************************************)
(* Creation, hot launch, deletion and shutdown.                            *)
(***************************************************************************)
(* Before the first request nothing has been launched, cut or deleted.       *)
Quiet ==
  /\ rows = Boot /\ entries = {} /\ cut = {} /\ stopped = FALSE
  /\ streaming = (phase = "launch")
  /\ session = [s \in Servers |-> "none"]
  /\ delete = [s \in Servers |-> "none"]

(* Who has got how far: an id is created once, a deleted one has no row, and  *)
(* a session is in the map only after its launch.                            *)
Places(s) ==
  /\ create[s] = "none" => s \notin rows /\ delete[s] = "none"
  /\ create[s] # "done" => launch[s] = "none"
  /\ delete[s] # "none" => s \notin rows /\ (create[s] = "inserted" => s \in raced)
  /\ s \in entries => session[s] # "none" /\ launch[s] \in {"return", "done"}
  /\ launch[s] \in {"insert", "return"} => session[s] # "none"
  /\ s \in Boot => create[s] = "done" /\ launch[s] = "done"
  /\ ~ streaming => s \notin entries /\ launch[s] \in {"none", "done"}

(* What a deletion has passed is gone, or comes back only after a race.       *)
Gone(s) ==
  /\ delete[s] \in {"remove", "stop", "done"} /\ s \in jobs => s \in raced
  /\ delete[s] \in {"stop", "done"} /\ launch[s] \in {"check", "get", "insert"} => s \in raced
  /\ delete[s] \in {"stop", "done"} /\ s \in entries => s \in raced

(* What is left alone stays.                                                  *)
Kept(s) ==
  /\ phase = "up" /\ s \in Boot \cap rows =>
       s \notin cut /\ (session[s] # "none" => session[s] = "running" /\ s \in entries)
  /\ phase \in {"alerts", "streamer", "launch"} \/ Alive =>
       (s \in rows /\ create[s] = "done" => s \in jobs)

LifeInv ==
  /\ TypeOK
  /\ phase \in BootPhases => Quiet
  /\ \A s \in Servers : Places(s) /\ Gone(s) /\ Kept(s)

LEMMA LifeInit == Init => LifeInv
<1> SUFFICES ASSUME Init PROVE LifeInv
  OBVIOUS
<1>1. TypeOK /\ Quiet
  BY LifecycleAssumption DEF Init, TypeOK, Quiet, BootPhases
<1>2. ASSUME NEW s \in Servers PROVE Places(s) /\ Gone(s) /\ Kept(s)
  BY <1>1 DEF Init, Places, Gone, Kept, Alive, BootPhases
<1> QED
  BY <1>1, <1>2 DEF LifeInv

LEMMA LifeStep == LifeInv /\ [Next]_vars => LifeInv'
<1> SUFFICES ASSUME LifeInv, [Next]_vars PROVE LifeInv'
  OBVIOUS
<1> USE DEF LifeInv, BootPhases, Alive, stores, manager, boot, Leave, GoOn
<1>1. ASSUME NEW s \in Servers, CreateRow(s) PROVE LifeInv'
  <2>1. TypeOK' /\ (phase \in BootPhases => Quiet)'
    BY <1>1 DEF CreateRow, TypeOK, Quiet, Places
  <2>2. ASSUME NEW t \in Servers PROVE (Places(t) /\ Gone(t) /\ Kept(t))'
    BY <1>1 DEF CreateRow, TypeOK, Quiet, Places, Gone, Kept
  <2> QED
    BY <2>1, <2>2
<1>2. ASSUME NEW s \in Servers, ServerCreated(s) PROVE LifeInv'
  <2>1. TypeOK' /\ (phase \in BootPhases => Quiet)'
    BY <1>2 DEF ServerCreated, TypeOK, Quiet, Places
  <2>2. ASSUME NEW t \in Servers PROVE (Places(t) /\ Gone(t) /\ Kept(t))'
    BY <1>2 DEF ServerCreated, TypeOK, Quiet, Places, Gone, Kept
  <2> QED
    BY <2>1, <2>2
<1>3. ASSUME NEW s \in Servers, ChildWritten(s) PROVE LifeInv'
  <2>1. TypeOK' /\ (phase \in BootPhases => Quiet)'
    BY <1>3 DEF ChildWritten, TypeOK, Quiet, Places
  <2>2. ASSUME NEW t \in Servers PROVE (Places(t) /\ Gone(t) /\ Kept(t))'
    BY <1>3 DEF ChildWritten, TypeOK, Quiet, Places, Gone, Kept
  <2> QED
    BY <2>1, <2>2
<1>4. ASSUME NEW s \in Servers, LaunchCheck(s) PROVE LifeInv'
  <2>1. TypeOK' /\ (phase \in BootPhases => Quiet)'
    BY <1>4 DEF LaunchCheck, TypeOK, Quiet, Places
  <2>2. ASSUME NEW t \in Servers PROVE (Places(t) /\ Gone(t) /\ Kept(t))'
    BY <1>4 DEF LaunchCheck, TypeOK, Quiet, Places, Gone, Kept
  <2> QED
    BY <2>1, <2>2
<1>5. ASSUME NEW s \in Servers, LaunchGet(s) PROVE LifeInv'
  <2>1. TypeOK' /\ (phase \in BootPhases => Quiet)'
    BY <1>5 DEF LaunchGet, TypeOK, Quiet, Places
  <2>2. ASSUME NEW t \in Servers PROVE (Places(t) /\ Gone(t) /\ Kept(t))'
    BY <1>5 DEF LaunchGet, TypeOK, Quiet, Places, Gone, Kept
  <2> QED
    BY <2>1, <2>2
<1>6. ASSUME NEW s \in Servers, LaunchFails(s) PROVE LifeInv'
  <2>1. TypeOK' /\ (phase \in BootPhases => Quiet)'
    BY <1>6 DEF LaunchFails, TypeOK, Quiet, Places
  <2>2. ASSUME NEW t \in Servers PROVE (Places(t) /\ Gone(t) /\ Kept(t))'
    BY <1>6 DEF LaunchFails, TypeOK, Quiet, Places, Gone, Kept
  <2> QED
    BY <2>1, <2>2
<1>7. ASSUME NEW s \in Servers, LaunchInsert(s) PROVE LifeInv'
  <2>1. TypeOK' /\ (phase \in BootPhases => Quiet)'
    BY <1>7 DEF LaunchInsert, TypeOK, Quiet, Places
  <2>2. ASSUME NEW t \in Servers PROVE (Places(t) /\ Gone(t) /\ Kept(t))'
    BY <1>7 DEF LaunchInsert, TypeOK, Quiet, Places, Gone, Kept
  <2> QED
    BY <2>1, <2>2
<1>8. ASSUME NEW s \in Servers, LaunchReturns(s) PROVE LifeInv'
  <2>1. TypeOK' /\ (phase \in BootPhases => Quiet)'
    BY <1>8 DEF LaunchReturns, TypeOK, Quiet, Places
  <2>2. ASSUME NEW t \in Servers PROVE (Places(t) /\ Gone(t) /\ Kept(t))'
    BY <1>8 DEF LaunchReturns, TypeOK, Quiet, Places, Gone, Kept
  <2> QED
    BY <2>1, <2>2
<1>9. ASSUME NEW s \in Servers, SessionEnds(s) PROVE LifeInv'
  <2>1. TypeOK' /\ (phase \in BootPhases => Quiet)'
    BY <1>9 DEF SessionEnds, TypeOK, Quiet, Places
  <2>2. ASSUME NEW t \in Servers PROVE (Places(t) /\ Gone(t) /\ Kept(t))'
    BY <1>9 DEF SessionEnds, TypeOK, Quiet, Places, Gone, Kept
  <2> QED
    BY <2>1, <2>2
<1>10. ASSUME NEW s \in Servers, DeleteRow(s) PROVE LifeInv'
  <2>1. TypeOK' /\ (phase \in BootPhases => Quiet)'
    BY <1>10 DEF DeleteRow, TypeOK, Quiet, Places
  <2>2. ASSUME NEW t \in Servers PROVE (Places(t) /\ Gone(t) /\ Kept(t))'
    BY <1>10 DEF DeleteRow, TypeOK, Quiet, Places, Gone, Kept
  <2> QED
    BY <2>1, <2>2
<1>11. ASSUME NEW s \in Servers, Unschedule(s) PROVE LifeInv'
  <2>1. TypeOK' /\ (phase \in BootPhases => Quiet)'
    BY <1>11 DEF Unschedule, TypeOK, Quiet, Places
  <2>2. ASSUME NEW t \in Servers PROVE (Places(t) /\ Gone(t) /\ Kept(t))'
    BY <1>11 DEF Unschedule, TypeOK, Quiet, Places, Gone, Kept
  <2> QED
    BY <2>1, <2>2
<1>12. ASSUME NEW s \in Servers, RemoveServer(s) PROVE LifeInv'
  <2>1. TypeOK' /\ (phase \in BootPhases => Quiet)'
    BY <1>12 DEF RemoveServer, TypeOK, Quiet, Places
  <2>2. ASSUME NEW t \in Servers PROVE (Places(t) /\ Gone(t) /\ Kept(t))'
    BY <1>12 DEF RemoveServer, TypeOK, Quiet, Places, Gone, Kept
  <2> QED
    BY <2>1, <2>2
<1>13. ASSUME NEW s \in Servers, DeleteReturns(s) PROVE LifeInv'
  <2>1. TypeOK' /\ (phase \in BootPhases => Quiet)'
    BY <1>13 DEF DeleteReturns, TypeOK, Quiet, Places
  <2>2. ASSUME NEW t \in Servers PROVE (Places(t) /\ Gone(t) /\ Kept(t))'
    BY <1>13 DEF DeleteReturns, TypeOK, Quiet, Places, Gone, Kept
  <2> QED
    BY <2>1, <2>2
<1>14. CASE LoadConfig
  <2>1. TypeOK' /\ (phase \in BootPhases => Quiet)'
    BY <1>14 DEF LoadConfig, TypeOK, Quiet, Places
  <2>2. ASSUME NEW t \in Servers PROVE (Places(t) /\ Gone(t) /\ Kept(t))'
    BY <1>14 DEF LoadConfig, TypeOK, Quiet, Places, Gone, Kept
  <2> QED
    BY <2>1, <2>2
<1>15. CASE OpenStore
  <2>1. TypeOK' /\ (phase \in BootPhases => Quiet)'
    BY <1>15 DEF OpenStore, TypeOK, Quiet, Places
  <2>2. ASSUME NEW t \in Servers PROVE (Places(t) /\ Gone(t) /\ Kept(t))'
    BY <1>15 DEF OpenStore, TypeOK, Quiet, Places, Gone, Kept
  <2> QED
    BY <2>1, <2>2
<1>16. CASE RegisterPulls
  <2>1. TypeOK' /\ (phase \in BootPhases => Quiet)'
    BY <1>16 DEF RegisterPulls, TypeOK, Quiet, Places
  <2>2. ASSUME NEW t \in Servers PROVE (Places(t) /\ Gone(t) /\ Kept(t))'
    BY <1>16 DEF RegisterPulls, TypeOK, Quiet, Places, Gone, Kept
  <2> QED
    BY <2>1, <2>2
<1>17. CASE StartAlerts
  <2>1. TypeOK' /\ (phase \in BootPhases => Quiet)'
    BY <1>17 DEF StartAlerts, TypeOK, Quiet, Places
  <2>2. ASSUME NEW t \in Servers PROVE (Places(t) /\ Gone(t) /\ Kept(t))'
    BY <1>17 DEF StartAlerts, TypeOK, Quiet, Places, Gone, Kept
  <2> QED
    BY <2>1, <2>2
<1>18. CASE BuildStreamer
  <2>1. TypeOK' /\ (phase \in BootPhases => Quiet)'
    BY <1>18 DEF BuildStreamer, TypeOK, Quiet, Places
  <2>2. ASSUME NEW t \in Servers PROVE (Places(t) /\ Gone(t) /\ Kept(t))'
    BY <1>18 DEF BuildStreamer, TypeOK, Quiet, Places, Gone, Kept
  <2> QED
    BY <2>1, <2>2
<1>19. CASE StartStreamer
  <2>1. TypeOK' /\ (phase \in BootPhases => Quiet)'
    BY <1>19, LifecycleAssumption DEF StartStreamer, TypeOK, Quiet, Places
  <2>2. ASSUME NEW t \in Servers PROVE (Places(t) /\ Gone(t) /\ Kept(t))'
    <3>1. phase = "launch" /\ Quiet /\ streaming /\ UNCHANGED <<rows, jobs, cut, create, launch, delete, raced, streaming>>
      BY <1>19 DEF StartStreamer, Quiet
    <3>2. delete[t] = "none" /\ launch[t] \notin {"insert", "return"}
         /\ (t \in rows => launch[t] = "done" /\ create[t] = "done")
      BY <3>1 DEF Quiet, Places
    <3>3. t \in entries' => t \in rows /\ session'[t] = "running"
      BY <1>19, <3>1 DEF StartStreamer, Quiet
    <3>4. session'[t] # "none" => session'[t] = "running" /\ t \in entries'
      BY <1>19, <3>1 DEF StartStreamer, Quiet
    <3>5. Places(t)'
      BY <3>1, <3>2, <3>3 DEF Places
    <3> QED
      BY <1>19, <3>1, <3>2, <3>4, <3>5 DEF StartStreamer, Quiet, Gone, Kept
  <2> QED
    BY <2>1, <2>2
<1>20. CASE ListenFails
  <2>1. TypeOK' /\ (phase \in BootPhases => Quiet)'
    BY <1>20 DEF ListenFails, TypeOK, Quiet, Places
  <2>2. ASSUME NEW t \in Servers PROVE (Places(t) /\ Gone(t) /\ Kept(t))'
    BY <1>20 DEF ListenFails, TypeOK, Quiet, Places, Gone, Kept
  <2> QED
    BY <2>1, <2>2
<1>21. CASE Signal
  <2>1. TypeOK' /\ (phase \in BootPhases => Quiet)'
    BY <1>21 DEF Signal, TypeOK, Quiet, Places
  <2>2. ASSUME NEW t \in Servers PROVE (Places(t) /\ Gone(t) /\ Kept(t))'
    BY <1>21 DEF Signal, TypeOK, Quiet, Places, Gone, Kept
  <2> QED
    BY <2>1, <2>2
<1>22. CASE SchedulerStops
  <2>1. TypeOK' /\ (phase \in BootPhases => Quiet)'
    BY <1>22 DEF SchedulerStops, TypeOK, Quiet, Places
  <2>2. ASSUME NEW t \in Servers PROVE (Places(t) /\ Gone(t) /\ Kept(t))'
    BY <1>22 DEF SchedulerStops, TypeOK, Quiet, Places, Gone, Kept
  <2> QED
    BY <2>1, <2>2
<1>23. CASE ManagerStops
  <2>1. TypeOK' /\ (phase \in BootPhases => Quiet)'
    BY <1>23 DEF ManagerStops, TypeOK, Quiet, Places
  <2>2. ASSUME NEW t \in Servers PROVE (Places(t) /\ Gone(t) /\ Kept(t))'
    BY <1>23 DEF ManagerStops, TypeOK, Quiet, Places, Gone, Kept
  <2> QED
    BY <2>1, <2>2
<1>24. CASE ManagerStopped
  <2>1. TypeOK' /\ (phase \in BootPhases => Quiet)'
    BY <1>24 DEF ManagerStopped, TypeOK, Quiet, Places
  <2>2. ASSUME NEW t \in Servers PROVE (Places(t) /\ Gone(t) /\ Kept(t))'
    BY <1>24 DEF ManagerStopped, TypeOK, Quiet, Places, Gone, Kept
  <2> QED
    BY <2>1, <2>2
<1>25. CASE Exit
  <2>1. TypeOK' /\ (phase \in BootPhases => Quiet)'
    BY <1>25 DEF Exit, TypeOK, Quiet, Places
  <2>2. ASSUME NEW t \in Servers PROVE (Places(t) /\ Gone(t) /\ Kept(t))'
    BY <1>25 DEF Exit, TypeOK, Quiet, Places, Gone, Kept
  <2> QED
    BY <2>1, <2>2
<1>26. CASE UNCHANGED vars
  BY <1>26 DEF vars, TypeOK, Quiet, Places, Gone, Kept
<1> QED
  BY <1>1, <1>2, <1>3, <1>4, <1>5, <1>6, <1>7, <1>8, <1>9, <1>10, <1>11, <1>12, <1>13, <1>14, <1>15, <1>16, <1>17, <1>18, <1>19, <1>20, <1>21, <1>22, <1>23, <1>24, <1>25, <1>26 DEF Next

(* Type correctness, with the foreign keys of children and the nil map of a   *)
(* stopped manager.                                                           *)
THEOREM TypeCorrect == Spec => []TypeOK
<1>1. LifeInv => TypeOK
  BY DEF LifeInv
<1> QED
  BY LifeInit, LifeStep, <1>1, PTL DEF Spec

(* However creations, launches, deletions and the shutdown interleave, every  *)
(* server with a row whose creation was answered has its cron entry.          *)
THEOREM EveryServerPulled == Spec => []EveryServerIsPulled
<1>1. LifeInv => EveryServerIsPulled
  BY DEF LifeInv, Kept, EveryServerIsPulled, TypeOK
<1> QED
  BY LifeInit, LifeStep, <1>1, PTL DEF Spec

(* What a deletion leaves behind comes from one race only: with its own       *)
(* creation.                                                                  *)
THEOREM OrphansOnlyByRace == Spec => []OrphansNeedARace
<1>1. LifeInv => OrphansNeedARace
  BY DEF LifeInv, Gone, OrphansNeedARace
<1> QED
  BY LifeInit, LifeStep, <1>1, PTL DEF Spec

(* No request for another server ends a session of the boot.                  *)
THEOREM BootSessionsStay == Spec => []BootStreamsStay
<1>1. LifeInv => BootStreamsStay
  BY LifecycleAssumption DEF LifeInv, Kept, BootStreamsStay
<1> QED
  BY LifeInit, LifeStep, <1>1, PTL DEF Spec
=============================================================================
