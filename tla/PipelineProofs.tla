---------------------------- MODULE PipelineProofs ----------------------------
(***************************************************************************)
(* Proofs about the collector.                                             *)
(*                                                                         *)
(* The first part is about Pipeline and the Scheduler it runs on, for any  *)
(* servers, any number of goroutines and any number of slots: the          *)
(* semaphore bounds the jobs that run, and a Stop that returned nil leaves *)
(* no goroutine behind.                                                    *)
(*                                                                         *)
(* The second part is about the payload of the same PullOnce, which is in  *)
(* Collect: C is that module with parameters of its own.  It shows what    *)
(* the line protocol and the pages do with whatever a bench printed, for   *)
(* any hosts, any names and any number of pulls that overlap.              *)
(***************************************************************************)
EXTENDS Pipeline, FiniteSetTheorems, SequenceTheorems, TLAPS

(* The scheduler's part of TypeOK.                                           *)
Points == JobSteps \cup {"idle", "fired", "gate"}

SchedOK ==
    /\ at \in [Runs -> Points]
    /\ server \in [Runs -> Servers \cup {NoServer}]
    /\ \A r \in Runs : at[r] = "idle" <=> server[r] = NoServer
    /\ expired \subseteq Holders
    /\ Cardinality(Holders) <= MaxParallel
    /\ stop \in StopStates

OutsideOK ==
    /\ host \in [Servers -> HostStates]
    /\ status \in [Servers -> Statuses]
    /\ test \in [at : TestSteps, server : Servers \cup {NoServer}]
    /\ aborted \in BOOLEAN
    /\ tests \in 0..MaxTests
    /\ faults \in 0..MaxFaults

(* A goroutine is somewhere only if cron may still start one, or did.        *)
PipelineInv == SchedOK /\ OutsideOK /\ StoppedIsDrained

LEMMA StepsAre == /\ "idle" \notin JobSteps /\ "fired" \notin JobSteps /\ "gate" \notin JobSteps
                  /\ JobSteps = {"lookup", "dial", "ssh", "failed", "push", "report"}
                  /\ FirstStep \in JobSteps
  BY SchedulerAssumption, PipelineAssumption

LEMMA HoldersFinite ==
  /\ IsFiniteSet(Holders) /\ Cardinality(Holders) \in Nat
  /\ MaxParallel \in Nat
<1>1. Holders \subseteq Runs
  BY DEF Holders
<1>2. IsFiniteSet(Holders)
  BY <1>1, SchedulerAssumption, FS_Subset
<1> QED
  BY <1>2, FS_CardinalityType, SchedulerAssumption

-----------------------------------------------------------------------------
(***************************************************************************)
(* What each move of a goroutine does to the scheduler.                    *)
(***************************************************************************)
LEMMA GotoOK ==
  ASSUME SchedOK, StoppedIsDrained, NEW r \in Runs, at[r] \in JobSteps,
         NEW step \in JobSteps, Goto(r, step)
  PROVE  SchedOK' /\ StoppedIsDrained'
<1>1. /\ at' \in [Runs -> Points] /\ UNCHANGED <<server, expired, stop>>
      /\ \A q \in Runs : q # r => at'[q] = at[q]
      /\ at'[r] = step
  BY DEF SchedOK, Goto, Points
<1>2. Holders' = Holders
  BY <1>1 DEF Holders
<1>3. \A q \in Runs : at'[q] = "idle" <=> at[q] = "idle"
  BY <1>1, StepsAre
<1>4. InCron' = InCron
  BY <1>3 DEF InCron
<1> QED
  BY <1>1, <1>2, <1>3, <1>4 DEF SchedOK, StoppedIsDrained

(* The deferred calls of runOnce.                                            *)
LEMMA ReturnOK ==
  ASSUME SchedOK, StoppedIsDrained, NEW r \in Runs, Return(r)
  PROVE  SchedOK' /\ StoppedIsDrained'
<1>1. /\ at' = [at EXCEPT ![r] = "idle"] /\ server' = [server EXCEPT ![r] = NoServer]
      /\ expired' = expired \ {r} /\ UNCHANGED stop
  BY DEF Return
<1>2. /\ at' \in [Runs -> Points] /\ server' \in [Runs -> Servers \cup {NoServer}]
      /\ \A q \in Runs : q # r => at'[q] = at[q] /\ server'[q] = server[q]
      /\ at'[r] = "idle" /\ server'[r] = NoServer
  BY <1>1 DEF SchedOK, Points
<1>3. Holders' = Holders \ {r}
  BY <1>2, StepsAre DEF Holders
<1>4. Cardinality(Holders') <= MaxParallel
  <2>1. Cardinality(Holders \ {r}) <= Cardinality(Holders) /\ Cardinality(Holders \ {r}) \in Nat
    <3>1. Holders \ {r} \subseteq Holders
      OBVIOUS
    <3> QED
      BY <3>1, HoldersFinite, FS_Subset, FS_CardinalityType
  <2> QED
    BY <1>3, <2>1, HoldersFinite DEF SchedOK
<1>5. InCron' = InCron \ {r}
  BY <1>2 DEF InCron
<1>6. \A q \in Runs : at'[q] = "idle" <=> server'[q] = NoServer
  BY <1>2 DEF SchedOK
<1> QED
  BY <1>1, <1>2, <1>3, <1>4, <1>5, <1>6 DEF SchedOK, StoppedIsDrained

LEMMA FireOK ==
  ASSUME SchedOK, StoppedIsDrained, NEW s \in Servers, Fire(s)
  PROVE  SchedOK' /\ StoppedIsDrained'
<1>1. PICK r \in Runs : /\ at[r] = "idle" /\ at' = [at EXCEPT ![r] = "fired"]
                        /\ server' = [server EXCEPT ![r] = s]
  BY DEF Fire
<1>2. UNCHANGED <<expired, stop>> /\ stop # "nil"
  BY DEF Fire
<1>3. /\ at' \in [Runs -> Points] /\ server' \in [Runs -> Servers \cup {NoServer}]
      /\ \A q \in Runs : q # r => at'[q] = at[q] /\ server'[q] = server[q]
      /\ at'[r] = "fired" /\ server'[r] = s
  BY <1>1 DEF SchedOK, Points
<1>4. Holders' = Holders
  BY <1>1, <1>3, StepsAre DEF Holders
<1>5. \A q \in Runs : at'[q] = "idle" <=> server'[q] = NoServer
  BY <1>3, SchedulerAssumption DEF SchedOK
<1> QED
  BY <1>2, <1>3, <1>4, <1>5 DEF SchedOK, StoppedIsDrained

LEMMA EnterOK ==
  ASSUME SchedOK, StoppedIsDrained, NEW r \in Runs, Enter(r)
  PROVE  SchedOK' /\ StoppedIsDrained'
<1>1. /\ at[r] = "fired" /\ at' \in [Runs -> Points] /\ UNCHANGED <<server, expired, stop>>
      /\ \A q \in Runs : q # r => at'[q] = at[q]
      /\ at'[r] = "gate"
  BY DEF SchedOK, Enter, Points
<1>2. Holders' = Holders /\ InCron' = InCron
  BY <1>1, StepsAre DEF Holders, InCron
<1> QED
  BY <1>1, <1>2 DEF SchedOK, StoppedIsDrained

(* The only step that takes a slot, and it finds one free.                   *)
LEMMA AcquireOK ==
  ASSUME SchedOK, StoppedIsDrained, NEW r \in Runs, Acquire(r)
  PROVE  SchedOK' /\ StoppedIsDrained'
<1>1. /\ at[r] = "gate" /\ at' \in [Runs -> Points] /\ UNCHANGED <<server, expired, stop>>
      /\ \A q \in Runs : q # r => at'[q] = at[q]
      /\ at'[r] = FirstStep
  BY StepsAre DEF SchedOK, Acquire, Points
<1>2. Holders' = Holders \cup {r} /\ r \notin Holders
  BY <1>1, StepsAre DEF Holders
<1>3. Cardinality(Holders') <= MaxParallel
  <2>1. Cardinality(Holders \cup {r}) = Cardinality(Holders) + 1
    BY <1>2, HoldersFinite, FS_AddElement
  <2> QED
    BY <1>2, <2>1, HoldersFinite DEF Acquire
<1>4. \A q \in Runs : at'[q] = "idle" <=> at[q] = "idle"
  BY <1>1, StepsAre
<1>5. InCron' = InCron
  BY <1>4 DEF InCron
<1> QED
  BY <1>1, <1>2, <1>3, <1>4, <1>5 DEF SchedOK, StoppedIsDrained

LEMMA TimeoutOK ==
  ASSUME SchedOK, StoppedIsDrained, NEW r \in Runs, Timeout(r)
  PROVE  SchedOK' /\ StoppedIsDrained'
  BY DEF SchedOK, StoppedIsDrained, Timeout, Holders, InCron

(* Stop returns nil only with cron's own wait group empty, and nothing is    *)
(* fired from the moment it has stopped cron.                                *)
LEMMA StopOK ==
  ASSUME SchedOK, StoppedIsDrained,
         StopCancel \/ StopCron \/ StopDrained \/ StopReturns \/ StopExpires
  PROVE  SchedOK' /\ StoppedIsDrained'
<1>1. UNCHANGED <<at, server, expired>> /\ stop' \in StopStates
  BY DEF StopCancel, StopCron, StopDrained, StopReturns, StopExpires, StopStates
<1>2. stop' = "nil" => InCron = {}
  BY DEF StopCancel, StopCron, StopDrained, StopReturns, StopExpires
<1> QED
  BY <1>1, <1>2 DEF SchedOK, StoppedIsDrained, Holders, InCron

LEMMA SchedUnchanged ==
  ASSUME SchedOK, StoppedIsDrained, UNCHANGED schedVars
  PROVE  SchedOK' /\ StoppedIsDrained'
  BY DEF SchedOK, StoppedIsDrained, schedVars, Holders, InCron

-----------------------------------------------------------------------------
(***************************************************************************)
(* The job, the request and the hosts.                                     *)
(***************************************************************************)
LEMMA PullIsAJob ==
  ASSUME SchedOK, NEW r \in Runs,
         Pull(r) \/ GetServerFails(r) \/ StatusFails(r) \/ JobTimesOut(r) \/ SlowJob(r)
  PROVE  /\ Timeout(r) \/ Return(r) \/ \E step \in JobSteps : Goto(r, step)
         /\ at[r] \in JobSteps
<1> USE StepsAre DEF Pull
<1>1. CASE GetServer(r) \/ GetServerFails(r)
  BY <1>1 DEF GetServer, GetServerFails
<1>2. CASE SshOpens(r) \/ SshAnswers(r) \/ SshCut(r)
  BY <1>2 DEF SshOpens, SshAnswers, SshCut
<1>3. CASE MarkUnreachable(r) \/ MarkReachable(r) \/ StatusFails(r)
  BY <1>3 DEF MarkUnreachable, MarkReachable, StatusFails
<1>4. CASE PushOk(r) \/ PushFails(r)
  BY <1>4 DEF PushOk, PushFails
<1>5. CASE JobTimesOut(r) \/ SlowJob(r)
  BY <1>5 DEF JobTimesOut, SlowJob, Timeout, Holders
<1> QED
  BY <1>1, <1>2, <1>3, <1>4, <1>5

LEMMA JobOutside ==
  ASSUME SchedOK, OutsideOK, NEW r \in Runs,
         Pull(r) \/ GetServerFails(r) \/ StatusFails(r) \/ JobTimesOut(r) \/ SlowJob(r)
  PROVE  OutsideOK'
<1> USE PipelineAssumption DEF OutsideOK, Pull
<1>1. Fault => faults' \in 0..MaxFaults
  BY DEF Fault
<1>2. ASSUME NEW s, NEW value \in Statuses, SetServerStatus(s, value)
      PROVE  status' \in [Servers -> Statuses]
  BY <1>2 DEF SetServerStatus
<1>3. "unreachable" \in Statuses /\ "reachable" \in Statuses
  BY DEF Statuses
<1>4. CASE GetServer(r) \/ SshOpens(r) \/ SshAnswers(r) \/ SshCut(r) \/ PushOk(r) \/ PushFails(r)
           \/ JobTimesOut(r)
  BY <1>4 DEF GetServer, SshOpens, SshAnswers, SshCut, PushOk, PushFails, JobTimesOut
<1>5. CASE MarkUnreachable(r) \/ MarkReachable(r)
  BY <1>2, <1>3, <1>5 DEF MarkUnreachable, MarkReachable
<1>6. CASE GetServerFails(r) \/ StatusFails(r) \/ SlowJob(r)
  BY <1>1, <1>6 DEF GetServerFails, StatusFails, SlowJob
<1> QED
  BY <1>4, <1>5, <1>6

LEMMA TestOutside ==
  ASSUME OutsideOK,
         \/ \E s \in Servers : TestStart(s) \/ HostChanges(s)
         \/ TestPing \/ TestReport \/ TestAborted
  PROVE  OutsideOK' /\ UNCHANGED schedVars
<1> USE PipelineAssumption DEF OutsideOK
<1>1. Fault => faults' \in 0..MaxFaults
  BY DEF Fault
<1>2. ASSUME NEW s \in Servers, TestStart(s)
      PROVE  OutsideOK' /\ UNCHANGED schedVars
  BY <1>2 DEF TestStart, TestSteps
<1>3. ASSUME NEW s \in Servers, HostChanges(s)
      PROVE  OutsideOK' /\ UNCHANGED schedVars
  BY <1>1, <1>3 DEF HostChanges
<1>4. CASE TestPing
  BY <1>4 DEF TestPing, TestSteps
<1>5. CASE TestReport
  <2>1. NoTest \in [at : TestSteps, server : Servers \cup {NoServer}]
    BY DEF NoTest, TestSteps
  <2>2. status' \in [Servers -> Statuses]
    BY <1>5 DEF TestReport, SetServerStatus, Statuses
  <2> QED
    BY <1>5, <2>1, <2>2 DEF TestReport
<1>6. CASE TestAborted
  BY <1>1, <1>6 DEF TestAborted
<1> QED
  BY <1>2, <1>3, <1>4, <1>5, <1>6

-----------------------------------------------------------------------------
LEMMA InvInit == Init => PipelineInv
<1> SUFFICES ASSUME Init
             PROVE  PipelineInv
  OBVIOUS
<1>1. Holders = {} /\ InCron = {}
  BY StepsAre DEF Init, SchedInit, Holders, InCron
<1>2. Cardinality(Holders) = 0
  BY <1>1, FS_EmptySet
<1>3. SchedOK
  BY <1>1, <1>2, SchedulerAssumption DEF Init, SchedInit, SchedOK, Points, StopStates
<1>4. OutsideOK
  <2>1. NoTest \in [at : TestSteps, server : Servers \cup {NoServer}]
    BY DEF NoTest, TestSteps
  <2>2. "unknown" \in Statuses /\ 0 \in 0..MaxTests /\ 0 \in 0..MaxFaults
    BY PipelineAssumption DEF Statuses
  <2> QED
    BY <2>1, <2>2 DEF Init, OutsideOK
<1> QED
  BY <1>1, <1>3, <1>4 DEF PipelineInv, StoppedIsDrained

LEMMA InvStep == PipelineInv /\ [Next]_vars => PipelineInv'
<1> SUFFICES ASSUME SchedOK, OutsideOK, StoppedIsDrained, [Next]_vars
             PROVE  SchedOK' /\ OutsideOK' /\ StoppedIsDrained'
  BY DEF PipelineInv
<1>o. UNCHANGED outside => OutsideOK'
  BY DEF outside, OutsideOK
<1>1. ASSUME NEW s \in Servers, Fire(s) /\ UNCHANGED outside
      PROVE  SchedOK' /\ OutsideOK' /\ StoppedIsDrained'
  BY <1>o, <1>1, FireOK
<1>2. ASSUME NEW r \in Runs, (Enter(r) \/ Acquire(r) \/ Bail(r)) /\ UNCHANGED outside
      PROVE  SchedOK' /\ OutsideOK' /\ StoppedIsDrained'
  BY <1>o, <1>2, EnterOK, AcquireOK, ReturnOK DEF Bail
<1>3. ASSUME NEW r \in Runs,
             Pull(r) \/ GetServerFails(r) \/ StatusFails(r) \/ JobTimesOut(r) \/ SlowJob(r)
      PROVE  SchedOK' /\ OutsideOK' /\ StoppedIsDrained'
  <2>1. OutsideOK'
    BY <1>3, JobOutside
  <2>2. /\ Timeout(r) \/ Return(r) \/ \E step \in JobSteps : Goto(r, step)
        /\ at[r] \in JobSteps
    BY <1>3, PullIsAJob
  <2> QED
    BY <2>1, <2>2, TimeoutOK, ReturnOK, GotoOK
<1>4. CASE (StopCancel \/ Stopping) /\ UNCHANGED outside
  BY <1>o, <1>4, StopOK DEF Stopping
<1>5. CASE \/ \E s \in Servers : TestStart(s) \/ HostChanges(s)
           \/ TestPing \/ TestReport \/ TestAborted
  BY <1>5, TestOutside, SchedUnchanged
<1>6. CASE UNCHANGED vars
  BY <1>o, <1>6, SchedUnchanged DEF vars, schedVars, outside
<1> QED
  BY <1>1, <1>2, <1>3, <1>4, <1>5, <1>6 DEF Next

LEMMA InvAlways == Spec => []PipelineInv
  BY InvInit, InvStep, PTL DEF Spec

(* Every variable has its type, no timeout outlives its job, and never more  *)
(* than maxParallel jobs hold a slot, whatever hosts, stores and clients do  *)
(* and however many goroutines cron has started (scheduler.go runOnce).      *)
THEOREM TypeCorrect == Spec => []TypeOK
<1>1. PipelineInv => TypeOK
  BY DEF PipelineInv, SchedOK, OutsideOK, TypeOK, Points
<1> QED
  BY <1>1, InvAlways, PTL

(* When Stop has returned nil, no goroutine of the scheduler is left: main   *)
(* closes the store and the SSH pool after it (cmd/monitor/main.go run).     *)
THEOREM StoppedIsDrainedAlways == Spec => []StoppedIsDrained
<1>1. PipelineInv => StoppedIsDrained
  BY DEF PipelineInv
<1> QED
  BY <1>1, InvAlways, PTL

-----------------------------------------------------------------------------
(***************************************************************************)
(* The payload: what of PullOnce is in Collect.                            *)
(***************************************************************************)
CONSTANTS CpuFields, MemFields, LoadFields, Queues, Commas, Blanks,
          Pulls, Hosts, ServerName, MaxRuns, MaxChanges, MaxDeploys, Stride

VARIABLES machine, clock, script, deploying, pull, db, accepted, runs, changes, deploys

C == INSTANCE Collect WITH host <- machine

-----------------------------------------------------------------------------
(***************************************************************************)
(* The line protocol.                                                      *)
(***************************************************************************)
(* The tags of a sample as the monitor writes them.                          *)
Escaped(t) ==
    /\ t = [i \in DOMAIN t |-> t[i]]
    /\ \A i \in DOMAIN t : \E key, name : t[i] = C!Tag(key, name)

LEMMA Appended ==
  ASSUME NEW a, NEW b, NEW c
  PROVE  Append(<<a, b>>, c) = <<a, b, c>>
<1> DEFINE S == {a, b, c}
<1>1. <<a, b>> \in Seq(S) /\ c \in S /\ <<a, b, c>> \in Seq(S)
  OBVIOUS
<1>2. /\ Append(<<a, b>>, c) \in Seq(S)
      /\ Len(Append(<<a, b>>, c)) = 3
      /\ Append(<<a, b>>, c)[3] = c
      /\ Append(<<a, b>>, c)[1] = a /\ Append(<<a, b>>, c)[2] = b
  BY <1>1, AppendProperties
<1>3. Len(<<a, b, c>>) = 3 /\ <<a, b, c>>[1] = a /\ <<a, b, c>>[2] = b /\ <<a, b, c>>[3] = c
  OBVIOUS
<1>4. \A i \in 1..3 : Append(<<a, b>>, c)[i] = <<a, b, c>>[i]
  BY <1>2, <1>3
<1> QED
  BY <1>1, <1>2, <1>3, <1>4, SeqEqual

LEMMA EscapedTuples ==
  ASSUME NEW a, NEW b, NEW c, NEW k, NEW l, NEW m
  PROVE  /\ Escaped(<<C!Tag(k, a)>>)
         /\ Escaped(<<C!Tag(k, a), C!Tag(l, b)>>)
         /\ Escaped(<<C!Tag(k, a), C!Tag(l, b), C!Tag(m, c)>>)
         /\ Escaped(Append(<<C!Tag(k, a), C!Tag(l, b)>>, C!Tag(m, c)))
<1>1. Escaped(<<C!Tag(k, a), C!Tag(l, b), C!Tag(m, c)>>)
  BY DEF Escaped
<1> QED
  BY <1>1, Appended DEF Escaped

LEMMA ServerLinesAre ==
  ASSUME NEW m, NEW srv, NEW ts, NEW s \in C!ServerLines(m, srv, ts)
  PROVE  \E metric, tags, value : s = C!Sample(metric, tags, value, ts) /\ Escaped(tags)
<1> DEFINE line(metric, tags, value) == s = C!Sample(metric, tags, value, ts)
           two(key, name) == <<C!Tag("server", srv), C!Tag(key, name)>>
<1>1. \/ \E f \in C!ServerFields :
            line(<<"server", f>>, <<C!Tag("server", srv)>>, C!Scaled(f, m.fields[f]))
      \/ \E d \in DOMAIN m.disks :
            \/ line(<<"server", "disk_used_bytes">>, two("mount", d), m.disks[d][1][1])
            \/ line(<<"server", "disk_total_bytes">>, two("mount", d), m.disks[d][2][1])
      \/ \E i \in DOMAIN m.net :
            \/ line(<<"server", "net_rx_bytes">>, two("iface", i), m.net[i][1][1])
            \/ line(<<"server", "net_tx_bytes">>, two("iface", i), m.net[i][2][1])
  BY Zenon DEF C!ServerLines
<1>2. \/ \E metric, value : line(metric, <<C!Tag("server", srv)>>, value)
      \/ \E metric, key, name, value : line(metric, two(key, name), value)
  BY <1>1, Zenon
<1> QED
  BY <1>2, EscapedTuples

LEMMA BenchLinesAre ==
  ASSUME NEW m, NEW srv, NEW ts, NEW s \in C!BenchLines(m, srv, ts)
  PROVE  \E metric, tags, value : s = C!Sample(metric, tags, value, ts) /\ Escaped(tags)
<1> DEFINE two == <<C!Tag("server", srv), C!Tag("bench", m.bench)>>
<1>1. \/ \E metric, value : s = C!Sample(metric, two, value, ts)
      \/ \E metric, key, name, value :
            s = C!Sample(metric, Append(two, C!Tag(key, name)), value, ts)
  BY DEF C!BenchLines
<1> QED
  BY <1>1, EscapedTuples

LEMMA SiteLinesAre ==
  ASSUME NEW m, NEW srv, NEW ts, NEW s \in C!SiteLines(m, srv, ts)
  PROVE  \E metric, tags, value : s = C!Sample(metric, tags, value, ts) /\ Escaped(tags)
<1>1. \E metric, value :
         s = C!Sample(metric, <<C!Tag("server", srv), C!Tag("bench", m.bench), C!Tag("site", m.site)>>,
                      value, ts)
  BY DEF C!SiteLines
<1> QED
  BY <1>1, EscapedTuples

LEMMA BodyIs ==
  ASSUME NEW out, NEW s \in C!Body(out)
  PROVE  \E metric, tags, value :
            s = C!Sample(metric, tags, value, C!ServerFromSections(out).timestamp) /\ Escaped(tags)
<1>1. \E m : LET ts == C!ServerFromSections(out).timestamp
             IN  \/ s \in C!ServerLines(m, ServerName, ts)
                 \/ s \in C!BenchLines(m, ServerName, ts)
                 \/ s \in C!SiteLines(m, ServerName, ts)
  BY DEF C!Body
<1> QED
  BY <1>1, ServerLinesAre, BenchLinesAre, SiteLinesAre

LEMMA EscapeUndone ==
  ASSUME NEW key, NEW name
  PROVE  /\ C!Tag(key, name)[1] = key
         /\ C!Tag(key, name)[2][Len(C!Tag(key, name)[2])] = name
         /\ Len(C!Tag(key, name)[2]) = 2 \/ C!Tag(key, name)[2][1] \notin C!Special
<1>1. CASE name \in C!Special
  BY <1>1 DEF C!Tag, C!EscapeTag
<1>2. CASE name \notin C!Special
  BY <1>2 DEF C!Tag, C!EscapeTag
<1> QED
  BY <1>1, <1>2

LEMMA DecodedIs ==
  ASSUME NEW out, NEW s \in C!Body(out)
  PROVE  /\ s.ts = C!ServerFromSections(out).timestamp
         /\ Escaped(s.tags)
         /\ C!Readable(s)
         /\ C!Decoded(s) = C!Sample(s.metric, C!Decoded(s).tags, s.value, s.ts)
         /\ s = C!Sample(s.metric, s.tags, s.value, s.ts)
         /\ DOMAIN C!Decoded(s).tags = DOMAIN s.tags
         /\ \A i \in DOMAIN s.tags : \E key, name :
               s.tags[i] = C!Tag(key, name) /\ C!Decoded(s).tags[i] = <<key, name>>
<1>1. PICK metric, tags, value :
         s = C!Sample(metric, tags, value, C!ServerFromSections(out).timestamp) /\ Escaped(tags)
  BY BodyIs
<1>2. /\ s.tags = tags /\ s.ts = C!ServerFromSections(out).timestamp
      /\ s = C!Sample(s.metric, s.tags, s.value, s.ts)
  BY <1>1 DEF C!Sample
<1>3. C!Readable(s)
  BY <1>1, <1>2, EscapeUndone DEF C!Readable, Escaped
<1>4. /\ C!Decoded(s).tags = [i \in DOMAIN tags |-> <<tags[i][1], tags[i][2][Len(tags[i][2])]>>]
      /\ C!Decoded(s) = C!Sample(s.metric, C!Decoded(s).tags, s.value, s.ts)
  BY <1>1 DEF C!Decoded, C!Sample
<1>5. \A i \in DOMAIN tags : \E key, name :
         tags[i] = C!Tag(key, name) /\ C!Decoded(s).tags[i] = <<key, name>>
  BY <1>1, <1>4, EscapeUndone DEF Escaped
<1> QED
  BY <1>1, <1>2, <1>3, <1>4, <1>5

(* Nothing is lost or mixed up between the line the monitor writes           *)
(* (internal/metrics/lineproto.go, escapeTag) and the series VictoriaMetrics    *)
(* stores, whatever the bench printed and whatever its sites are called:     *)
(* every line of a push is one that can be split, its tags read back as the  *)
(* names they were made from, two lines of a push that read back as one      *)
(* sample are one line, and all carry the time the script started at.        *)
THEOREM EscapesAreUndone ==
  ASSUME NEW out, NEW s \in C!Body(out)
  PROVE  /\ s.ts = C!ServerFromSections(out).timestamp
         /\ C!Decoded(s) \in C!Stored(C!Body(out))
         /\ \A i \in DOMAIN s.tags : \E key, name :
               s.tags[i] = C!Tag(key, name) /\ C!Decoded(s).tags[i] = <<key, name>>
         /\ \A o \in C!Body(out) : C!Decoded(o) = C!Decoded(s) => o = s
<1>1. C!Decoded(s) \in C!Stored(C!Body(out))
  BY DecodedIs DEF C!Stored
<1>2. ASSUME NEW o \in C!Body(out), C!Decoded(o) = C!Decoded(s)
      PROVE  o = s
  <2>1. /\ s.metric = o.metric /\ s.value = o.value /\ s.ts = o.ts
        /\ DOMAIN s.tags = DOMAIN o.tags
    <3>1. /\ C!Decoded(s) = C!Sample(s.metric, C!Decoded(s).tags, s.value, s.ts)
          /\ C!Decoded(o) = C!Sample(o.metric, C!Decoded(o).tags, o.value, o.ts)
          /\ DOMAIN s.tags = DOMAIN C!Decoded(s).tags
          /\ DOMAIN o.tags = DOMAIN C!Decoded(o).tags
      BY DecodedIs
    <3>2. C!Decoded(s).metric = s.metric /\ C!Decoded(s).value = s.value /\ C!Decoded(s).ts = s.ts
      BY <3>1 DEF C!Sample
    <3>3. C!Decoded(o).metric = o.metric /\ C!Decoded(o).value = o.value /\ C!Decoded(o).ts = o.ts
      BY <3>1 DEF C!Sample
    <3> QED
      BY <1>2, <3>1, <3>2, <3>3
  <2>2. ASSUME NEW i \in DOMAIN s.tags
        PROVE  s.tags[i] = o.tags[i]
    <3>1. PICK k, n : s.tags[i] = C!Tag(k, n) /\ C!Decoded(s).tags[i] = <<k, n>>
      BY DecodedIs
    <3>2. PICK l, m : o.tags[i] = C!Tag(l, m) /\ C!Decoded(o).tags[i] = <<l, m>>
      BY <2>1, DecodedIs
    <3> QED
      BY <1>2, <3>1, <3>2
  <2>3. s.tags = o.tags
    <3>1. /\ s.tags = [i \in DOMAIN s.tags |-> s.tags[i]]
          /\ o.tags = [i \in DOMAIN o.tags |-> o.tags[i]]
      BY DecodedIs DEF Escaped
    <3> QED
      BY <2>1, <2>2, <3>1
  <2> QED
    BY <2>1, <2>3, DecodedIs
<1> QED
  BY <1>1, <1>2, DecodedIs

-----------------------------------------------------------------------------
(***************************************************************************)
(* What a capture leaves.                                                  *)
(***************************************************************************)
LEMMA ServerMetric ==
  ASSUME NEW r, NEW s \in C!ServerExpected(r)
  PROVE  \E m : s.metric = <<"server", m>>
<1>1. \/ \E f \in C!ServerFields :
            s = C!Sample(<<"server", f>>, <<C!ServerTag>>,
                         IF f \in MemFields THEN 1024 * r.host.v ELSE r.host.v, r.ts)
      \/ \E m \in {"disk_used_bytes", "disk_total_bytes"} : \E d \in C!Kept(r.host.disks) :
            s = C!Sample(<<"server", m>>, <<C!ServerTag, C!Plain("mount", d)>>, r.host.v, r.ts)
      \/ \E m \in {"net_rx_bytes", "net_tx_bytes"} : \E n \in C!Kept(r.host.nets) :
            s = C!Sample(<<"server", m>>, <<C!ServerTag, C!Plain("iface", n)>>, r.host.v, r.ts)
  BY Zenon DEF C!ServerExpected
<1>2. \E m, tags, v : s = C!Sample(<<"server", m>>, tags, v, r.ts)
  BY <1>1, Zenon
<1> QED
  BY <1>2 DEF C!Sample

LEMMA BenchCounts ==
  ASSUME NEW r, NEW i, NEW s \in C!BenchExpected(r, i)
  PROVE  /\ s.metric = <<"bench", "apps_count">> => s.tags = C!BenchTags(r.host.benches[i].name)
         /\ s.metric = <<"bench", "supervisor_total">> =>
               s.tags = C!BenchTags(r.host.benches[i].name) /\ s.value = r.host.v
<1> DEFINE name == r.host.benches[i].name
<1>1. \/ \E m \in {"redis_queue_depth", "info", "supervisor_running"} : \E tags, v :
            s = C!Sample(<<"bench", m>>, tags, v, r.ts)
      \/ \E v : s = C!Sample(<<"bench", "apps_count">>, C!BenchTags(name), v, r.ts)
      \/ s = C!Sample(<<"bench", "supervisor_total">>, C!BenchTags(name), r.host.v, r.ts)
  BY DEF C!BenchExpected
<1> QED
  BY <1>1 DEF C!Sample

(* What is pushed of a site, of an overlooked bench or not.                  *)
SiteTold(r, i, x) ==
  IF i \in C!Overlooked(r) THEN C!SiteSamples(r, i, x, 0) ELSE C!SiteExpected(r, i, x)

LEMMA SiteToldIs ==
  ASSUME NEW r, NEW i, NEW x
  PROVE  \E code : SiteTold(r, i, x) = C!SiteSamples(r, i, x, code)
  BY DEF SiteTold, C!SiteExpected

LEMMA SiteCounts ==
  ASSUME NEW r, NEW i, NEW x, NEW s \in SiteTold(r, i, x)
  PROVE  /\ \E m : s.metric = <<"site", m>>
         /\ s.tags = C!SiteTags(r.host.benches[i].name, x) /\ s.ts = r.ts
<1>1. PICK code : s \in C!SiteSamples(r, i, x, code)
  BY SiteToldIs
<1>2. \E m, v : s = C!Sample(<<"site", m>>, C!SiteTags(r.host.benches[i].name, x), v, r.ts)
  BY <1>1 DEF C!SiteSamples
<1> QED
  BY <1>2 DEF C!Sample

LEMMA BenchStamped ==
  ASSUME NEW r, NEW i, NEW s \in C!BenchExpected(r, i)
  PROVE  (\E m : s.metric = <<"bench", m>>) /\ s.ts = r.ts
<1>1. \E m, tags, v : s = C!Sample(<<"bench", m>>, tags, v, r.ts)
  BY DEF C!BenchExpected
<1> QED
  BY <1>1 DEF C!Sample

LEMMA Parts ==
  ASSUME NEW r, NEW s
  PROVE  s \in C!Told(r) <=>
           \/ s \in C!ServerExpected(r)
           \/ \E i \in C!InOrder(r) : s \in C!BenchExpected(r, i)
           \/ \E i \in DOMAIN r.host.benches : \E x \in DOMAIN r.host.benches[i].sites :
                 s \in SiteTold(r, i, x)
<1>1. s \in C!Expected(r) <=>
        \/ s \in C!ServerExpected(r)
        \/ \E i \in C!InOrder(r) : s \in C!BenchExpected(r, i)
        \/ \E i \in DOMAIN r.host.benches \ C!Overlooked(r) :
              \E x \in DOMAIN r.host.benches[i].sites : s \in C!SiteExpected(r, i, x)
  BY DEF C!Expected
<1>2. s \in C!Mistaken(r) <=>
        \E i \in C!Overlooked(r) :
           \E x \in DOMAIN r.host.benches[i].sites : s \in C!SiteSamples(r, i, x, 0)
  BY DEF C!Mistaken
<1>3. C!Overlooked(r) \subseteq DOMAIN r.host.benches
  BY DEF C!Overlooked
<1> QED
  BY <1>1, <1>2, <1>3 DEF C!Told, SiteTold

(* A count of a bench comes from a capture in which that bench was in order, *)
(* with the time of that capture.                                            *)
LEMMA CountsAre ==
  ASSUME NEW r, NEW s \in C!Told(r),
         NEW m \in {"apps_count", "supervisor_total"}, s.metric = <<"bench", m>>
  PROVE  \E b : /\ C!HasBench(r, b)
                /\ s.tags = C!BenchTags(b) /\ s.ts = r.ts
                /\ m = "supervisor_total" => s.value = r.host.v
<1>1. PICK i \in C!InOrder(r) : s \in C!BenchExpected(r, i)
  <2>1. ~ \E n : s.metric = <<"server", n>>
    OBVIOUS
  <2>2. ~ \E n : s.metric = <<"site", n>>
    OBVIOUS
  <2> QED
    BY <2>1, <2>2, Parts, ServerMetric, SiteCounts
<1>2. C!HasBench(r, r.host.benches[i].name)
  BY <1>1 DEF C!HasBench
<1> QED
  BY <1>1, <1>2, BenchCounts, BenchStamped

LEMMA CountsMade ==
  ASSUME NEW r, NEW b, C!HasBench(r, b), NEW m \in {"apps_count", "supervisor_total"}
  PROVE  \E s \in C!Told(r) : s.metric = <<"bench", m>> /\ s.tags = C!BenchTags(b) /\ s.ts = r.ts
<1>1. PICK i \in C!InOrder(r) : r.host.benches[i].name = b
  BY DEF C!HasBench
<1>2. PICK v : C!Sample(<<"bench", m>>, C!BenchTags(b), v, r.ts) \in C!BenchExpected(r, i)
  BY <1>1 DEF C!BenchExpected
<1>3. C!Sample(<<"bench", m>>, C!BenchTags(b), v, r.ts) \in C!Told(r)
  BY <1>1, <1>2, Parts
<1> QED
  BY <1>3 DEF C!Sample

LEMMA HealthIs ==
  ASSUME NEW r, NEW s \in C!Told(r), s.metric = <<"site", "is_healthy">>
  PROVE  \E b, x : C!HasSite(r, b, x) /\ s.tags = C!SiteTags(b, x) /\ s.ts = r.ts
<1>1. PICK i \in DOMAIN r.host.benches : \E x \in DOMAIN r.host.benches[i].sites :
         s \in SiteTold(r, i, x)
  <2>1. ~ \E n : s.metric = <<"server", n>>
    OBVIOUS
  <2>2. ~ \E n : s.metric = <<"bench", n>>
    OBVIOUS
  <2> QED
    BY <2>1, <2>2, Parts, ServerMetric, BenchStamped
<1>2. PICK x \in DOMAIN r.host.benches[i].sites : s \in SiteTold(r, i, x)
  BY <1>1
<1>3. C!HasSite(r, r.host.benches[i].name, x)
  BY <1>1, <1>2 DEF C!HasSite
<1> QED
  BY <1>2, <1>3, SiteCounts

LEMMA HealthMade ==
  ASSUME NEW r, NEW b, NEW x, C!HasSite(r, b, x)
  PROVE  \E s \in C!Told(r) :
            s.metric = <<"site", "is_healthy">> /\ s.tags = C!SiteTags(b, x) /\ s.ts = r.ts
<1>1. PICK i \in DOMAIN r.host.benches :
         r.host.benches[i].name = b /\ x \in DOMAIN r.host.benches[i].sites
  BY DEF C!HasSite
<1>2. PICK v : C!Sample(<<"site", "is_healthy">>, C!SiteTags(b, x), v, r.ts) \in SiteTold(r, i, x)
  BY <1>1, SiteToldIs DEF C!SiteSamples
<1>3. C!Sample(<<"site", "is_healthy">>, C!SiteTags(b, x), v, r.ts) \in C!Told(r)
  BY <1>1, <1>2, Parts
<1> QED
  BY <1>3 DEF C!Sample

-----------------------------------------------------------------------------
(* A bench and a site are told from each other by their tags.                *)
LEMMA BenchTagsAre ==
  ASSUME NEW b
  PROVE  C!ToSet(C!BenchTags(b)) = {C!ServerTag, C!Plain("bench", b)}
<1>1. DOMAIN C!BenchTags(b) = {1, 2}
  BY DEF C!BenchTags
<1> QED
  BY <1>1 DEF C!BenchTags, C!ToSet

LEMMA SiteTagsAre ==
  ASSUME NEW b, NEW x
  PROVE  C!ToSet(C!SiteTags(b, x)) = {C!ServerTag, C!Plain("bench", b), C!Plain("site", x)}
<1>1. DOMAIN C!SiteTags(b, x) = {1, 2, 3}
  BY DEF C!SiteTags
<1> QED
  BY <1>1 DEF C!SiteTags, C!ToSet

LEMMA BenchOfBench ==
  ASSUME NEW s, NEW b, s.tags = C!BenchTags(b)
  PROVE  C!TagOf(s, "bench") = b
<1>1. \A t \in C!ToSet(s.tags) : t[1] = "bench" <=> t = C!Plain("bench", b)
  BY BenchTagsAre DEF C!ServerTag, C!Plain
<1>2. C!Plain("bench", b) \in C!ToSet(s.tags)
  BY BenchTagsAre
<1>3. (CHOOSE t \in C!ToSet(s.tags) : t[1] = "bench") = C!Plain("bench", b)
  BY <1>1, <1>2
<1>4. C!TagOf(s, "bench") = C!Plain("bench", b)[2]
  BY <1>3, Zenon DEF C!TagOf
<1> QED
  BY <1>4 DEF C!Plain

LEMMA SameBenchTags ==
  ASSUME NEW b, NEW c, C!Plain("bench", c) \in C!ToSet(C!BenchTags(b))
  PROVE  b = c
  BY BenchTagsAre DEF C!ServerTag, C!Plain

LEMMA SameSiteTags ==
  ASSUME NEW b, NEW x, NEW c, NEW y,
         {C!Plain("bench", c), C!Plain("site", y)} \subseteq C!ToSet(C!SiteTags(b, x))
  PROVE  b = c /\ x = y
  BY SiteTagsAre DEF C!ServerTag, C!Plain

-----------------------------------------------------------------------------
(***************************************************************************)
(* The database is the captures it took.                                   *)
(***************************************************************************)
(* The clock and the stamps are numbers.                                     *)
PullsOK ==
    /\ clock \in Int
    /\ pull = [p \in Pulls |-> pull[p]]
    /\ \A p \in Pulls : /\ pull[p].at = "ssh" => pull[p].ts \in Int
                        /\ pull[p].at = "push" => pull[p].read.ts \in Int

(* The database has what the captures it took leave, and nothing else;       *)
(* among the captures that have a bench there is a newest one.               *)
DbIsAccepted ==
    /\ db = UNION {C!Told(r) : r \in accepted}
    /\ \A r \in accepted : r.ts \in Int
    /\ \A b : C!Having(b) # {} => C!Newest(b) # {}

PayloadInv == PullsOK /\ DbIsAccepted

LEMMA PayloadInit == C!Init => PayloadInv
<1> SUFFICES ASSUME C!Init PROVE PayloadInv
  OBVIOUS
<1>1. PullsOK
  BY DEF C!Init, PullsOK, C!Idle
<1>2. DbIsAccepted
  BY DEF C!Init, DbIsAccepted, C!Having
<1> QED
  BY <1>1, <1>2 DEF PayloadInv

LEMMA AcceptedSame ==
  ASSUME DbIsAccepted, UNCHANGED <<db, accepted>>
  PROVE  DbIsAccepted'
  BY DEF DbIsAccepted, C!Having, C!Newest

(* One more capture is the newest of those that have the bench, or the one   *)
(* that was still is.                                                        *)
LEMMA NewestStays ==
  ASSUME NEW r, r.ts \in Int, \A o \in accepted : o.ts \in Int,
         accepted' = accepted \cup {r},
         NEW b, C!Having(b) # {} => C!Newest(b) # {}, C!Having(b)' # {}
  PROVE  C!Newest(b)' # {}
<1>1. CASE ~C!HasBench(r, b)
  <2>1. C!Having(b)' = C!Having(b)
    BY <1>1 DEF C!Having
  <2> QED
    BY <2>1 DEF C!Newest
<1>2. CASE C!HasBench(r, b) /\ C!Having(b) = {}
  <2>1. C!Having(b)' = {r}
    BY <1>2 DEF C!Having
  <2> QED
    BY <2>1 DEF C!Newest
<1>3. CASE C!HasBench(r, b) /\ C!Having(b) # {}
  <2>1. PICK n \in C!Having(b) : \A o \in C!Having(b) : o.ts <= n.ts
    BY <1>3 DEF C!Newest
  <2>2. C!Having(b)' = C!Having(b) \cup {r} /\ \A o \in C!Having(b) : o.ts \in Int
    BY <1>3 DEF C!Having
  <2>3. CASE n.ts <= r.ts
    <3>1. \A o \in C!Having(b)' : o.ts <= r.ts
      BY <2>1, <2>2, <2>3
    <3> QED
      BY <2>2, <3>1 DEF C!Newest
  <2>4. CASE r.ts <= n.ts
    <3>1. \A o \in C!Having(b)' : o.ts <= n.ts
      BY <2>1, <2>2, <2>4
    <3> QED
      BY <2>2, <3>1 DEF C!Newest
  <2> QED
    BY <2>1, <2>2, <2>3, <2>4
<1> QED
  BY <1>1, <1>2, <1>3

LEMMA PushAccepted ==
  ASSUME PayloadInv, C!PushedIsWhatWasRead, NEW p \in Pulls, C!Push(p)
  PROVE  DbIsAccepted'
<1> DEFINE r == pull[p].read
<1>1. C!Stored(pull[p].body) = C!Told(r) /\ r.ts \in Int
  BY DEF C!Push, C!PushedIsWhatWasRead, PayloadInv, PullsOK
<1>2. CASE UNCHANGED <<db, accepted>>
  BY <1>2, AcceptedSame DEF PayloadInv
<1>3. CASE db' = db \cup C!Stored(pull[p].body) /\ accepted' = accepted \cup {r}
  <2>1. db' = UNION {C!Told(o) : o \in accepted'}
    BY <1>1, <1>3 DEF PayloadInv, DbIsAccepted
  <2>2. \A o \in accepted' : o.ts \in Int
    BY <1>1, <1>3 DEF PayloadInv, DbIsAccepted
  <2>3. ASSUME NEW b, C!Having(b)' # {}
        PROVE  C!Newest(b)' # {}
    BY <1>1, <1>3, <2>3, NewestStays DEF PayloadInv, DbIsAccepted
  <2> QED
    BY <2>1, <2>2, <2>3 DEF DbIsAccepted
<1> QED
  BY <1>2, <1>3 DEF C!Push

LEMMA PayloadStep == PayloadInv /\ C!PushedIsWhatWasRead /\ [C!Next]_(C!vars) => PayloadInv'
<1> SUFFICES ASSUME PayloadInv, C!PushedIsWhatWasRead, [C!Next]_(C!vars)
             PROVE  PayloadInv'
  OBVIOUS
<1>1. CASE C!HostChanges
  <2>1. PullsOK'
    BY <1>1 DEF C!HostChanges, PayloadInv, PullsOK
  <2> QED
    BY <1>1, <2>1, AcceptedSame DEF C!HostChanges, PayloadInv
<1>2. CASE C!DeployStart \/ C!DeployEnd \/ UNCHANGED C!vars
  <2>1. UNCHANGED <<clock, pull, db, accepted>>
    BY <1>2 DEF C!DeployStart, C!DeployEnd, C!vars
  <2>2. PullsOK'
    BY <2>1 DEF PayloadInv, PullsOK
  <2> QED
    BY <2>1, <2>2, AcceptedSame DEF PayloadInv
<1>3. ASSUME NEW p \in Pulls, C!PullStart(p)
      PROVE  PayloadInv'
  <2>1. PullsOK'
    BY <1>3 DEF C!PullStart, PayloadInv, PullsOK
  <2> QED
    BY <1>3, <2>1, AcceptedSame DEF C!PullStart, PayloadInv
<1>4. ASSUME NEW p \in Pulls, C!Parsed(p)
      PROVE  PayloadInv'
  <2>1. PICK next : /\ pull' = [pull EXCEPT ![p] = next]
                    /\ next.at = "push" => next.read.ts = pull[p].ts
                    /\ next.at # "ssh"
    <3> DEFINE after(k, out) ==
                  IF C!Refused(out) THEN C!Idle
                  ELSE [at |-> "push",
                        read |-> [host |-> machine, ts |-> pull[p].ts, probed |-> 1..k],
                        body |-> C!Body(out)]
    <3>1. PICK k, out : pull' = [pull EXCEPT ![p] = after(k, out)]
      BY <1>4, Zenon DEF C!Parsed
    <3>2. /\ after(k, out).at = "push" => after(k, out).read.ts = pull[p].ts
          /\ after(k, out).at # "ssh"
      BY DEF C!Idle
    <3> HIDE DEF after
    <3> QED
      BY <3>1, <3>2
  <2>2. pull[p].ts \in Int /\ UNCHANGED <<clock, db, accepted>>
    BY <1>4 DEF C!Parsed, PayloadInv, PullsOK
  <2>3. PullsOK'
    BY <2>1, <2>2 DEF PayloadInv, PullsOK
  <2> QED
    BY <2>2, <2>3, AcceptedSame DEF PayloadInv
<1>5. ASSUME NEW p \in Pulls, C!RunFails(p)
      PROVE  PayloadInv'
  <2>1. PullsOK'
    BY <1>5 DEF C!RunFails, C!Idle, PayloadInv, PullsOK
  <2> QED
    BY <1>5, <2>1, AcceptedSame DEF C!RunFails, PayloadInv
<1>6. ASSUME NEW p \in Pulls, C!Push(p)
      PROVE  PayloadInv'
  <2>1. PullsOK'
    BY <1>6 DEF C!Push, C!Idle, PayloadInv, PullsOK
  <2> QED
    BY <1>6, <2>1, PushAccepted DEF PayloadInv
<1> QED
  BY <1>1, <1>2, <1>3, <1>4, <1>5, <1>6 DEF C!Next

-----------------------------------------------------------------------------
(***************************************************************************)
(* What the pages make of such a database.                                 *)
(***************************************************************************)
LEMMA AcceptedInDb ==
  ASSUME DbIsAccepted
  PROVE  /\ \A s \in db : \E r \in accepted : s \in C!Told(r)
         /\ \A r \in accepted : \A s \in C!Told(r) : s \in db
  BY DEF DbIsAccepted

LEMMA ListShows ==
  ASSUME DbIsAccepted
  PROVE  C!ListBenches = {b \in C!Known : C!Having(b) # {}}
<1>1. ASSUME NEW b \in C!ListBenches
      PROVE  b \in C!Known /\ C!Having(b) # {}
  <2>1. PICK s \in db : s.metric = <<"bench", "apps_count">> /\ b = C!TagOf(s, "bench")
    BY DEF C!ListBenches, C!QueryInstant
  <2>2. PICK r \in accepted : s \in C!Told(r)
    BY <2>1, AcceptedInDb
  <2>3. C!HasBench(r, b)
    BY <2>1, <2>2, CountsAre, BenchOfBench
  <2> QED
    BY <2>2, <2>3 DEF C!HasBench, C!InOrder, C!Known, C!Having
<1>2. ASSUME NEW b, C!Having(b) # {}
      PROVE  b \in C!ListBenches
  <2>1. PICK r \in C!Having(b) : \A o \in C!Having(b) : o.ts <= r.ts
    BY <1>2 DEF DbIsAccepted, C!Newest
  <2>2. r \in accepted /\ C!HasBench(r, b)
    BY DEF C!Having
  <2>3. PICK s \in C!Told(r) :
           s.metric = <<"bench", "apps_count">> /\ s.tags = C!BenchTags(b) /\ s.ts = r.ts
    BY <2>2, CountsMade
  <2>4. ASSUME NEW o \in db, o.metric = <<"bench", "apps_count">>, o.tags = s.tags
        PROVE  o.ts <= s.ts
    <3>1. PICK q \in accepted : o \in C!Told(q)
      BY AcceptedInDb
    <3>2. PICK c : C!HasBench(q, c) /\ o.tags = C!BenchTags(c) /\ o.ts = q.ts
      BY <2>4, <3>1, CountsAre
    <3>3. c = b
      BY <2>3, <2>4, <3>2 DEF C!BenchTags, C!Plain
    <3> QED
      BY <2>1, <2>3, <3>1, <3>2, <3>3 DEF C!Having
  <2>5. s \in C!QueryInstant(<<"bench", "apps_count">>, {})
    BY <2>2, <2>3, <2>4, AcceptedInDb DEF C!QueryInstant
  <2> QED
    BY <2>3, <2>5, BenchOfBench DEF C!ListBenches
<1> QED
  BY <1>1, <1>2

LEMMA BenchShows ==
  ASSUME DbIsAccepted, NEW b, NEW s \in C!GetBench(b).fields["supervisor_total"]
  PROVE  \E r \in C!Newest(b) : s.value = r.host.v /\ s.ts = r.ts
<1> DEFINE tags == {<<"server", ServerName>>, <<"bench", b>>}
<1>1. s \in C!QueryInstant(<<"bench", "supervisor_total">>, tags)
  BY DEF C!GetBench
<1>2. /\ s \in db /\ s.metric = <<"bench", "supervisor_total">>
      /\ C!Plain("bench", b) \in C!ToSet(s.tags)
      /\ \A o \in db : /\ o.metric = <<"bench", "supervisor_total">>
                       /\ tags \subseteq C!ToSet(o.tags)
                       /\ o.tags = s.tags
                       => o.ts <= s.ts
      /\ tags \subseteq C!ToSet(s.tags)
  BY <1>1 DEF C!QueryInstant, C!Plain
<1>3. PICK r \in accepted : s \in C!Told(r)
  BY <1>2, AcceptedInDb
<1>4. C!HasBench(r, b) /\ s.tags = C!BenchTags(b) /\ s.ts = r.ts /\ s.value = r.host.v
  BY <1>2, <1>3, CountsAre, SameBenchTags
<1>5. ASSUME NEW o \in C!Having(b)
      PROVE  o.ts <= r.ts
  <2>1. o \in accepted /\ C!HasBench(o, b)
    BY DEF C!Having
  <2>2. PICK n \in C!Told(o) :
           n.metric = <<"bench", "supervisor_total">> /\ n.tags = C!BenchTags(b) /\ n.ts = o.ts
    BY <2>1, CountsMade
  <2>3. n \in db
    BY <2>1, <2>2, AcceptedInDb
  <2> QED
    BY <1>2, <1>4, <2>2, <2>3
<1> QED
  BY <1>3, <1>4, <1>5 DEF C!Newest, C!Having

LEMMA SiteShows ==
  ASSUME DbIsAccepted, NEW b, NEW x, NEW s \in C!GetSite(b, x)["is_healthy"],
         NEW r \in accepted, C!HasSite(r, b, x)
  PROVE  r.ts <= s.ts
<1> DEFINE tags == {<<"server", ServerName>>, <<"bench", b>>, <<"site", x>>}
<1>1. s \in C!QueryInstant(<<"site", "is_healthy">>, tags)
  BY DEF C!GetSite
<1>2. /\ s \in db /\ s.metric = <<"site", "is_healthy">>
      /\ {C!Plain("bench", b), C!Plain("site", x)} \subseteq C!ToSet(s.tags)
      /\ \A o \in db : /\ o.metric = <<"site", "is_healthy">>
                       /\ tags \subseteq C!ToSet(o.tags)
                       /\ o.tags = s.tags
                       => o.ts <= s.ts
      /\ tags \subseteq C!ToSet(s.tags)
  BY <1>1 DEF C!QueryInstant, C!Plain
<1>3. PICK q \in accepted : s \in C!Told(q)
  BY <1>2, AcceptedInDb
<1>4. s.tags = C!SiteTags(b, x)
  BY <1>2, <1>3, HealthIs, SameSiteTags
<1>5. PICK n \in C!Told(r) :
         n.metric = <<"site", "is_healthy">> /\ n.tags = C!SiteTags(b, x) /\ n.ts = r.ts
  BY HealthMade
<1>6. n \in db
  BY <1>5, AcceptedInDb
<1> QED
  BY <1>2, <1>4, <1>5, <1>6

LEMMA PayloadShows == DbIsAccepted => C!PagesShowTheNewest
  BY ListShows, BenchShows, SiteShows DEF C!PagesShowTheNewest

(* If what is pushed is what was read, the pages of the hierarchy            *)
(* (internal/api/hierarchy_handlers.go) show the newest capture that         *)
(* VictoriaMetrics took, for any hosts, any number of overlapping pulls in   *)
(* any order, pushes that fail, and pushes that fail after they were taken.  *)
(* The hypothesis is the property of the text that TLC checks: it depends on *)
(* folds over the lines of an output, which no proof here can follow.        *)
THEOREM PagesShowTheNewestAlways ==
  C!Spec /\ []C!PushedIsWhatWasRead => []C!PagesShowTheNewest
<1>1. PayloadInv => C!PagesShowTheNewest
  BY PayloadShows DEF PayloadInv
<1> QED
  BY PayloadInit, PayloadStep, <1>1, PTL DEF C!Spec
=============================================================================
