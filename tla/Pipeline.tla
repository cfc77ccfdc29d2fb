------------------------------ MODULE Pipeline ------------------------------
(***************************************************************************)
(* The pull of internal/collector/pipeline.go (PullOnce) as the job of the *)
(* scheduler, and the "test connection" request of                         *)
(* internal/api/handlers.go, which probes the same hosts and writes the    *)
(* same status column from another goroutine.                              *)
(*                                                                         *)
(* A host is "up" (it answers and its output parses), "failing" (it        *)
(* refuses, cannot be dialled, ends the collector with an error or prints  *)
(* what does not parse), "wedged" (it takes the collector and holds it     *)
(* longer than the job may last) or "mute" (the connection stands, but the *)
(* SSH handshake or the opening of a session gets no answer).  The context *)
(* of a job starts before the command's own timer and with the defaults of *)
(* internal/config both last 30 seconds, so a wedged host is cut by the    *)
(* context; a deployment whose command_timeout_seconds is the shorter one  *)
(* sees a failing host instead.  Nothing bounds the wait for a mute host:  *)
(* getOrDial ignores its context, DialTimeout covers the TCP connection    *)
(* only, and NewSession takes neither.                                     *)
(***************************************************************************)
EXTENDS Scheduler

CONSTANT
    MaxFaults,     \* host changes, slow jobs, store errors and aborts in one behaviour
    MaxTests       \* "test connection" requests in one behaviour

ASSUME PipelineAssumption ==
    /\ MaxFaults \in Nat
    /\ MaxTests \in Nat
    /\ JobSteps = {"lookup", "dial", "ssh", "failed", "push", "report"}
    /\ FirstStep = "lookup"

VARIABLES
    host,      \* server -> what the machine does now
    status,    \* server -> the status column of its row
    test,      \* the "test connection" request: where it is, which server
    aborted,   \* its client has gone away
    tests,     \* such requests so far
    faults     \* faults so far

vars == <<at, server, expired, stop, host, status, test, aborted, tests, faults>>

HostStates == {"up", "failing", "wedged", "mute"}
Statuses   == {"unknown", "reachable", "unreachable"}
TestSteps  == {"idle", "ping", "failed", "ok"}
NoTest     == [at |-> "idle", server |-> NoServer]

Init ==
    /\ SchedInit
    /\ host \in [Servers -> HostStates]
    /\ status = [s \in Servers |-> "unknown"]
    /\ test = NoTest
    /\ aborted = FALSE
    /\ tests = 0
    /\ faults = 0

\* One of the bounded number of things that go wrong.
Fault == faults < MaxFaults /\ faults' = faults + 1

\* store.SetServerStatus: a store call whose context is done fails.
SetServerStatus(s, value) == status' = [status EXCEPT ![s] = value]

-----------------------------------------------------------------------------
\* PullOnce, store.GetServer: with the context done nothing is written.
GetServer(r) ==
    /\ at[r] = "lookup"
    /\ IF CtxDone(r) THEN Return(r) ELSE Goto(r, "dial")
    /\ UNCHANGED <<host, status, test, aborted, tests, faults>>

\* The store fails although the context is not done.
GetServerFails(r) ==
    /\ at[r] = "lookup"
    /\ Fault
    /\ Return(r)
    /\ UNCHANGED <<host, status, test, aborted, tests>>

\* Exec.Run: getOrDial and NewSession end, whatever has become of the context;
\* a host that cannot be dialled fails the next step.
SshOpens(r) ==
    /\ at[r] = "dial"
    /\ host[server[r]] # "mute"
    /\ Goto(r, "ssh")
    /\ UNCHANGED <<host, status, test, aborted, tests, faults>>

\* The command and the parsing of its output end.
SshAnswers(r) ==
    /\ at[r] = "ssh"
    /\ host[server[r]] \in {"up", "failing"}
    /\ Goto(r, IF host[server[r]] = "up" THEN "push" ELSE "failed")
    /\ UNCHANGED <<host, status, test, aborted, tests, faults>>

\* The select of Exec.Run returns ctx.Err().
SshCut(r) ==
    /\ at[r] = "ssh"
    /\ CtxDone(r)
    /\ Goto(r, "failed")
    /\ UNCHANGED <<host, status, test, aborted, tests, faults>>

MutantMarkUnreachable(r) ==   \* returns the error without marking the server
    /\ at[r] = "failed"
    /\ UNCHANGED status
    /\ Return(r)
    /\ UNCHANGED <<host, test, aborted, tests, faults>>

\* markUnreachable, with the context of the job; its error is dropped.
MarkUnreachable(r) ==
    /\ at[r] = "failed"
    /\ IF CtxDone(r) THEN UNCHANGED status
                     ELSE SetServerStatus(server[r], "unreachable")
    /\ Return(r)
    /\ UNCHANGED <<host, test, aborted, tests, faults>>

\* Push.Push to VictoriaMetrics succeeds.
PushOk(r) ==
    /\ at[r] = "push"
    /\ ~CtxDone(r)
    /\ Goto(r, "report")
    /\ UNCHANGED <<host, status, test, aborted, tests, faults>>

MutantPushFails(r) ==   \* a failed push returns before the status is set
    /\ at[r] = "push"
    /\ Return(r)
    /\ UNCHANGED <<host, status, test, aborted, tests, faults>>

\* It fails, as often as it likes: the status is set all the same.
PushFails(r) ==
    /\ at[r] = "push"
    /\ Goto(r, "report")
    /\ UNCHANGED <<host, status, test, aborted, tests, faults>>

\* store.SetServerStatus(reachable), with the context of the job.
MarkReachable(r) ==
    /\ at[r] = "report"
    /\ IF CtxDone(r) THEN UNCHANGED status
                     ELSE SetServerStatus(server[r], "reachable")
    /\ Return(r)
    /\ UNCHANGED <<host, test, aborted, tests, faults>>

\* Either of the two status writes fails although the context is not done.
StatusFails(r) ==
    /\ at[r] \in {"failed", "report"}
    /\ Fault
    /\ Return(r)
    /\ UNCHANGED <<host, status, test, aborted, tests>>

\* Where a host keeps a pull from going on.
HeldUp(r) ==
    \/ at[r] \in {"dial", "ssh"} /\ host[server[r]] = "mute"
    \/ at[r] = "ssh" /\ host[server[r]] = "wedged"

MutantJobTimesOut(r) ==   \* WithCancel where WithTimeout was meant
    /\ HeldUp(r)
    /\ stop # "no"
    /\ Timeout(r)
    /\ UNCHANGED <<host, status, test, aborted, tests, faults>>

\* The job's timeout passes while the host holds it up.
JobTimesOut(r) ==
    /\ HeldUp(r)
    /\ Timeout(r)
    /\ UNCHANGED <<host, status, test, aborted, tests, faults>>

\* It passes somewhere else: a slow dial, a slow store, a slow push.
SlowJob(r) ==
    /\ Fault
    /\ Timeout(r)
    /\ UNCHANGED <<host, status, test, aborted, tests>>

-----------------------------------------------------------------------------
\* testConnection: store.GetServer, then sshpkg.Ping.
TestStart(s) ==
    /\ test.at = "idle" /\ tests < MaxTests /\ stop = "no"
    /\ test' = [at |-> "ping", server |-> s]
    /\ tests' = tests + 1
    /\ UNCHANGED <<schedVars, host, status, aborted, faults>>

\* r.Context(): the client has gone, or main has received its signal, which
\* is before sched.Stop is called.
TestCtxDone == aborted \/ stop # "no"

\* Ping runs "echo ok", not the collector: a host that fails a pull or holds it
\* may answer the test all the same, or fail it as well.  It has the command's
\* own timeout only; a mute host may keep it for ever and never answers.
TestPing ==
    /\ test.at = "ping"
    /\ \E reached \in BOOLEAN :
        /\ reached => host[test.server] # "mute"
        /\ ~reached => host[test.server] # "up" \/ TestCtxDone
        /\ test' = [test EXCEPT !.at = IF reached THEN "ok" ELSE "failed"]
    /\ UNCHANGED <<schedVars, host, status, aborted, tests, faults>>

TestReport ==
    /\ test.at \in {"ok", "failed"}
    /\ IF TestCtxDone
       THEN UNCHANGED status
       ELSE SetServerStatus(test.server,
                IF test.at = "ok" THEN "reachable" ELSE "unreachable")
    /\ test' = NoTest
    /\ aborted' = FALSE
    /\ UNCHANGED <<schedVars, host, tests, faults>>

TestAborted ==
    /\ test.at # "idle" /\ ~aborted
    /\ Fault
    /\ aborted' = TRUE
    /\ UNCHANGED <<schedVars, host, status, test, tests>>

\* The machine behind a server changes.
HostChanges(s) ==
    /\ Fault
    /\ \E h \in HostStates \ {host[s]} : host' = [host EXCEPT ![s] = h]
    /\ UNCHANGED <<schedVars, status, test, aborted, tests>>

-----------------------------------------------------------------------------
outside == <<host, status, test, aborted, tests, faults>>

Pull(r) ==
    \/ GetServer(r) \/ SshOpens(r) \/ SshAnswers(r) \/ SshCut(r) \/ MarkUnreachable(r)
    \/ PushOk(r) \/ PushFails(r) \/ MarkReachable(r)

Stopping == StopCron \/ StopDrained \/ StopReturns \/ StopExpires

Next ==
    \/ \E s \in Servers : Fire(s) /\ UNCHANGED outside
    \/ \E r \in Runs :
        \/ Enter(r) /\ UNCHANGED outside
        \/ Acquire(r) /\ UNCHANGED outside
        \/ Bail(r) /\ UNCHANGED outside
    \/ \E r \in Runs :
        \/ Pull(r)
        \/ GetServerFails(r) \/ StatusFails(r)
        \/ JobTimesOut(r) \/ SlowJob(r)
    \/ StopCancel /\ UNCHANGED outside
    \/ Stopping /\ UNCHANGED outside
    \/ \E s \in Servers : TestStart(s) \/ HostChanges(s)
    \/ TestPing \/ TestReport \/ TestAborted

(* cron fires every entry at every interval (the strong form because Runs  *)
(* is a bound of the model); goroutines waiting to send on the semaphore   *)
(* are served in their order of arrival, which a slot freed again and      *)
(* again makes strong fairness; code, timers and Stop's caller go on.      *)
(* Nothing makes the operator stop the process or test a connection, nor   *)
(* such a test come to an end.                                             *)
Fairness ==
    /\ \A s \in Servers : SF_vars(Fire(s) /\ UNCHANGED outside)
    /\ \A r \in Runs :
        /\ WF_vars(Enter(r) /\ UNCHANGED outside)
        /\ SF_vars(Acquire(r) /\ UNCHANGED outside)
        /\ WF_vars(Bail(r) /\ UNCHANGED outside)
        /\ WF_vars(Pull(r))
        /\ WF_vars(JobTimesOut(r))
    /\ WF_vars(Stopping /\ UNCHANGED outside)

Spec == Init /\ [][Next]_vars /\ Fairness

-----------------------------------------------------------------------------
(* Every variable has its type, no timeout outlives its job, and never more *)
(* than maxParallel jobs hold a slot (scheduler.go New and runOnce).       *)
TypeOK ==
    /\ at \in [Runs -> JobSteps \cup {"idle", "fired", "gate"}]
    /\ server \in [Runs -> Servers \cup {NoServer}]
    /\ \A r \in Runs : at[r] = "idle" <=> server[r] = NoServer
    /\ expired \subseteq Holders
    /\ Cardinality(Holders) <= MaxParallel
    /\ stop \in StopStates
    /\ host \in [Servers -> HostStates]
    /\ status \in [Servers -> Statuses]
    /\ test \in [at : TestSteps, server : Servers \cup {NoServer}]
    /\ aborted \in BOOLEAN
    /\ tests \in 0..MaxTests
    /\ faults \in 0..MaxFaults

(* When scheduler.Stop has returned nil no goroutine of the scheduler is    *)
(* left, not even one that cron had started and that had not reached        *)
(* wg.Add(1): main closes the store and the SSH pool after it.              *)
StoppedIsDrained == stop = "nil" => InCron = {}

(* A goroutine that cron has started ends, although the one before it may   *)
(* be with a host that holds its command for good: such a host has a slot   *)
(* of the semaphore only until the timeout of runOnce's context.  A host    *)
(* that stays mute is the exception: its job ends with the connection only. *)
FiredJobsEnd ==
    (\A s \in Servers : []<>(host[s] # "mute")) =>
        \A r \in Runs : (at[r] = "fired") ~> (at[r] = "idle")

(* PullOnce and testConnection write the same column from overlapping       *)
(* goroutines, so an old failure may overwrite a fresh success; but a host  *)
(* that is up for good is reported reachable for good in the end, though    *)
(* every push to VictoriaMetrics may fail.                                  *)
UpIsReported ==
    \A s \in Servers :
        <>[](host[s] = "up" /\ stop = "no") => <>[](status[s] = "reachable")

(* A host that fails its pulls for good is reported unreachable for good,   *)
(* although a test it answers, or a late success of an overlapping pull,    *)
(* still writes reachable: the next pull corrects it.  That is so once      *)
(* nobody tests the connection any more, as MaxTests has it: each test that *)
(* such a host answers reports it reachable again until the next pull.      *)
DownIsReported ==
    \A s \in Servers :
        <>[](host[s] = "failing" /\ stop = "no") => <>[](status[s] = "unreachable")
=============================================================================
