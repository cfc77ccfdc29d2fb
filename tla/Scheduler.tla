----------------------------- MODULE Scheduler -----------------------------
(***************************************************************************)
(* The job scheduler of internal/scheduler/scheduler.go on top of          *)
(* robfig/cron: a fired entry becomes a goroutine, the goroutine joins the *)
(* wait group, takes a slot of the semaphore and runs its job under a      *)
(* context that ends with the job's timeout or with the scheduler.  Stop   *)
(* cancels that context, stops cron and waits for the goroutines.          *)
(*                                                                         *)
(* What the job does between Acquire and its return is the business of the *)
(* module that extends this one: JobSteps names the places it can be at.   *)
(***************************************************************************)
EXTENDS Naturals, FiniteSets

CONSTANTS
    Servers,       \* the keys of the registered entries, one per server
    Runs,          \* goroutines that may exist at one time (a bound: cron has none)
    MaxParallel,   \* scheduler.max_parallel, the capacity of the semaphore
    JobSteps,      \* where a running job can be
    FirstStep,     \* the one it starts at
    NoServer       \* what an idle goroutine pulls

ASSUME SchedulerAssumption ==
    /\ IsFiniteSet(Runs)
    /\ MaxParallel \in Nat \ {0}
    /\ FirstStep \in JobSteps
    /\ JobSteps \cap {"idle", "fired", "gate"} = {}
    /\ NoServer \notin Servers

VARIABLES
    at,        \* run -> "idle", "fired" (spawned by cron, not yet in runOnce),
               \*        "gate" (before the semaphore), or a step of its job
    server,    \* run -> the server its job pulls
    expired,   \* runs whose own timeout has passed
    stop       \* where Stop is: "no", "cancelled", "waiting", "drained",
               \* "nil" and "expired" once it has returned

schedVars == <<at, server, expired, stop>>

StopStates == {"no", "cancelled", "waiting", "drained", "nil", "expired"}

\* The goroutines that hold a slot of the semaphore.
Holders == {r \in Runs : at[r] \in JobSteps}

\* The goroutines s.wg counts, and the ones cron's own jobWaiter counts.
InWaitGroup == {r \in Runs : at[r] \notin {"idle", "fired"}}
InCron      == {r \in Runs : at[r] # "idle"}

\* ctx.Err() # nil for the job of run r.
CtxDone(r) == r \in expired \/ stop # "no"

SchedInit ==
    /\ at = [r \in Runs |-> "idle"]
    /\ server = [r \in Runs |-> NoServer]
    /\ expired = {}
    /\ stop = "no"

-----------------------------------------------------------------------------
\* cron's loop starts the entry of server s in a goroutine of its own, whether
\* or not an earlier one is still running.
Fire(s) ==
    /\ stop \in {"no", "cancelled"}
    /\ \E r \in Runs :
        /\ at[r] = "idle"
        /\ at' = [at EXCEPT ![r] = "fired"]
        /\ server' = [server EXCEPT ![r] = s]
    /\ UNCHANGED <<expired, stop>>

\* runOnce begins: s.wg.Add(1).
Enter(r) ==
    /\ at[r] = "fired"
    /\ at' = [at EXCEPT ![r] = "gate"]
    /\ UNCHANGED <<server, expired, stop>>

MutantAcquire(r) ==   \* the semaphore is one larger than configured
    /\ at[r] = "gate"
    /\ Cardinality(Holders) <= MaxParallel
    /\ at' = [at EXCEPT ![r] = FirstStep]
    /\ UNCHANGED <<server, expired, stop>>

\* A slot of the semaphore is free: the job starts with a context of its own.
\* The select may take this branch when the scheduler is stopping, too.
Acquire(r) ==
    /\ at[r] = "gate"
    /\ Cardinality(Holders) < MaxParallel
    /\ at' = [at EXCEPT ![r] = FirstStep]
    /\ UNCHANGED <<server, expired, stop>>

\* The job goes on to its next step, or returns: the deferred calls give the
\* slot back and leave the wait group.
Goto(r, step) ==
    /\ at' = [at EXCEPT ![r] = step]
    /\ UNCHANGED <<server, expired, stop>>

Return(r) ==
    /\ at' = [at EXCEPT ![r] = "idle"]
    /\ server' = [server EXCEPT ![r] = NoServer]
    /\ expired' = expired \ {r}
    /\ UNCHANGED stop

\* The other branch of the select: parentCtx is done.
Bail(r) ==
    /\ at[r] = "gate"
    /\ stop # "no"
    /\ Return(r)

\* The timeout of the job's context passes.
Timeout(r) ==
    /\ r \in Holders \ expired
    /\ expired' = expired \cup {r}
    /\ UNCHANGED <<at, server, stop>>

-----------------------------------------------------------------------------
\* Stop: s.parentCancel(), then s.cron.Stop(), after which nothing is fired.
StopCancel ==
    /\ stop = "no"
    /\ stop' = "cancelled"
    /\ UNCHANGED <<at, server, expired>>

StopCron ==
    /\ stop = "cancelled"
    /\ stop' = "waiting"
    /\ UNCHANGED <<at, server, expired>>

MutantStopDrained ==   \* returns nil without <-cronCtx.Done()
    /\ stop = "waiting"
    /\ InWaitGroup = {}
    /\ stop' = "nil"
    /\ UNCHANGED <<at, server, expired>>

\* <-done: s.wg.Wait() has returned.
StopDrained ==
    /\ stop = "waiting"
    /\ InWaitGroup = {}
    /\ stop' = "drained"
    /\ UNCHANGED <<at, server, expired>>

\* <-cronCtx.Done(): the goroutines cron has started are gone as well.
StopReturns ==
    /\ stop = "drained"
    /\ InCron = {}
    /\ stop' = "nil"
    /\ UNCHANGED <<at, server, expired>>

\* <-ctx.Done(): the ten seconds main gives the shutdown are over.
StopExpires ==
    /\ stop = "waiting"
    /\ stop' = "expired"
    /\ UNCHANGED <<at, server, expired>>
=============================================================================
