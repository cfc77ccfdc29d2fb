-------------------------------- MODULE SshPool --------------------------------
(***************************************************************************)
(* The pool of SSH connections (internal/ssh/pool.go), for one target: the   *)
(* keys of the conn map do not interact.  A call (Run, RunWithInput or        *)
(* Stream) takes the stored client or dials one, opens a session on it, and  *)
(* if that fails drops the stored client and tries once more.  Pool.mu is    *)
(* held for the three map accesses only; dialling and opening the session    *)
(* run unlocked, so another call may change the map in between.              *)
(***************************************************************************)
EXTENDS Integers, FiniteSets

CONSTANTS
  Callers,    (* Goroutines that use the target: pulls, the log stream, the API. *)
  MaxDials    (* Bound of the model: connections established.                  *)

ASSUME PoolAssumption == MaxDials \in Nat \ {0}

None == 0
Clients == 1 .. MaxDials

VARIABLES
  stored,     (* p.conn[k]: the client in the map, or None.                     *)
  state,      (* Each client: not yet dialled, open, its link broken, closed.   *)
  pc,         (* Where each call is.                                            *)
  held,       (* The client the call works with.                                *)
  retried,    (* The call is in its second attempt.                             *)
  closing     (* Pool.Close has run: the monitor is shutting down.              *)

vars == <<stored, state, pc, held, retried, closing>>

TypeOK ==
  /\ stored \in Clients \cup {None}
  /\ state \in [Clients -> {"unused", "open", "broken", "closed"}]
  /\ pc \in [Callers -> {"idle", "lookup", "dial", "store", "session", "drop", "running"}]
  /\ held \in [Callers -> Clients \cup {None}]
  /\ retried \in [Callers -> BOOLEAN]
  /\ closing \in BOOLEAN
  /\ \A p \in Callers : pc[p] \in {"store", "session", "drop", "running"} =>
       held[p] # None /\ state[held[p]] # "unused"

Init ==
  /\ stored = None
  /\ state = [c \in Clients |-> "unused"]
  /\ pc = [p \in Callers |-> "idle"]
  /\ held = [p \in Callers |-> None]
  /\ retried = [p \in Callers |-> FALSE]
  /\ closing = FALSE

-----------------------------------------------------------------------------
Call(p) ==
  /\ pc[p] = "idle"
  /\ pc' = [pc EXCEPT ![p] = "lookup"]
  /\ retried' = [retried EXCEPT ![p] = FALSE]
  /\ UNCHANGED <<stored, state, held, closing>>

(* The call returns, with its output or with an error.                       *)
Return(p) ==
  /\ pc' = [pc EXCEPT ![p] = "idle"]
  /\ held' = [held EXCEPT ![p] = None]
  /\ UNCHANGED <<stored, state, retried, closing>>

(* The operators named Mutant are changes a plausible bug would make to the   *)
(* definition after them; no specification uses them.                        *)
MutantLookup(p) ==
  /\ pc[p] = "lookup"
  /\ pc' = [pc EXCEPT ![p] = "session"]
  /\ held' = [held EXCEPT ![p] = stored]
  /\ UNCHANGED <<stored, state, retried, closing>>

(* getOrDial: a stored client is used as it is, whatever became of its link.  *)
Lookup(p) ==
  /\ pc[p] = "lookup"
  /\ pc' = [pc EXCEPT ![p] = IF stored # None THEN "session" ELSE "dial"]
  /\ held' = [held EXCEPT ![p] = stored]
  /\ UNCHANGED <<stored, state, retried, closing>>

DialOk(p) ==
  /\ pc[p] = "dial"
  /\ \E c \in Clients :
       /\ state[c] = "unused"
       /\ \A d \in Clients : d < c => state[d] # "unused"
       /\ state' = [state EXCEPT ![c] = "open"]
       /\ held' = [held EXCEPT ![p] = c]
  /\ pc' = [pc EXCEPT ![p] = "store"]
  /\ UNCHANGED <<stored, retried, closing>>

DialFails(p) ==
  /\ pc[p] = "dial"
  /\ Return(p)

MutantStore(p) ==
  /\ pc[p] = "store"
  /\ stored' = held[p]
  /\ pc' = [pc EXCEPT ![p] = "session"]
  /\ UNCHANGED <<state, held, retried, closing>>

(* The second locked section of getOrDial: prefer what a faster call stored.  *)
Store(p) ==
  /\ pc[p] = "store"
  /\ IF stored # None
     THEN /\ state' = [state EXCEPT ![held[p]] = "closed"]
          /\ held' = [held EXCEPT ![p] = stored]
          /\ UNCHANGED stored
     ELSE /\ stored' = held[p]
          /\ UNCHANGED <<state, held>>
  /\ pc' = [pc EXCEPT ![p] = "session"]
  /\ UNCHANGED <<retried, closing>>

SessionOpens(p) ==
  /\ pc[p] = "session"
  /\ state[held[p]] = "open"
  /\ pc' = [pc EXCEPT ![p] = "running"]
  /\ UNCHANGED <<stored, state, held, retried, closing>>

MutantSessionFails(p) ==
  /\ pc[p] = "session"
  /\ state[held[p]] # "open"
  /\ Return(p)

(* NewSession fails: the client is gone, or the remote refuses one more       *)
(* channel.  The first time, drop and retry; the second time, give up.        *)
SessionFails(p) ==
  /\ pc[p] = "session"
  /\ IF retried[p]
     THEN Return(p)
     ELSE /\ pc' = [pc EXCEPT ![p] = "drop"]
          /\ retried' = [retried EXCEPT ![p] = TRUE]
          /\ UNCHANGED <<stored, state, held, closing>>

MutantDropKeeps(p) ==
  /\ pc[p] = "drop"
  /\ state' = IF stored # None THEN [state EXCEPT ![stored] = "closed"] ELSE state
  /\ pc' = [pc EXCEPT ![p] = "lookup"]
  /\ UNCHANGED <<stored, held, retried, closing>>

(* dropClient closes and removes whatever the map holds by now.              *)
Drop(p) ==
  /\ pc[p] = "drop"
  /\ state' = IF stored # None THEN [state EXCEPT ![stored] = "closed"] ELSE state
  /\ stored' = None
  /\ pc' = [pc EXCEPT ![p] = "lookup"]
  /\ UNCHANGED <<held, retried, closing>>

(* The remote command ends, times out, is cancelled, or its client dies.     *)
SessionEnds(p) ==
  /\ pc[p] = "running"
  /\ Return(p)

(* The network or the remote sshd takes a connection down.                   *)
LinkBreaks(c) ==
  /\ state[c] = "open"
  /\ state' = [state EXCEPT ![c] = "broken"]
  /\ UNCHANGED <<stored, pc, held, retried, closing>>

MutantClose ==
  /\ ~ closing
  /\ closing' = TRUE
  /\ state' = IF stored # None THEN [state EXCEPT ![stored] = "closed"] ELSE state
  /\ UNCHANGED <<stored, pc, held, retried>>

(* Pool.Close, at the end of run: calls still under way may dial afterwards.  *)
Close ==
  /\ ~ closing
  /\ closing' = TRUE
  /\ state' = IF stored # None THEN [state EXCEPT ![stored] = "closed"] ELSE state
  /\ stored' = None
  /\ UNCHANGED <<pc, held, retried>>

Next ==
  \/ \E p \in Callers :
       \/ Call(p) \/ Lookup(p) \/ DialOk(p) \/ DialFails(p) \/ Store(p)
       \/ SessionOpens(p) \/ SessionFails(p) \/ Drop(p) \/ SessionEnds(p)
  \/ \E c \in Clients : LinkBreaks(c)
  \/ Close

Spec == Init /\ [][Next]_vars

(* The scheduler and the session loop call again and again.  Dialling and     *)
(* opening a session return: the dial has a timeout, a dead link is noticed.   *)
(* A running command needs no fairness: a stream may last for ever.           *)
Proceeds(p) ==
  \/ Call(p) \/ Lookup(p) \/ DialOk(p) \/ DialFails(p) \/ Store(p)
  \/ SessionOpens(p) \/ SessionFails(p) \/ Drop(p)

FairSpec == Spec /\ \A p \in Callers : WF_vars(Proceeds(p))

-----------------------------------------------------------------------------
(* No connection leaks: a client not closed yet is the one in the map, or a    *)
(* call that just dialled it is about to store it or close it.                *)
NoLeak ==
  \A c \in Clients : state[c] \in {"open", "broken"} =>
    \/ c = stored
    \/ \E p \in Callers : pc[p] = "store" /\ held[p] = c

(* A retry never goes back to the connection the first attempt gave up.       *)
RetryMovesOn ==
  [][\A p \in Callers : retried[p] /\ pc[p] = "lookup" /\ pc'[p] = "session" =>
       held'[p] # held[p]]_vars

(* The map never serves a connection this process has closed.                 *)
StoredIsNotClosed == stored # None => state[stored] \in {"open", "broken"}

(* A dead connection does not stay in the map: some call finds it and drops   *)
(* it, unless every caller is busy in a command.                              *)
BrokenIsDropped ==
  \A c \in Clients :
    (stored = c /\ state[c] = "broken") ~>
      (stored # c \/ \A p \in Callers : pc[p] = "running")

=============================================================================
