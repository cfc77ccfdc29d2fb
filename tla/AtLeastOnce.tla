------------------------------ MODULE AtLeastOnce ------------------------------
(***************************************************************************)
(* What the streamer promises of one tailed file, whatever its sessions,     *)
(* buffers, flushes and cursor rows do: every line from the first attach on  *)
(* is held by the monitor or stored in Loki once a tail has passed it, and a *)
(* restart, which loses what is held, finds a place to resume behind which   *)
(* everything is stored.  LogDelivery implements it.                         *)
(***************************************************************************)
EXTENDS Integers

VARIABLES
  written,    (* Lines in the file, numbered from 1.                          *)
  origin,     (* The first attach; lines up to it are not asked for.  -1: none *)
  pos,        (* Lines the open tail has passed; 0 while there is none.       *)
  held,       (* Lines received and not yet given up.                         *)
  stored,     (* Lines Loki has.                                              *)
  resume      (* Where a restart would resume.                                *)

vars == <<written, origin, pos, held, stored, resume>>

Init ==
  /\ written \in Nat
  /\ origin = -1 /\ pos = 0 /\ resume = 0
  /\ held = {} /\ stored = {}

(* Every line asked for among the first n is in S.                            *)
Within(n, S) == \A i \in 1 .. n : i > origin => i \in S

Grow ==
  /\ written' = written + 1
  /\ UNCHANGED <<origin, pos, held, stored, resume>>

(* A tail opens, the first one anywhere, a later one where it misses nothing. *)
Attach ==
  /\ pos' \in 0 .. written
  /\ IF origin = -1 THEN origin' = pos'
     ELSE Within(pos', stored \cup held) /\ UNCHANGED origin
  /\ UNCHANGED <<written, held, stored, resume>>

Receive ==
  /\ origin # -1 /\ pos < written
  /\ pos' = pos + 1
  /\ held' = held \cup {pos + 1}
  /\ UNCHANGED <<written, origin, stored, resume>>

Detach ==
  /\ pos' = 0
  /\ UNCHANGED <<written, origin, held, stored, resume>>

Store ==
  /\ \E S \in SUBSET held : stored' = stored \cup S
  /\ UNCHANGED <<written, origin, pos, held, resume>>

(* Only what Loki has is given up.                                            *)
Forget ==
  /\ held' \subseteq held /\ held \ held' \subseteq stored
  /\ UNCHANGED <<written, origin, pos, stored, resume>>

Acknowledge ==
  /\ origin # -1
  /\ resume' \in 0 .. written /\ Within(resume', stored)
  /\ UNCHANGED <<written, origin, pos, held, stored>>

(* The process dies; what it was sending may have arrived.                    *)
Restart ==
  /\ pos' = 0 /\ held' = {}
  /\ \E S \in SUBSET held : stored' = stored \cup S
  /\ UNCHANGED <<written, origin, resume>>

Next == \/ Grow \/ Attach \/ Receive \/ Detach \/ Store \/ Forget
        \/ Acknowledge \/ Restart

Spec == Init /\ [][Next]_vars

-----------------------------------------------------------------------------
Numbers ==
  /\ written \in Nat /\ origin \in Int
  /\ pos \in 0 .. written /\ resume \in 0 .. written
  /\ origin = -1 => pos = 0 /\ resume = 0

(* No line asked for is lost: the tail has left none behind, and a restart at *)
(* the cursor (manager.go launchOne) will leave none behind.                  *)
NoLineIsLost ==
  /\ Within(pos, stored \cup held)
  /\ Within(resume, stored)

Inv == Numbers /\ NoLineIsLost
=============================================================================
