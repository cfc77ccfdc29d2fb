-------------------------------- MODULE Paging --------------------------------
(***************************************************************************)
(* What the alerting promises an operator, whatever its ticks, rules, rows,  *)
(* failures and restarts do: a new alert is paged at once, a known one again *)
(* only when the repeat interval has passed since the last attempt, a        *)
(* resolution is announced for a known alert only, and an alert is forgotten *)
(* only after that.  A message may fail, and one under way be lost.          *)
(* AlertEvaluator implements it.                                             *)
(***************************************************************************)
EXTENDS Integers

CONSTANTS Names, Series, Repeat, MaxGap

VARIABLES
  known,      (* The series with a known alert, per name.                     *)
  heard,      (* What the operator heard last of each.                        *)
  since,      (* The time since its last page was attempted, up to Repeat.    *)
  message     (* The one under way, or none.                                  *)

vars == <<known, heard, since, message>>

NoMessage      == <<>>
Firing(n, s)   == <<"firing", n, s>>
Resolved(n, s) == <<"resolved", n, s>>

Init ==
  /\ known = [n \in Names |-> {}]
  /\ heard = [n \in Names |-> [s \in Series |-> "quiet"]]
  /\ since = [n \in Names |-> [s \in Series |-> Repeat]]
  /\ message = NoMessage

Capped(t) == IF t > Repeat THEN Repeat ELSE t

Wait ==
  /\ message = NoMessage
  /\ \E gap \in 0 .. MaxGap :
       since' = [n \in Names |-> [s \in Series |-> Capped(since[n][s] + gap)]]
  /\ UNCHANGED <<known, heard, message>>

(* Only an alert that was known already may go without a page.               *)
Notice(n, s) ==
  /\ message = NoMessage
  /\ known' = [known EXCEPT ![n] = @ \cup {s}]
  /\ \/ since[n][s] = Repeat /\ message' = Firing(n, s)
     \/ s \in known[n] /\ UNCHANGED message
  /\ UNCHANGED <<heard, since>>

Page(n, s) ==
  /\ message = Firing(n, s)
  /\ message' = NoMessage
  /\ since' = [since EXCEPT ![n][s] = 0]
  /\ heard' \in {heard, [heard EXCEPT ![n][s] = "firing"]}
  /\ UNCHANGED known

Announce(n, s) ==
  /\ message = NoMessage /\ s \in known[n]
  /\ message' = Resolved(n, s)
  /\ heard' \in {heard, [heard EXCEPT ![n][s] = "quiet"]}
  /\ UNCHANGED <<known, since>>

(* The next alert of this series is a new one.                               *)
Forget(n, s) ==
  /\ message = Resolved(n, s)
  /\ message' = NoMessage
  /\ known' = [known EXCEPT ![n] = @ \ {s}]
  /\ since' = [since EXCEPT ![n][s] = Repeat]
  /\ UNCHANGED heard

(* The page is not sent, or the alert that was announced resolved stays.     *)
Lose ==
  /\ message' = NoMessage
  /\ UNCHANGED <<known, heard, since>>

Next ==
  \/ Wait \/ Lose
  \/ \E n \in Names, s \in Series :
       Notice(n, s) \/ Page(n, s) \/ Announce(n, s) \/ Forget(n, s)

Spec == Init /\ [][Next]_vars
=============================================================================
