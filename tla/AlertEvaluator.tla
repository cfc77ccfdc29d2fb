---------------------------- MODULE AlertEvaluator ----------------------------
(***************************************************************************)
(* The alert evaluator (internal/alerts/evaluator.go) and the loop that      *)
(* ticks it (service.go).  On each tick every rule is queried in VM, the     *)
(* answer is reconciled with the rule's rows in SQLite, and the operator is  *)
(* notified.  The store and the notifier are called one row at a time, and   *)
(* any call may fail; the process may die between any two of them.           *)
(*                                                                         *)
(* A row's LastNotifiedAt is kept as its age: the time since then, counted   *)
(* up to Repeat (NotifyRepeatTime), which is all the evaluator asks of it.   *)
(***************************************************************************)
EXTENDS Integers, FiniteSets

CONSTANTS
  NumRules,     (* Evaluator.Rules has NumRules entries, run in order.         *)
  Names,        (* Rule names: the key of a rule's rows.                       *)
  NameOf,       (* The name of each rule.                                      *)
  Series,       (* Fingerprints of the label sets a rule may return.           *)
  Repeat,       (* NotifyRepeatTime, in time units.                            *)
  MaxGap,       (* Bound: the longest time between two ticks.                  *)
  MaxCrashes    (* Bound: crashes of the monitor.                              *)

ASSUME AlertAssumption ==
  /\ NumRules \in Nat \ {0}
  /\ NameOf \in [1 .. NumRules -> Names]
  /\ Series # {}
  /\ Repeat \in Nat /\ MaxGap \in Nat \ {0} /\ MaxCrashes \in Nat

VARIABLES
  firing,      (* What VM would answer to each rule's expression now.          *)
  rows,        (* alert_states: the fingerprints with a row, per rule name.    *)
  age,         (* The age of each row's LastNotifiedAt.                        *)
  pc,          (* Where the evaluation is.                                     *)
  rule,        (* The rule being evaluated.                                    *)
  answer,      (* The firing map of this evaluation of the rule.               *)
  toFire,      (* Entries of the firing map still to be handled.               *)
  toResolve,   (* Rows to be resolved: listed, and not in the firing map.      *)
  current,     (* The fingerprint being notified.                              *)
  crashes,     (* Crashes so far.                                              *)
  told,        (* History: the operator heard "firing" last, or not.           *)
  sincePage,   (* History: time since the last firing page was attempted while *)
               (* the row existed; Repeat once the row is deleted.             *)
  faulted      (* History: a store call failed in this evaluation of the rule. *)

vars == <<firing, rows, age, pc, rule, answer, toFire, toResolve, current, crashes,
          told, sincePage, faulted>>

Name == NameOf[rule]
NoSeries == CHOOSE s \in Series : TRUE

Older(t, d) == IF t + d > Repeat THEN Repeat ELSE t + d

Ages == [Names -> [Series -> 0 .. Repeat]]

TypeOK ==
  /\ firing \in [1 .. NumRules -> SUBSET Series]
  /\ rows \in [Names -> SUBSET Series]
  /\ age \in Ages /\ sincePage \in Ages
  /\ pc \in {"idle", "query", "fire", "page", "resolve", "delete"}
  /\ rule \in 1 .. NumRules
  /\ answer \subseteq Series /\ toFire \subseteq Series /\ toResolve \subseteq Series
  /\ current \in Series
  /\ crashes \in 0 .. MaxCrashes
  /\ told \in [Names -> [Series -> {"quiet", "firing"}]]
  /\ faulted \in BOOLEAN

Init ==
  /\ firing = [r \in 1 .. NumRules |-> {}]
  /\ rows = [n \in Names |-> {}]
  /\ age = [n \in Names |-> [s \in Series |-> 0]]
  /\ pc = "idle"
  /\ rule = 1
  /\ answer = {} /\ toFire = {} /\ toResolve = {}
  /\ current = NoSeries
  /\ crashes = 0
  /\ told = [n \in Names |-> [s \in Series |-> "quiet"]]
  /\ sincePage = [n \in Names |-> [s \in Series |-> Repeat]]
  /\ faulted = FALSE

-----------------------------------------------------------------------------
(* The monitored systems: the answer to a rule's expression changes.         *)
VMChanges(r, s) ==
  /\ firing' = [firing EXCEPT ![r] = IF s \in @ THEN @ \ {s} ELSE @ \cup {s}]
  /\ UNCHANGED <<rows, age, pc, rule, answer, toFire, toResolve, current, crashes,
                 told, sincePage, faulted>>

(* EvaluateOnce: some time has passed since the last tick, little if the     *)
(* monitor was restarted in between (Service.Start ticks at once).           *)
Tick(gap) ==
  /\ pc = "idle"
  /\ pc' = "query"
  /\ rule' = 1
  /\ age' = [n \in Names |-> [s \in Series |-> Older(age[n][s], gap)]]
  /\ sincePage' = [n \in Names |-> [s \in Series |-> Older(sincePage[n][s], gap)]]
  /\ UNCHANGED <<firing, rows, answer, toFire, toResolve, current, crashes, told,
                 faulted>>

NextRule ==
  IF rule < NumRules THEN pc' = "query" /\ rule' = rule + 1
                     ELSE pc' = "idle" /\ rule' = 1

(* The VM query or the listing of the rule's rows fails: on to the next rule. *)
QueryFails ==
  /\ pc = "query"
  /\ NextRule
  /\ UNCHANGED <<firing, rows, age, answer, toFire, toResolve, current, crashes,
                 told, sincePage, faulted>>

(* The mutants of this module are changes a plausible bug would make; they    *)
(* are part of no specification.                                              *)
MutantQuery ==
  /\ pc = "query"
  /\ pc' = "fire"
  /\ answer' = firing[rule]
  /\ toFire' = firing[rule]
  /\ toResolve' = firing[rule] \ rows[Name]
  /\ faulted' = FALSE
  /\ UNCHANGED <<firing, rows, age, rule, current, crashes, told, sincePage>>

Query ==
  /\ pc = "query"
  /\ pc' = "fire"
  /\ answer' = firing[rule]
  /\ toFire' = firing[rule]
  /\ toResolve' = rows[Name] \ firing[rule]
  /\ faulted' = FALSE
  /\ UNCHANGED <<firing, rows, age, rule, current, crashes, told, sincePage>>

MutantShouldNotifyEarly(s) == s \notin rows[Name] \/ age[Name][s] >= Repeat - 1
MutantShouldNotifyAged(s) == age[Name][s] >= Repeat
MutantShouldNotifyOnce(s) == s \notin rows[Name]

(* A new alert, or one whose cooldown has elapsed.                           *)
ShouldNotify(s) == s \notin rows[Name] \/ age[Name][s] >= Repeat

Upsert(s) ==
  /\ pc = "fire"
  /\ s \in toFire
  /\ toFire' = toFire \ {s}
  /\ rows' = [rows EXCEPT ![Name] = @ \cup {s}]
  /\ IF ShouldNotify(s)
     THEN /\ age' = [age EXCEPT ![Name][s] = 0]
          /\ pc' = "page"
          /\ current' = s
     ELSE UNCHANGED <<age, pc, current>>
  /\ UNCHANGED <<firing, rule, answer, toResolve, crashes, told, sincePage, faulted>>

(* A failed upsert skips the notification as well.                           *)
UpsertFails(s) ==
  /\ pc = "fire"
  /\ s \in toFire
  /\ toFire' = toFire \ {s}
  /\ faulted' = TRUE
  /\ UNCHANGED <<firing, rows, age, pc, rule, answer, toResolve, current, crashes,
                 told, sincePage>>

(* Notify: an error is logged, and the row already says "notified now".      *)
Page(delivered) ==
  /\ pc = "page"
  /\ pc' = "fire"
  /\ told' = IF delivered THEN [told EXCEPT ![Name][current] = "firing"] ELSE told
  /\ sincePage' = [sincePage EXCEPT ![Name][current] = 0]
  /\ UNCHANGED <<firing, rows, age, rule, answer, toFire, toResolve, current,
                 crashes, faulted>>

FiringHandled ==
  /\ pc = "fire"
  /\ toFire = {}
  /\ pc' = "resolve"
  /\ UNCHANGED <<firing, rows, age, rule, answer, toFire, toResolve, current,
                 crashes, told, sincePage, faulted>>

(* The resolution is announced before the row is deleted.                    *)
NotifyResolved(s, delivered) ==
  /\ pc = "resolve"
  /\ s \in toResolve
  /\ pc' = "delete"
  /\ current' = s
  /\ told' = IF delivered THEN [told EXCEPT ![Name][s] = "quiet"] ELSE told
  /\ UNCHANGED <<firing, rows, age, rule, answer, toFire, toResolve, crashes,
                 sincePage, faulted>>

MutantDelete ==
  /\ pc = "delete"
  /\ pc' = "resolve"
  /\ toResolve' = toResolve \ {current}
  /\ rows' = IF told[Name][current] = "quiet"
             THEN [rows EXCEPT ![Name] = @ \ {current}] ELSE rows
  /\ age' = [age EXCEPT ![Name][current] = 0]
  /\ sincePage' = [sincePage EXCEPT ![Name][current] = Repeat]
  /\ UNCHANGED <<firing, rule, answer, toFire, current, crashes, told, faulted>>

Delete ==
  /\ pc = "delete"
  /\ pc' = "resolve"
  /\ toResolve' = toResolve \ {current}
  /\ rows' = [rows EXCEPT ![Name] = @ \ {current}]
  /\ age' = [age EXCEPT ![Name][current] = 0]
  /\ sincePage' = [sincePage EXCEPT ![Name][current] = Repeat]
  /\ UNCHANGED <<firing, rule, answer, toFire, current, crashes, told, faulted>>

DeleteFails ==
  /\ pc = "delete"
  /\ pc' = "resolve"
  /\ toResolve' = toResolve \ {current}
  /\ faulted' = TRUE
  /\ UNCHANGED <<firing, rows, age, rule, answer, toFire, current, crashes, told,
                 sincePage>>

RuleDone ==
  /\ pc = "resolve"
  /\ toResolve = {}
  /\ NextRule
  /\ answer' = {}
  /\ current' = NoSeries
  /\ faulted' = FALSE
  /\ UNCHANGED <<firing, rows, age, toFire, toResolve, crashes, told, sincePage>>

(* The process dies inside an evaluation and is started again; only the rows *)
(* survive.  Service.Start ticks at once.                                    *)
Crash ==
  /\ pc # "idle"
  /\ crashes < MaxCrashes
  /\ crashes' = crashes + 1
  /\ pc' = "idle"
  /\ rule' = 1
  /\ answer' = {} /\ toFire' = {} /\ toResolve' = {}
  /\ current' = NoSeries
  /\ faulted' = FALSE
  /\ UNCHANGED <<firing, rows, age, told, sincePage>>

Next ==
  \/ \E r \in 1 .. NumRules, s \in Series : VMChanges(r, s)
  \/ \E gap \in 0 .. MaxGap : Tick(gap)
  \/ QueryFails
  \/ Query
  \/ \E s \in Series : Upsert(s) \/ UpsertFails(s)
  \/ \E delivered \in BOOLEAN : Page(delivered)
  \/ FiringHandled
  \/ \E s \in Series, delivered \in BOOLEAN : NotifyResolved(s, delivered)
  \/ Delete
  \/ DeleteFails
  \/ RuleDone
  \/ Crash

Spec == Init /\ [][Next]_vars

(* The loop keeps ticking, time passes, and an evaluation runs to its end.    *)
(* VM, SQLite and Telegram are not down for ever: a call made again and again *)
(* succeeds.                                                                  *)
Proceeds ==
  \/ \E gap \in 0 .. MaxGap : Tick(gap)
  \/ QueryFails \/ Query
  \/ \E s \in Series : Upsert(s) \/ UpsertFails(s)
  \/ \E delivered \in BOOLEAN : Page(delivered)
  \/ FiringHandled
  \/ \E s \in Series, delivered \in BOOLEAN : NotifyResolved(s, delivered)
  \/ Delete \/ DeleteFails
  \/ RuleDone

FairSpec ==
  /\ Spec
  /\ WF_vars(Proceeds)
  /\ SF_vars(\E gap \in 1 .. MaxGap : Tick(gap))
  /\ \A r \in 1 .. NumRules : SF_vars(rule = r /\ Query)
  /\ \A s \in Series :
       /\ \A n \in Names :
            /\ SF_vars(Name = n /\ Upsert(s))
            /\ SF_vars(Name = n /\ current = s /\ Page(TRUE))
            /\ SF_vars(Name = n /\ current = s /\ Delete)

-----------------------------------------------------------------------------
(* A page about to be sent, and a row about to be deleted, is the message under *)
(* way.                                                                        *)
Message ==
  IF pc = "page" THEN <<"firing", Name, current>>
  ELSE IF pc = "delete" THEN <<"resolved", Name, current>>
  ELSE <<>>

Promise == INSTANCE Paging WITH
  known <- rows, heard <- told, since <- sincePage, message <- Message

(* The operator gets what Paging promises: every step of the ticks, the rules, *)
(* the rows, of a failed call and of a restart is one of its steps or none.    *)
PagesAsPromised == Promise!Spec

(* Cooldown: a firing page of an alert that is already known goes out only   *)
(* once NotifyRepeatTime has passed since the previous one, over failures    *)
(* and restarts: the row is written before the page is sent.                 *)
CooldownRespected ==
  pc = "page" => sincePage[Name][current] = Repeat

(* Reconciliation: when the rule is done and no store call failed, the rows  *)
(* of the rule are exactly what VM answered.                                 *)
RowsMatchAnswer ==
  pc = "resolve" /\ toResolve = {} /\ ~ faulted => rows[Name] = answer

(* An alert that keeps firing reaches the operator in the end, whichever     *)
(* pages, upserts or deletes failed before and whatever crashed.             *)
PersistentAlertIsTold ==
  \A r \in 1 .. NumRules, s \in Series :
    <>[](s \in firing[r]) => <>[](told[NameOf[r]][s] = "firing")

(* An alert that stays away loses its row, so a later one pages at once.     *)
AbsentAlertIsCleared ==
  \A r \in 1 .. NumRules, s \in Series :
    <>[](s \notin firing[r]) => <>[](s \notin rows[NameOf[r]])

=============================================================================
