------------------------- MODULE AlertEvaluatorProofs -------------------------
(***************************************************************************)
(* Proofs about AlertEvaluator, for any number of rules, names, series,      *)
(* crashes and any repeat interval: its types, the cooldown between pages,   *)
(* the agreement of a rule's rows with the answer of its query, and that the *)
(* evaluator implements Paging.                                              *)
(***************************************************************************)
EXTENDS AlertEvaluator, TLAPS

(* The series to be resolved are distinct rows of the rule, none of them in   *)
(* its answer; the one being resolved is among them.                          *)
Control ==
  /\ toFire \subseteq answer
  /\ toResolve \cap answer = {}
  /\ pc \in {"idle", "query"} => toFire = {} /\ toResolve = {}
  /\ pc \in {"resolve", "delete"} => toFire = {}
  /\ pc = "delete" => current \in toResolve

(* A row's age never runs ahead of the time since the last page, and a series *)
(* without a row owes no cooldown.  The row of the page being sent is fresh.  *)
CooldownInv ==
  /\ \A n \in Names, s \in Series :
       /\ s \in rows[n] => age[n][s] <= sincePage[n][s]
       /\ s \notin rows[n] => sincePage[n][s] = Repeat
  /\ pc = "page" => /\ current \in rows[Name]
                     /\ age[Name][current] = 0 /\ sincePage[Name][current] = Repeat

(* While no store call has failed: outside what is still to be upserted, the   *)
(* rule has rows for its answer and for what is still to be resolved.          *)
RowsInv ==
  pc \in {"fire", "page", "resolve", "delete"} /\ ~ faulted =>
    \A s \in Series \ toFire : s \in rows[Name] <=> s \in answer \cup toResolve

AlertInv == TypeOK /\ Control /\ CooldownInv /\ RowsInv

-----------------------------------------------------------------------------
(* NoSeries is a series.                                                      *)
LEMMA NoSeriesType == NoSeries \in Series
  BY AlertAssumption DEF AlertAssumption, NoSeries

(* Counting time up to Repeat stays within 0 .. Repeat and keeps the order.   *)
LEMMA OlderType ==
  ASSUME NEW t \in 0 .. Repeat, NEW d \in Nat
  PROVE  /\ Older(t, d) \in 0 .. Repeat
         /\ \A u \in 0 .. Repeat : t <= u => Older(t, d) <= Older(u, d)
         /\ t = Repeat => Older(t, d) = Repeat
  BY AlertAssumption DEF AlertAssumption, Older

(* The initial state satisfies the type invariant.                            *)
LEMMA InitTypeOK == Init => TypeOK
<1> SUFFICES ASSUME Init PROVE TypeOK
  OBVIOUS
<1>1. 0 \in 0 .. Repeat /\ Repeat \in 0 .. Repeat
  BY AlertAssumption DEF AlertAssumption
<1>2. age \in Ages /\ sincePage \in Ages
  BY <1>1 DEF Init, Ages
<1>3. rule \in 1 .. NumRules /\ crashes \in 0 .. MaxCrashes
  BY AlertAssumption DEF AlertAssumption, Init
<1>4. /\ firing \in [1 .. NumRules -> SUBSET Series]
      /\ rows \in [Names -> SUBSET Series]
      /\ told \in [Names -> [Series -> {"quiet", "firing"}]]
  BY DEF Init
<1> QED
  BY <1>2, <1>3, <1>4, NoSeriesType DEF Init, TypeOK

(* The rule under evaluation has a name.                                      *)
LEMMA NameType == TypeOK => Name \in Names
  BY AlertAssumption DEF AlertAssumption, TypeOK, Name

(* No step of the evaluator leaves the types.                                 *)
LEMMA NextTypeOK == TypeOK /\ [Next]_vars => TypeOK'
<1> SUFFICES ASSUME TypeOK, [Next]_vars PROVE TypeOK'
  OBVIOUS
<1>a. NumRules \in Nat \ {0} /\ MaxGap \in Nat /\ MaxCrashes \in Nat /\ Repeat \in Nat
  BY AlertAssumption DEF AlertAssumption
<1>n. Name \in Names
  BY NameType
<1>r. NextRule => rule' \in 1 .. NumRules /\ pc' \in {"query", "idle"}
  BY <1>a DEF NextRule, TypeOK
<1>1. ASSUME NEW r \in 1 .. NumRules, NEW s \in Series, VMChanges(r, s) PROVE TypeOK'
  BY <1>1 DEF VMChanges, TypeOK, Ages
<1>2. ASSUME NEW gap \in 0 .. MaxGap, Tick(gap) PROVE TypeOK'
  <2>1. gap \in Nat
    BY <1>a
  <2>2. \A n \in Names, s \in Series : age[n][s] \in 0 .. Repeat /\ sincePage[n][s] \in 0 .. Repeat
    BY DEF TypeOK, Ages
  <2>3. \A n \in Names, s \in Series : /\ Older(age[n][s], gap) \in 0 .. Repeat
                                      /\ Older(sincePage[n][s], gap) \in 0 .. Repeat
    BY <2>1, <2>2, OlderType
  <2>4. age' \in Ages /\ sincePage' \in Ages
    BY <1>2, <2>3 DEF Tick, Ages
  <2> QED
    BY <1>2, <1>a, <2>4 DEF Tick, TypeOK
<1>3. CASE QueryFails
  BY <1>3, <1>r DEF QueryFails, TypeOK
<1>4. CASE Query
  BY <1>4, <1>n DEF Query, TypeOK
<1>5. ASSUME NEW s \in Series, Upsert(s) PROVE TypeOK'
  <2>1. rows' \in [Names -> SUBSET Series]
    BY <1>5, <1>n DEF Upsert, TypeOK
  <2>2. age' \in Ages
    <3>1. 0 \in 0 .. Repeat
      BY <1>a
    <3>2. [age EXCEPT ![Name][s] = 0] \in Ages
      BY <1>n, <3>1 DEF TypeOK, Ages
    <3> QED
      BY <1>5, <3>2 DEF Upsert, TypeOK
  <2>3. pc' \in {"fire", "page"} /\ current' \in Series
    BY <1>5 DEF Upsert, TypeOK
  <2> QED
    BY <1>5, <2>1, <2>2, <2>3 DEF Upsert, TypeOK
<1>6. ASSUME NEW s \in Series, UpsertFails(s) PROVE TypeOK'
  BY <1>6 DEF UpsertFails, TypeOK
<1>7. ASSUME NEW delivered \in BOOLEAN, Page(delivered) PROVE TypeOK'
  <2>1. told' \in [Names -> [Series -> {"quiet", "firing"}]]
    BY <1>7, <1>n DEF Page, TypeOK
  <2>2. sincePage' \in Ages
    BY <1>7, <1>n, <1>a DEF Page, TypeOK, Ages
  <2> QED
    BY <1>7, <2>1, <2>2 DEF Page, TypeOK
<1>8. CASE FiringHandled
  BY <1>8 DEF FiringHandled, TypeOK
<1>9. ASSUME NEW s \in Series, NEW delivered \in BOOLEAN, NotifyResolved(s, delivered)
      PROVE  TypeOK'
  <2>1. told' \in [Names -> [Series -> {"quiet", "firing"}]]
    BY <1>9, <1>n DEF NotifyResolved, TypeOK
  <2> QED
    BY <1>9, <2>1 DEF NotifyResolved, TypeOK
<1>10. CASE Delete
  <2>1. rows' \in [Names -> SUBSET Series]
    BY <1>10, <1>n DEF Delete, TypeOK
  <2>2. age' \in Ages /\ sincePage' \in Ages
    BY <1>10, <1>n, <1>a DEF Delete, TypeOK, Ages
  <2> QED
    BY <1>10, <2>1, <2>2 DEF Delete, TypeOK
<1>11. CASE DeleteFails
  BY <1>11 DEF DeleteFails, TypeOK
<1>12. CASE RuleDone
  BY <1>12, <1>r, NoSeriesType DEF RuleDone, TypeOK
<1>13. CASE Crash
  <2>1. rule' \in 1 .. NumRules /\ crashes' \in 0 .. MaxCrashes
    BY <1>13, <1>a DEF Crash, TypeOK
  <2> QED
    BY <1>13, <2>1, NoSeriesType DEF Crash, TypeOK
<1>14. CASE UNCHANGED vars
  BY <1>14 DEF vars, TypeOK
<1> QED
  BY <1>1, <1>2, <1>3, <1>4, <1>5, <1>6, <1>7, <1>8, <1>9, <1>10, <1>11, <1>12,
     <1>13, <1>14 DEF Next

(* Type correctness of the evaluator.                                         *)
THEOREM TypeCorrect == Spec => []TypeOK
<1>1. Init => TypeOK
  BY InitTypeOK
<1>2. TypeOK /\ [Next]_vars => TypeOK'
  BY NextTypeOK
<1> QED
  BY <1>1, <1>2, PTL DEF Spec

-----------------------------------------------------------------------------
(* The initial state satisfies the inductive invariant: no rows, no work.     *)
LEMMA InitAlertInv == Init => AlertInv
<1> SUFFICES ASSUME Init PROVE AlertInv
  OBVIOUS
<1>1. TypeOK
  BY InitTypeOK
<1>2. Control /\ RowsInv
  BY DEF Init, Control, RowsInv
<1>3. CooldownInv
  BY DEF Init, CooldownInv
<1> QED
  BY <1>1, <1>2, <1>3 DEF AlertInv

(* Every step keeps the sets still to be handled disjoint and in order.       *)
LEMMA NextControl == AlertInv /\ [Next]_vars => Control'
<1> SUFFICES ASSUME AlertInv, [Next]_vars PROVE Control'
  OBVIOUS
<1> USE DEF AlertInv, Control
<1>1. ASSUME NEW r \in 1 .. NumRules, NEW s \in Series, VMChanges(r, s) PROVE Control'
  BY <1>1 DEF VMChanges
<1>2. ASSUME NEW gap \in 0 .. MaxGap, Tick(gap) PROVE Control'
  BY <1>2 DEF Tick
<1>3. CASE QueryFails
  BY <1>3 DEF QueryFails, NextRule
<1>4. CASE Query
  BY <1>4 DEF Query
<1>5. ASSUME NEW s \in Series, Upsert(s) \/ UpsertFails(s) PROVE Control'
  BY <1>5 DEF Upsert, UpsertFails
<1>6. ASSUME NEW delivered \in BOOLEAN, Page(delivered) PROVE Control'
  BY <1>6 DEF Page
<1>7. CASE FiringHandled
  BY <1>7 DEF FiringHandled
<1>8. ASSUME NEW s \in Series, NEW delivered \in BOOLEAN, NotifyResolved(s, delivered)
      PROVE  Control'
  BY <1>8 DEF NotifyResolved
<1>9. CASE Delete \/ DeleteFails
  BY <1>9 DEF Delete, DeleteFails
<1>10. CASE RuleDone
  BY <1>10 DEF RuleDone, NextRule
<1>11. CASE Crash
  BY <1>11 DEF Crash
<1>12. CASE UNCHANGED vars
  BY <1>12 DEF vars
<1> QED
  BY <1>1, <1>2, <1>3, <1>4, <1>5, <1>6, <1>7, <1>8, <1>9, <1>10, <1>11, <1>12 DEF Next

(* Every step keeps the cooldown: a page is sent only when it has elapsed.    *)
LEMMA NextCooldownInv == AlertInv /\ [Next]_vars => CooldownInv'
<1> SUFFICES ASSUME AlertInv, [Next]_vars PROVE CooldownInv'
  OBVIOUS
<1>t. TypeOK /\ CooldownInv /\ Name \in Names /\ Repeat \in Nat
  BY NameType, AlertAssumption DEF AlertInv, AlertAssumption
<1>a. /\ age \in [Names -> [Series -> 0 .. Repeat]]
      /\ sincePage \in [Names -> [Series -> 0 .. Repeat]]
      /\ rows \in [Names -> SUBSET Series]
      /\ current \in Series
  BY <1>t DEF TypeOK, Ages
<1>1. ASSUME NEW gap \in 0 .. MaxGap, Tick(gap) PROVE CooldownInv'
  <2>1. gap \in Nat
    BY AlertAssumption DEF AlertAssumption
  <2> SUFFICES ASSUME NEW n \in Names, NEW s \in Series
               PROVE  /\ s \in rows[n] => age'[n][s] <= sincePage'[n][s]
                      /\ s \notin rows[n] => sincePage'[n][s] = Repeat
    BY <1>1 DEF Tick, CooldownInv
  <2>2. age[n][s] \in 0 .. Repeat /\ sincePage[n][s] \in 0 .. Repeat
    BY <1>a
  <2>3. /\ age'[n][s] = Older(age[n][s], gap)
        /\ sincePage'[n][s] = Older(sincePage[n][s], gap)
    BY <1>1 DEF Tick
  <2>4. /\ s \in rows[n] => age[n][s] <= sincePage[n][s]
        /\ s \notin rows[n] => sincePage[n][s] = Repeat
    BY <1>t DEF CooldownInv
  <2> QED
    BY <2>1, <2>2, <2>3, <2>4, OlderType
<1>2. ASSUME NEW s \in Series, Upsert(s) PROVE CooldownInv'
  <2>1. CASE ShouldNotify(s)
    <3>1. sincePage[Name][s] = Repeat
      <4>1. s \in rows[Name] => age[Name][s] >= Repeat /\ age[Name][s] <= sincePage[Name][s]
        BY <1>t, <2>1 DEF ShouldNotify, CooldownInv
      <4>2. s \notin rows[Name] => sincePage[Name][s] = Repeat
        BY <1>t DEF CooldownInv
      <4>3. sincePage[Name][s] \in 0 .. Repeat /\ age[Name][s] \in 0 .. Repeat
        BY <1>a, <1>t
      <4> QED
        BY <1>t, <4>1, <4>2, <4>3
    <3>2. /\ rows' = [rows EXCEPT ![Name] = @ \cup {s}]
          /\ age' = [age EXCEPT ![Name][s] = 0]
          /\ current' = s /\ Name' = Name /\ sincePage' = sincePage
      BY <1>2, <2>1 DEF Upsert, Name
    <3>3. age'[Name][s] = 0 /\ s \in rows'[Name]
      BY <1>a, <1>t, <3>2
    <3>4. ASSUME NEW n \in Names, NEW u \in Series
          PROVE  /\ u \in rows'[n] => age'[n][u] <= sincePage[n][u]
                 /\ u \notin rows'[n] => sincePage[n][u] = Repeat
      <4>1. CASE n = Name /\ u = s
        BY <1>a, <1>t, <3>1, <3>2, <3>3, <4>1
      <4>2. CASE ~ (n = Name /\ u = s)
        <5>1. age'[n][u] = age[n][u] /\ (u \in rows'[n] <=> u \in rows[n])
          BY <1>a, <3>2, <4>2
        <5> QED
          BY <1>t, <5>1 DEF CooldownInv
      <4> QED
        BY <4>1, <4>2
    <3> QED
      BY <3>1, <3>2, <3>3, <3>4 DEF CooldownInv
  <2>2. CASE ~ ShouldNotify(s)
    <3>1. /\ s \in rows[Name] /\ pc' = "fire" /\ age' = age /\ sincePage' = sincePage
          /\ rows' = [rows EXCEPT ![Name] = @ \cup {s}]
      BY <1>2, <2>2 DEF Upsert, ShouldNotify
    <3>2. rows' = rows
      BY <1>a, <1>t, <3>1
    <3> QED
      BY <1>t, <3>1, <3>2 DEF CooldownInv
  <2> QED
    BY <2>1, <2>2
<1>3. ASSUME NEW delivered \in BOOLEAN, Page(delivered) PROVE CooldownInv'
  <2>1. /\ sincePage' = [sincePage EXCEPT ![Name][current] = 0]
        /\ rows' = rows /\ age' = age /\ pc' = "fire" /\ pc = "page"
    BY <1>3 DEF Page
  <2>2. ASSUME NEW n \in Names, NEW u \in Series
        PROVE  /\ u \in rows[n] => age[n][u] <= sincePage'[n][u]
               /\ u \notin rows[n] => sincePage'[n][u] = Repeat
    <3>1. CASE n = Name /\ u = current
      <4>1. age[n][u] = 0 /\ u \in rows[n]
        BY <1>t, <2>1, <3>1 DEF CooldownInv
      <4>2. sincePage'[n][u] = 0
        BY <1>a, <1>t, <2>1, <3>1
      <4> QED
        BY <4>1, <4>2
    <3>2. CASE ~ (n = Name /\ u = current)
      <4>1. sincePage'[n][u] = sincePage[n][u]
        BY <1>a, <2>1, <3>2
      <4> QED
        BY <1>t, <4>1 DEF CooldownInv
    <3> QED
      BY <3>1, <3>2
  <2> QED
    BY <2>1, <2>2 DEF CooldownInv
<1>4. CASE Delete
  <2>1. /\ rows' = [rows EXCEPT ![Name] = @ \ {current}]
        /\ age' = [age EXCEPT ![Name][current] = 0]
        /\ sincePage' = [sincePage EXCEPT ![Name][current] = Repeat]
        /\ pc' = "resolve"
    BY <1>4 DEF Delete
  <2>2. ASSUME NEW n \in Names, NEW u \in Series
        PROVE  /\ u \in rows'[n] => age'[n][u] <= sincePage'[n][u]
               /\ u \notin rows'[n] => sincePage'[n][u] = Repeat
    <3>1. CASE n = Name /\ u = current
      BY <1>a, <1>t, <2>1, <3>1
    <3>2. CASE ~ (n = Name /\ u = current)
      <4>1. /\ age'[n][u] = age[n][u] /\ sincePage'[n][u] = sincePage[n][u]
            /\ u \in rows'[n] <=> u \in rows[n]
        BY <1>a, <2>1, <3>2
      <4> QED
        BY <1>t, <4>1 DEF CooldownInv
    <3> QED
      BY <3>1, <3>2
  <2> QED
    BY <2>1, <2>2 DEF CooldownInv
<1>5. ASSUME UNCHANGED <<rows, age, sincePage>>, pc' # "page" PROVE CooldownInv'
  BY <1>t, <1>5 DEF CooldownInv
<1>6. ASSUME NEW s \in Series, UpsertFails(s) PROVE CooldownInv'
  BY <1>5, <1>6 DEF UpsertFails
<1>7. ASSUME NEW s \in Series, NEW delivered \in BOOLEAN, NotifyResolved(s, delivered)
      PROVE  CooldownInv'
  BY <1>5, <1>7 DEF NotifyResolved
<1>8. CASE QueryFails \/ Query \/ FiringHandled \/ DeleteFails \/ RuleDone \/ Crash
  BY <1>5, <1>8 DEF QueryFails, Query, FiringHandled, DeleteFails, RuleDone, Crash, NextRule
<1>9. CASE UNCHANGED vars \/ \E r \in 1 .. NumRules, s \in Series : VMChanges(r, s)
  BY <1>t, <1>9 DEF vars, VMChanges, CooldownInv, Name
<1> QED
  BY <1>1, <1>2, <1>3, <1>4, <1>6, <1>7, <1>8, <1>9 DEF Next

(* Every step keeps the rows in agreement with the answer being handled.      *)
LEMMA NextRowsInv == AlertInv /\ [Next]_vars => RowsInv'
<1> SUFFICES ASSUME AlertInv, [Next]_vars PROVE RowsInv'
  OBVIOUS
<1>t. TypeOK /\ RowsInv /\ Control /\ Name \in Names /\ rows \in [Names -> SUBSET Series]
  BY NameType DEF AlertInv, TypeOK
<1>1. CASE Query
  <2>1. /\ answer' = firing[rule] /\ toFire' = firing[rule]
        /\ toResolve' = rows[Name] \ firing[rule]
        /\ rows' = rows /\ Name' = Name
    BY <1>1 DEF Query, Name
  <2> QED
    BY <2>1 DEF RowsInv
<1>2. ASSUME NEW s \in Series, Upsert(s) PROVE RowsInv'
  <2>1. /\ pc = "fire" /\ s \in toFire /\ toFire' = toFire \ {s}
        /\ rows'[Name] = rows[Name] \cup {s}
        /\ answer' = answer /\ toResolve' = toResolve /\ faulted' = faulted
        /\ Name' = Name
    BY <1>2, <1>t DEF Upsert, Name
  <2>2. s \in answer
    BY <1>t, <2>1 DEF Control
  <2> QED
    BY <1>t, <2>1, <2>2 DEF RowsInv
<1>3. CASE Delete
  <2>1. /\ pc = "delete" /\ toFire' = toFire /\ toResolve' = toResolve \ {current}
        /\ rows'[Name] = rows[Name] \ {current}
        /\ answer' = answer /\ faulted' = faulted /\ Name' = Name
    BY <1>3, <1>t DEF Delete, Name
  <2>2. current \in toResolve /\ toResolve \cap answer = {}
    BY <1>t, <2>1 DEF Control
  <2> QED
    BY <1>t, <2>1, <2>2 DEF RowsInv
<1>4. ASSUME NEW delivered \in BOOLEAN, Page(delivered) PROVE RowsInv'
  BY <1>t, <1>4 DEF Page, RowsInv, Name
<1>5. CASE FiringHandled
  BY <1>t, <1>5 DEF FiringHandled, RowsInv, Name
<1>6. ASSUME NEW s \in Series, NEW delivered \in BOOLEAN, NotifyResolved(s, delivered)
      PROVE  RowsInv'
  BY <1>t, <1>6 DEF NotifyResolved, RowsInv, Name
<1>7. ASSUME NEW s \in Series, UpsertFails(s) PROVE RowsInv'
  BY <1>7 DEF UpsertFails, RowsInv
<1>8. CASE DeleteFails
  BY <1>8 DEF DeleteFails, RowsInv
<1>9. ASSUME NEW gap \in 0 .. MaxGap, Tick(gap) PROVE RowsInv'
  BY <1>9 DEF Tick, RowsInv
<1>10. CASE QueryFails \/ RuleDone \/ Crash
  BY <1>10 DEF QueryFails, RuleDone, Crash, NextRule, RowsInv
<1>11. CASE UNCHANGED vars \/ \E r \in 1 .. NumRules, s \in Series : VMChanges(r, s)
  BY <1>t, <1>11 DEF vars, VMChanges, RowsInv, Name
<1> QED
  BY <1>1, <1>2, <1>3, <1>4, <1>5, <1>6, <1>7, <1>8, <1>9, <1>10, <1>11 DEF Next

(* The inductive invariant holds in every reachable state.                    *)
LEMMA AlertInvAlways == Spec => []AlertInv
<1>1. Init => AlertInv
  BY InitAlertInv
<1>2. AlertInv /\ [Next]_vars => AlertInv'
  BY NextTypeOK, NextControl, NextCooldownInv, NextRowsInv DEF AlertInv
<1> QED
  BY <1>1, <1>2, PTL DEF Spec

(* No firing page of a known alert goes out before NotifyRepeatTime has       *)
(* passed since the previous one, whatever failed and however often the       *)
(* monitor restarted in between.                                              *)
THEOREM CooldownAlways == Spec => []CooldownRespected
<1>1. AlertInv => CooldownRespected
  BY DEF AlertInv, CooldownInv, CooldownRespected
<1> QED
  BY <1>1, AlertInvAlways, PTL

(* An evaluation of a rule in which no store call failed leaves exactly the    *)
(* rows of the series VM returned.                                             *)
THEOREM Reconciled == Spec => []RowsMatchAnswer
<1>1. AlertInv => RowsMatchAnswer
  <2> SUFFICES ASSUME AlertInv, pc = "resolve", toResolve = {}, ~ faulted
               PROVE  rows[Name] = answer
    BY DEF RowsMatchAnswer
  <2>1. toFire = {} /\ answer \subseteq Series /\ rows[Name] \subseteq Series
    BY NameType DEF AlertInv, Control, TypeOK
  <2>2. \A s \in Series : s \in rows[Name] <=> s \in answer
    BY <2>1 DEF AlertInv, RowsInv
  <2> QED
    BY <2>1, <2>2
<1> QED
  BY <1>1, AlertInvAlways, PTL

-----------------------------------------------------------------------------
(***************************************************************************)
(* The refinement of Paging.                                               *)
(***************************************************************************)
(* Only rows are resolved.                                                    *)
ResolveInv == toResolve \subseteq rows[Name]

LEMMA NextResolveInv == AlertInv /\ ResolveInv /\ [Next]_vars => ResolveInv'
<1> SUFFICES ASSUME AlertInv, ResolveInv, [Next]_vars PROVE ResolveInv'
  OBVIOUS
<1>t. TypeOK /\ Control /\ Name \in Names /\ rows \in [Names -> SUBSET Series]
  BY NameType DEF AlertInv, TypeOK
<1>1. CASE toResolve' = {}
  BY <1>1 DEF ResolveInv
<1>2. CASE Query
  BY <1>2 DEF Query, ResolveInv, Name
<1>3. ASSUME NEW s \in Series, Upsert(s) PROVE ResolveInv'
  <2>1. toResolve' = toResolve /\ Name' = Name /\ rows'[Name] = rows[Name] \cup {s}
    BY <1>3, <1>t DEF Upsert, Name
  <2> QED
    BY <2>1 DEF ResolveInv
<1>4. CASE Delete
  <2>1. toResolve' = toResolve \ {current} /\ Name' = Name /\ rows'[Name] = rows[Name] \ {current}
    BY <1>4, <1>t DEF Delete, Name
  <2> QED
    BY <2>1 DEF ResolveInv
<1>5. ASSUME toResolve' \subseteq toResolve, UNCHANGED <<rows, rule>> PROVE ResolveInv'
  BY <1>5 DEF ResolveInv, Name
<1>6. CASE \E s \in Series : UpsertFails(s)
  BY <1>5, <1>6 DEF UpsertFails
<1>7. CASE \E delivered \in BOOLEAN : Page(delivered)
  BY <1>5, <1>7 DEF Page
<1>8. CASE \E s \in Series, delivered \in BOOLEAN : NotifyResolved(s, delivered)
  BY <1>5, <1>8 DEF NotifyResolved
<1>9. CASE FiringHandled \/ DeleteFails \/ UNCHANGED vars
           \/ \E r \in 1 .. NumRules, s \in Series : VMChanges(r, s)
  BY <1>5, <1>9 DEF FiringHandled, DeleteFails, vars, VMChanges
<1>10. CASE QueryFails \/ RuleDone \/ Crash \/ \E gap \in 0 .. MaxGap : Tick(gap)
  BY <1>1, <1>10, <1>t DEF QueryFails, RuleDone, Crash, Tick, Control
<1> QED
  BY <1>2, <1>3, <1>4, <1>6, <1>7, <1>8, <1>9, <1>10 DEF Next

(* A step that does none of the messages is none of Paging's.                  *)
LEMMA Quiet ==
  ASSUME UNCHANGED <<rows, told, sincePage>>,
         pc \notin {"page", "delete"}, pc' \notin {"page", "delete"}
  PROVE  UNCHANGED Promise!vars
  BY DEF Promise!vars, Message

LEMMA PromiseInit == Init => Promise!Init
  BY DEF Init, Promise!Init, Promise!NoMessage, Message

LEMMA TickWaits ==
  ASSUME AlertInv, NEW gap \in 0 .. MaxGap, Tick(gap)
  PROVE  Promise!Wait
  BY DEF Tick, Older, Promise!Wait, Promise!Capped, Promise!NoMessage, Message

LEMMA UpsertNotices ==
  ASSUME AlertInv, NEW s \in Series, Upsert(s)
  PROVE  Promise!Next
<1>t. TypeOK /\ CooldownInv /\ Name \in Names
  BY NameType DEF AlertInv
<1>1. /\ Message = <<>> /\ Name' = Name
      /\ rows' = [rows EXCEPT ![Name] = @ \cup {s}]
      /\ UNCHANGED <<told, sincePage>>
  BY DEF Upsert, Message, Name
<1>2. CASE ShouldNotify(s)
  <2>1. Message' = <<"firing", Name, s>>
    BY <1>1, <1>2 DEF Upsert, Message
  <2>2. sincePage[Name][s] = Repeat
    <3>1. CASE s \notin rows[Name]
      BY <1>t, <3>1 DEF CooldownInv
    <3>2. CASE s \in rows[Name]
      <4>1. /\ age[Name][s] >= Repeat /\ age[Name][s] <= sincePage[Name][s]
        BY <1>2, <1>t, <3>2 DEF ShouldNotify, CooldownInv
      <4>2. age[Name][s] \in 0 .. Repeat /\ sincePage[Name][s] \in 0 .. Repeat /\ Repeat \in Nat
        BY <1>t, AlertAssumption DEF TypeOK, Ages, AlertAssumption
      <4> QED
        BY <4>1, <4>2
    <3> QED
      BY <3>1, <3>2
  <2>3. Promise!Notice(Name, s)
    BY <1>1, <2>1, <2>2 DEF Promise!Notice, Promise!NoMessage, Promise!Firing
  <2> QED
    BY <1>t, <2>3 DEF Promise!Next
<1>3. CASE ~ ShouldNotify(s)
  <2>1. s \in rows[Name] /\ Message' = Message
    BY <1>1, <1>3 DEF Upsert, ShouldNotify, Message
  <2>2. Promise!Notice(Name, s)
    BY <1>1, <2>1 DEF Promise!Notice, Promise!NoMessage
  <2> QED
    BY <1>t, <2>2 DEF Promise!Next
<1> QED
  BY <1>2, <1>3

LEMMA PagePages ==
  ASSUME AlertInv, NEW delivered \in BOOLEAN, Page(delivered)
  PROVE  Promise!Next
<1>t. Name \in Names /\ current \in Series
  BY NameType DEF AlertInv, TypeOK
<1>1. Message = <<"firing", Name, current>> /\ Message' = <<>>
  BY DEF Page, Message
<1>2. Promise!Page(Name, current)
  BY <1>1 DEF Page, Promise!Page, Promise!Firing, Promise!NoMessage
<1> QED
  BY <1>t, <1>2 DEF Promise!Next

LEMMA NotifyAnnounces ==
  ASSUME AlertInv, ResolveInv, NEW s \in Series, NEW delivered \in BOOLEAN,
         NotifyResolved(s, delivered)
  PROVE  Promise!Next
<1>t. Name \in Names
  BY NameType DEF AlertInv
<1>1. Message = <<>> /\ Message' = <<"resolved", Name, s>> /\ s \in rows[Name]
  BY DEF NotifyResolved, Message, Name, ResolveInv
<1>2. Promise!Announce(Name, s)
  BY <1>1 DEF NotifyResolved, Promise!Announce, Promise!Resolved, Promise!NoMessage
<1> QED
  BY <1>t, <1>2 DEF Promise!Next

LEMMA DeleteForgets ==
  ASSUME AlertInv, Delete
  PROVE  Promise!Next
<1>t. Name \in Names /\ current \in Series
  BY NameType DEF AlertInv, TypeOK
<1>1. Message = <<"resolved", Name, current>> /\ Message' = <<>>
  BY DEF Delete, Message
<1>2. Promise!Forget(Name, current)
  BY <1>1 DEF Delete, Promise!Forget, Promise!Resolved, Promise!NoMessage
<1> QED
  BY <1>t, <1>2 DEF Promise!Next

(* A call that fails and a crash lose the message under way, if there is one.  *)
LEMMA FailureLoses ==
  ASSUME DeleteFails \/ Crash
  PROVE  Promise!Next
<1>1. Message' = <<>> /\ UNCHANGED <<rows, told, sincePage>>
  BY DEF DeleteFails, Crash, Message
<1>2. Promise!Lose
  BY <1>1 DEF Promise!Lose, Promise!NoMessage
<1> QED
  BY <1>2 DEF Promise!Next

LEMMA PromiseStep ==
  ASSUME AlertInv, ResolveInv, [Next]_vars
  PROVE  [Promise!Next]_(Promise!vars)
<1>1. CASE \E gap \in 0 .. MaxGap : Tick(gap)
  BY <1>1, TickWaits DEF Promise!Next
<1>2. CASE \E s \in Series : Upsert(s)
  BY <1>2, UpsertNotices
<1>3. CASE \E delivered \in BOOLEAN : Page(delivered)
  BY <1>3, PagePages
<1>4. CASE \E s \in Series, delivered \in BOOLEAN : NotifyResolved(s, delivered)
  BY <1>4, NotifyAnnounces
<1>5. CASE Delete
  BY <1>5, DeleteForgets
<1>6. CASE DeleteFails \/ Crash
  BY <1>6, FailureLoses
<1>7. CASE QueryFails \/ Query \/ FiringHandled \/ RuleDone \/ \E s \in Series : UpsertFails(s)
  <2>1. /\ UNCHANGED <<rows, told, sincePage>>
        /\ pc \notin {"page", "delete"} /\ pc' \notin {"page", "delete"}
    BY <1>7 DEF QueryFails, Query, FiringHandled, RuleDone, UpsertFails, NextRule
  <2> QED
    BY <2>1, Quiet
<1>8. CASE UNCHANGED vars \/ \E r \in 1 .. NumRules, s \in Series : VMChanges(r, s)
  BY <1>8 DEF vars, VMChanges, Promise!vars, Message, Name
<1> QED
  BY <1>1, <1>2, <1>3, <1>4, <1>5, <1>6, <1>7, <1>8 DEF Next

(* The evaluator (internal/alerts/evaluator.go evaluateRule) keeps what Paging *)
(* promises, for any rules, series and repeat interval: the row written before *)
(* the page and the resolution sent before the row is deleted are enough, over *)
(* calls that fail and restarts between any two steps.                         *)
THEOREM Refinement == Spec => PagesAsPromised
<1>1. Init => ResolveInv
  BY DEF Init, ResolveInv
<1>2. Spec => []ResolveInv
  BY <1>1, NextResolveInv, AlertInvAlways, PTL DEF Spec
<1>3. AlertInv /\ ResolveInv /\ [Next]_vars => [Promise!Next]_(Promise!vars)
  BY PromiseStep
<1> QED
  BY <1>2, <1>3, PromiseInit, AlertInvAlways, PTL DEF Spec, PagesAsPromised, Promise!Spec
=============================================================================
