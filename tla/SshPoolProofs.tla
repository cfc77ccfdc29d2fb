----------------------------- MODULE SshPoolProofs -----------------------------
(***************************************************************************)
(* Proofs about SshPool, for any number of callers and of connections.       *)
(***************************************************************************)
EXTENDS SshPool, TLAPS

Live(c) == state[c] \in {"open", "broken"}

(* A call that dialled has its connection to itself until it stores or closes *)
(* it.                                                                       *)
DialledAlone ==
  \A p \in Callers : pc[p] = "store" =>
    /\ Live(held[p]) /\ held[p] # stored
    /\ \A q \in Callers \ {p} : pc[q] = "store" => held[q] # held[p]

(* Any other connection in use is the stored one or one that was closed when  *)
(* it left the map; what a first attempt gave up is closed for good.          *)
UsedIsStoredOrClosed ==
  \A p \in Callers :
    /\ pc[p] \in {"session", "drop", "running"} =>
         held[p] = stored \/ state[held[p]] = "closed"
    /\ pc[p] = "lookup" /\ retried[p] => held[p] \in Clients /\ state[held[p]] = "closed"

PoolInv == TypeOK /\ StoredIsNotClosed /\ NoLeak /\ DialledAlone /\ UsedIsStoredOrClosed

LEMMA NoneIsNoClient == None \notin Clients
  BY DEF None, Clients

LEMMA PoolInit == Init => PoolInv
  BY NoneIsNoClient DEF Init, PoolInv, TypeOK, StoredIsNotClosed, NoLeak, DialledAlone, UsedIsStoredOrClosed

LEMMA PoolStep == PoolInv /\ [Next]_vars => PoolInv'
<1> SUFFICES ASSUME PoolInv, [Next]_vars PROVE PoolInv'
  OBVIOUS
<1> USE NoneIsNoClient DEF PoolInv, Live
<1>1. ASSUME NEW p \in Callers, Call(p) PROVE PoolInv'
  <2>1. TypeOK'
    BY <1>1 DEF Call, TypeOK, StoredIsNotClosed
  <2>2. StoredIsNotClosed'
    BY <1>1 DEF Call, TypeOK, StoredIsNotClosed, DialledAlone
  <2>3. NoLeak'
    BY <1>1 DEF Call, TypeOK, StoredIsNotClosed, NoLeak, DialledAlone
  <2>4. DialledAlone'
    BY <1>1 DEF Call, TypeOK, StoredIsNotClosed, DialledAlone
  <2>5. UsedIsStoredOrClosed'
    BY <1>1 DEF Call, TypeOK, StoredIsNotClosed, DialledAlone, UsedIsStoredOrClosed
  <2> QED
    BY <2>1, <2>2, <2>3, <2>4, <2>5
<1>2. ASSUME NEW p \in Callers, Lookup(p) PROVE PoolInv'
  <2>1. TypeOK'
    BY <1>2 DEF Lookup, TypeOK, StoredIsNotClosed
  <2>2. StoredIsNotClosed'
    BY <1>2 DEF Lookup, TypeOK, StoredIsNotClosed, DialledAlone
  <2>3. NoLeak'
    BY <1>2 DEF Lookup, TypeOK, StoredIsNotClosed, NoLeak, DialledAlone
  <2>4. DialledAlone'
    BY <1>2 DEF Lookup, TypeOK, StoredIsNotClosed, DialledAlone
  <2>5. UsedIsStoredOrClosed'
    BY <1>2 DEF Lookup, TypeOK, StoredIsNotClosed, DialledAlone, UsedIsStoredOrClosed
  <2> QED
    BY <2>1, <2>2, <2>3, <2>4, <2>5
<1>3. ASSUME NEW p \in Callers, DialOk(p) PROVE PoolInv'
  <2>1. TypeOK'
    BY <1>3 DEF DialOk, TypeOK, StoredIsNotClosed
  <2>2. StoredIsNotClosed'
    BY <1>3 DEF DialOk, TypeOK, StoredIsNotClosed, DialledAlone
  <2>3. NoLeak'
    BY <1>3 DEF DialOk, TypeOK, StoredIsNotClosed, NoLeak, DialledAlone
  <2>4. DialledAlone'
    BY <1>3 DEF DialOk, TypeOK, StoredIsNotClosed, DialledAlone
  <2>5. UsedIsStoredOrClosed'
    BY <1>3 DEF DialOk, TypeOK, StoredIsNotClosed, DialledAlone, UsedIsStoredOrClosed
  <2> QED
    BY <2>1, <2>2, <2>3, <2>4, <2>5
<1>4. ASSUME NEW p \in Callers, DialFails(p) PROVE PoolInv'
  <2>1. TypeOK'
    BY <1>4 DEF DialFails, Return, TypeOK, StoredIsNotClosed
  <2>2. StoredIsNotClosed'
    BY <1>4 DEF DialFails, Return, TypeOK, StoredIsNotClosed, DialledAlone
  <2>3. NoLeak'
    BY <1>4 DEF DialFails, Return, TypeOK, StoredIsNotClosed, NoLeak, DialledAlone
  <2>4. DialledAlone'
    BY <1>4 DEF DialFails, Return, TypeOK, StoredIsNotClosed, DialledAlone
  <2>5. UsedIsStoredOrClosed'
    BY <1>4 DEF DialFails, Return, TypeOK, StoredIsNotClosed, DialledAlone, UsedIsStoredOrClosed
  <2> QED
    BY <2>1, <2>2, <2>3, <2>4, <2>5
<1>5. ASSUME NEW p \in Callers, Store(p) PROVE PoolInv'
  <2>1. TypeOK'
    BY <1>5 DEF Store, TypeOK, StoredIsNotClosed
  <2>2. StoredIsNotClosed'
    BY <1>5 DEF Store, TypeOK, StoredIsNotClosed, DialledAlone
  <2>3. NoLeak'
    BY <1>5 DEF Store, TypeOK, StoredIsNotClosed, NoLeak, DialledAlone
  <2>4. DialledAlone'
    BY <1>5 DEF Store, TypeOK, StoredIsNotClosed, DialledAlone
  <2>5. UsedIsStoredOrClosed'
    BY <1>5 DEF Store, TypeOK, StoredIsNotClosed, DialledAlone, UsedIsStoredOrClosed
  <2> QED
    BY <2>1, <2>2, <2>3, <2>4, <2>5
<1>6. ASSUME NEW p \in Callers, SessionOpens(p) PROVE PoolInv'
  <2>1. TypeOK'
    BY <1>6 DEF SessionOpens, TypeOK, StoredIsNotClosed
  <2>2. StoredIsNotClosed'
    BY <1>6 DEF SessionOpens, TypeOK, StoredIsNotClosed, DialledAlone
  <2>3. NoLeak'
    BY <1>6 DEF SessionOpens, TypeOK, StoredIsNotClosed, NoLeak, DialledAlone
  <2>4. DialledAlone'
    BY <1>6 DEF SessionOpens, TypeOK, StoredIsNotClosed, DialledAlone
  <2>5. UsedIsStoredOrClosed'
    BY <1>6 DEF SessionOpens, TypeOK, StoredIsNotClosed, DialledAlone, UsedIsStoredOrClosed
  <2> QED
    BY <2>1, <2>2, <2>3, <2>4, <2>5
<1>7. ASSUME NEW p \in Callers, SessionFails(p) PROVE PoolInv'
  <2>1. TypeOK'
    BY <1>7 DEF SessionFails, Return, TypeOK, StoredIsNotClosed
  <2>2. StoredIsNotClosed'
    BY <1>7 DEF SessionFails, Return, TypeOK, StoredIsNotClosed, DialledAlone
  <2>3. NoLeak'
    BY <1>7 DEF SessionFails, Return, TypeOK, StoredIsNotClosed, NoLeak, DialledAlone
  <2>4. DialledAlone'
    BY <1>7 DEF SessionFails, Return, TypeOK, StoredIsNotClosed, DialledAlone
  <2>5. UsedIsStoredOrClosed'
    BY <1>7 DEF SessionFails, Return, TypeOK, StoredIsNotClosed, DialledAlone, UsedIsStoredOrClosed
  <2> QED
    BY <2>1, <2>2, <2>3, <2>4, <2>5
<1>8. ASSUME NEW p \in Callers, Drop(p) PROVE PoolInv'
  <2>1. TypeOK'
    BY <1>8 DEF Drop, TypeOK, StoredIsNotClosed
  <2>2. StoredIsNotClosed'
    BY <1>8 DEF Drop, TypeOK, StoredIsNotClosed, DialledAlone
  <2>3. NoLeak'
    BY <1>8 DEF Drop, TypeOK, StoredIsNotClosed, NoLeak, DialledAlone
  <2>4. DialledAlone'
    BY <1>8 DEF Drop, TypeOK, StoredIsNotClosed, DialledAlone
  <2>5. UsedIsStoredOrClosed'
    BY <1>8 DEF Drop, TypeOK, StoredIsNotClosed, DialledAlone, UsedIsStoredOrClosed
  <2> QED
    BY <2>1, <2>2, <2>3, <2>4, <2>5
<1>9. ASSUME NEW p \in Callers, SessionEnds(p) PROVE PoolInv'
  <2>1. TypeOK'
    BY <1>9 DEF SessionEnds, Return, TypeOK, StoredIsNotClosed
  <2>2. StoredIsNotClosed'
    BY <1>9 DEF SessionEnds, Return, TypeOK, StoredIsNotClosed, DialledAlone
  <2>3. NoLeak'
    BY <1>9 DEF SessionEnds, Return, TypeOK, StoredIsNotClosed, NoLeak, DialledAlone
  <2>4. DialledAlone'
    BY <1>9 DEF SessionEnds, Return, TypeOK, StoredIsNotClosed, DialledAlone
  <2>5. UsedIsStoredOrClosed'
    BY <1>9 DEF SessionEnds, Return, TypeOK, StoredIsNotClosed, DialledAlone, UsedIsStoredOrClosed
  <2> QED
    BY <2>1, <2>2, <2>3, <2>4, <2>5
<1>10. ASSUME NEW c \in Clients, LinkBreaks(c) PROVE PoolInv'
  <2>1. TypeOK'
    BY <1>10 DEF LinkBreaks, TypeOK, StoredIsNotClosed
  <2>2. StoredIsNotClosed'
    BY <1>10 DEF LinkBreaks, TypeOK, StoredIsNotClosed, DialledAlone
  <2>3. NoLeak'
    BY <1>10 DEF LinkBreaks, TypeOK, StoredIsNotClosed, NoLeak, DialledAlone
  <2>4. DialledAlone'
    BY <1>10 DEF LinkBreaks, TypeOK, StoredIsNotClosed, DialledAlone
  <2>5. UsedIsStoredOrClosed'
    BY <1>10 DEF LinkBreaks, TypeOK, StoredIsNotClosed, DialledAlone, UsedIsStoredOrClosed
  <2> QED
    BY <2>1, <2>2, <2>3, <2>4, <2>5
<1>11. CASE Close
  <2>1. TypeOK'
    BY <1>11 DEF Close, TypeOK, StoredIsNotClosed
  <2>2. StoredIsNotClosed'
    BY <1>11 DEF Close, TypeOK, StoredIsNotClosed, DialledAlone
  <2>3. NoLeak'
    BY <1>11 DEF Close, TypeOK, StoredIsNotClosed, NoLeak, DialledAlone
  <2>4. DialledAlone'
    BY <1>11 DEF Close, TypeOK, StoredIsNotClosed, DialledAlone
  <2>5. UsedIsStoredOrClosed'
    BY <1>11 DEF Close, TypeOK, StoredIsNotClosed, DialledAlone, UsedIsStoredOrClosed
  <2> QED
    BY <2>1, <2>2, <2>3, <2>4, <2>5
<1>12. CASE UNCHANGED vars
  BY <1>12 DEF vars, TypeOK, StoredIsNotClosed, NoLeak, DialledAlone, UsedIsStoredOrClosed
<1> QED
  BY <1>1, <1>2, <1>3, <1>4, <1>5, <1>6, <1>7, <1>8, <1>9, <1>10, <1>11, <1>12 DEF Next

(* Type correctness; a call that uses a connection has one.                   *)
THEOREM TypeCorrect == Spec => []TypeOK
<1>1. PoolInv => TypeOK
  BY DEF PoolInv
<1> QED
  BY PoolInit, PoolStep, <1>1, PTL DEF Spec

(* However lookups, dials, stores, drops and Close interleave (pool.go        *)
(* getOrDial, dropClient, Close), no connection is left that nobody closes.   *)
THEOREM NothingLeaks == Spec => []NoLeak
<1>1. PoolInv => NoLeak
  BY DEF PoolInv
<1> QED
  BY PoolInit, PoolStep, <1>1, PTL DEF Spec

(* The map never holds a connection that was closed.                          *)
THEOREM StoredNotClosed == Spec => []StoredIsNotClosed
<1>1. PoolInv => StoredIsNotClosed
  BY DEF PoolInv
<1> QED
  BY PoolInit, PoolStep, <1>1, PTL DEF Spec

(* The second attempt of a call never gets the connection the first gave up.  *)
THEOREM RetriesMoveOn == Spec => RetryMovesOn
<1> DEFINE Moves == \A p \in Callers :
                      retried[p] /\ pc[p] = "lookup" /\ pc'[p] = "session" => held'[p] # held[p]
<1>1. PoolInv /\ [Next]_vars => [Moves]_vars
  <2> SUFFICES ASSUME PoolInv, Next, NEW p \in Callers, retried[p], pc[p] = "lookup",
                      pc'[p] = "session"
               PROVE  held'[p] # held[p]
    BY DEF vars
  <2>1. state[held[p]] = "closed"
    BY DEF PoolInv, UsedIsStoredOrClosed
  <2>2. Lookup(p)
    BY DEF Next, Call, Lookup, DialOk, DialFails, Store, SessionOpens, SessionFails, Drop,
         SessionEnds, Return, LinkBreaks, Close, PoolInv, TypeOK
  <2>3. stored # None /\ held'[p] = stored
    BY <2>2 DEF Lookup, PoolInv, TypeOK
  <2> QED
    BY <2>1, <2>3 DEF PoolInv, StoredIsNotClosed
<1> QED
  BY PoolInit, PoolStep, <1>1, PTL DEF Spec, RetryMovesOn
=============================================================================
