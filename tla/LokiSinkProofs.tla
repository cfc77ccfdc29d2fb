---------------------------- MODULE LokiSinkProofs ----------------------------
(***************************************************************************)
(* Proofs about LokiSink, for every set of streams, sessions and flushing   *)
(* goroutines and every batch limit.  The inductive invariant says, of each *)
(* stream two flushes never held at once, what a running flush may rely on: *)
(* the lines it copied are still the front of the buffer until it drops     *)
(* them, and the byte count it read is the count of exactly those lines.    *)
(***************************************************************************)
EXTENDS LokiSink, FiniteSetTheorems, TLAPS

(* What each goroutine's position in Flush says of its local variables.     *)
Control(f) ==
  /\ pc[f] \in {"idle", "flush"} => \A k \in Streams : ~ Attempted(f, k)
  /\ pc[f] # "cursors" => bumps[f] = {} /\ upserting[f] = {}
  /\ \A k \in Streams :
       k \in upserting[f] => upserting[f] = {k} /\ k \notin bumps[f]
  /\ \A k \in Streams : k \in bumps[f] \cup upserting[f] => Attempted(f, k)

ControlOK == \A f \in Flushers : Control(f)

Clean == Streams \ overlapped

BufferOK == \A k \in Streams : head[k] <= received[k]

(* A flush that holds a clean stream copied the front of its buffer, and no  *)
(* other flush holds it.                                                     *)
HeldOK ==
  \A k \in Clean : \A f \in Flushers : Holds(f, k) =>
    /\ attempts[f][k].from = head[k]
    /\ attempts[f][k].to <= received[k]
    /\ attempts[f][k].bytes = attempts[f][k].to - attempts[f][k].from
    /\ \A g \in Flushers \ {f} : ~ Holds(g, k)

PushedOK ==
  \A k \in Streams : \A f \in Flushers :
    pc[f] = "drop" /\ Attempted(f, k) => Lines(attempts[f][k]) \subseteq loki[k]

(* A flush whose cursor update for k is still to come or under way.           *)
Pending(f, k) == pc[f] = "cursors" /\ k \in bumps[f] \cup upserting[f]

(* The lines dropped from the buffer whose cursor update is over.             *)
Settled(k) ==
  (1 .. head[k]) \ UNION {Lines(attempts[f][k]) : f \in {g \in Flushers : Pending(g, k)}}

(* Pending updates of a clean stream are about separate runs of lines.        *)
PendingOK ==
  \A k \in Clean : \A f \in Flushers : Pending(f, k) =>
    /\ attempts[f][k].to <= head[k]
    /\ attempts[f][k].bytes = attempts[f][k].to - attempts[f][k].from
    /\ \A g \in Flushers \ {f} :
         Pending(g, k) => Lines(attempts[f][k]) \cap Lines(attempts[g][k]) = {}

(* From the row a stream started with, the cursor, and each value of it a     *)
(* flush is about to add to, counts settled lines only.                       *)
CursorFrom(base) ==
  \A k \in Clean :
    /\ cursor[k] \in 0 .. (base[k] + Cardinality(Settled(k)))
    /\ \A f \in Flushers :
         k \in upserting[f] => prevOff[f] \in 0 .. (base[k] + Cardinality(Settled(k)))

NoRow == [k \in Streams |-> 0]

BufferInv ==
  /\ TypeOK
  /\ ControlOK
  /\ BufferOK
  /\ HeldOK
  /\ PushedOK
  /\ DroppedLinesAreStored
  /\ BytesMatchBuffer

SinkInv(base) == BufferInv /\ PendingOK /\ CursorFrom(base)

(* A sink that has received nothing yet, whatever rows it finds.              *)
Fresh ==
  /\ received = [k \in Streams |-> 0]
  /\ head = [k \in Streams |-> 0]
  /\ bytes = [k \in Streams |-> 0]
  /\ loki = [k \in Streams |-> {}]
  /\ pc = [f \in Flushers |-> "idle"]
  /\ attempts = [f \in Flushers |-> NoAttempts]
  /\ bumps = [f \in Flushers |-> {}]
  /\ upserting = [f \in Flushers |-> {}]
  /\ prevOff = [f \in Flushers |-> 0]
  /\ overlapped \in SUBSET Streams
  /\ cursor \in [Streams -> Int]

-----------------------------------------------------------------------------
(* The initial state is a fresh one, and a fresh one is well-typed.          *)
LEMMA InitFresh == Init => Fresh
  BY DEF Init, Fresh

LEMMA FreshTypeOK == Fresh => TypeOK
  BY DEF Fresh, TypeOK, NoAttempts, NoAttempt

(* No step of the sink leaves the types.                                     *)
LEMMA NextTypeOK == TypeOK /\ [Next]_vars => TypeOK'
<1> SUFFICES ASSUME TypeOK, [Next]_vars PROVE TypeOK'
  OBVIOUS
<1> USE SinkAssumption DEF TypeOK, Flushers
<1>1. ASSUME NEW k \in Streams, OnLine(k) PROVE TypeOK'
  BY <1>1 DEF OnLine
<1>2. ASSUME NEW s \in Sessions, NothingToFlush(s) PROVE TypeOK'
  BY <1>2 DEF NothingToFlush
<1>3. ASSUME NEW f \in Flushers, Snapshot(f) PROVE TypeOK'
  <2>1. \A k \in Streams : SnapshotOf(k) \in [from : Nat, to : Nat, bytes : Int]
    BY DEF SnapshotOf, NoAttempt
  <2>2. [k \in Streams |-> SnapshotOf(k)]
          \in [Streams -> [from : Nat, to : Nat, bytes : Int]]
    BY <2>1
  <2>3. attempts' \in [Flushers -> [Streams -> [from : Nat, to : Nat, bytes : Int]]]
    BY <1>3, <2>2 DEF Snapshot
  <2>4. pc' \in [Flushers -> {"idle", "flush", "push", "drop", "cursors"}]
    BY <1>3 DEF Snapshot
  <2>5. overlapped' \in SUBSET Streams
    BY <1>3 DEF Snapshot
  <2> QED
    BY <1>3, <2>3, <2>4, <2>5 DEF Snapshot
<1>4. ASSUME NEW f \in Flushers, PushOk(f) PROVE TypeOK'
  BY <1>4 DEF PushOk, Lines
<1>5. ASSUME NEW f \in Flushers, PushFailed(f) PROVE TypeOK'
  <2>1. NoAttempts \in [Streams -> [from : Nat, to : Nat, bytes : Int]]
    BY DEF NoAttempts, NoAttempt
  <2>2. attempts' \in [Flushers -> [Streams -> [from : Nat, to : Nat, bytes : Int]]]
    BY <1>5, <2>1 DEF PushFailed
  <2>3. loki' \in [Streams -> SUBSET Nat]
    BY <1>5 DEF PushFailed, Lines
  <2> QED
    BY <1>5, <2>2, <2>3 DEF PushFailed
<1>6. ASSUME NEW f \in Flushers, Drop(f) PROVE TypeOK'
  <2>1. \A k \in Streams : Attempted(f, k) => HeadAfterDrop(f, k) \in Nat
    BY DEF Attempted, HeadAfterDrop, Buffered
  <2>2. \A k \in Streams : BytesAfterDrop(f, k) \in Int
    BY DEF BytesAfterDrop
  <2>3. head' \in [Streams -> Nat] /\ bytes' \in [Streams -> Int]
    BY <1>6, <2>1, <2>2 DEF Drop
  <2>4. bumps' \in [Flushers -> SUBSET Streams]
    BY <1>6 DEF Drop, BumpsAfterDrop
  <2>5. pc' \in [Flushers -> {"idle", "flush", "push", "drop", "cursors"}]
    BY <1>6 DEF Drop
  <2> QED
    BY <1>6, <2>3, <2>4, <2>5 DEF Drop
<1>7. ASSUME NEW f \in Flushers, FlushReturns(f) PROVE TypeOK'
  <2>1. NoAttempts \in [Streams -> [from : Nat, to : Nat, bytes : Int]]
    BY DEF NoAttempts, NoAttempt
  <2>2. attempts' \in [Flushers -> [Streams -> [from : Nat, to : Nat, bytes : Int]]]
    BY <1>7, <2>1 DEF FlushReturns
  <2> QED
    BY <1>7, <2>2 DEF FlushReturns
<1>8. ASSUME NEW f \in Flushers, NEW k \in Streams, ReadCursor(f, k) PROVE TypeOK'
  BY <1>8 DEF ReadCursor
<1>9. ASSUME NEW f \in Flushers, NEW k \in Streams, SkipCursor(f, k) PROVE TypeOK'
  BY <1>9 DEF SkipCursor
<1>10. ASSUME NEW f \in Flushers, NEW k \in Streams, UpsertCursor(f, k) PROVE TypeOK'
  BY <1>10 DEF UpsertCursor
<1>11. CASE UNCHANGED vars
  BY <1>11 DEF vars
<1> QED
  BY <1>1, <1>2, <1>3, <1>4, <1>5, <1>6, <1>7, <1>8, <1>9, <1>10, <1>11 DEF Next

(* Type correctness of the sink.                                             *)
THEOREM TypeCorrect == Spec => []TypeOK
<1>1. Init => TypeOK
  BY InitFresh, FreshTypeOK
<1>2. TypeOK /\ [Next]_vars => TypeOK'
  BY NextTypeOK
<1> QED
  BY <1>1, <1>2, PTL DEF Spec

-----------------------------------------------------------------------------
(* The empty sink satisfies the buffer invariant.                            *)
LEMMA FreshBufferInv == Fresh => BufferInv
<1> SUFFICES ASSUME Fresh PROVE BufferInv
  OBVIOUS
<1>1. TypeOK
  BY FreshTypeOK
<1>2. \A f \in Flushers, k \in Streams : ~ Attempted(f, k)
  BY DEF Fresh, Attempted, NoAttempts, NoAttempt
<1>3. ControlOK
  BY <1>2 DEF Fresh, ControlOK, Control
<1>4. BufferOK /\ BytesMatchBuffer /\ DroppedLinesAreStored
  BY DEF Fresh, BufferOK, BytesMatchBuffer, DroppedLinesAreStored, Buffered
<1>5. HeldOK /\ PushedOK
  BY DEF Fresh, HeldOK, PushedOK, Holds, Clean
<1> QED
  BY <1>1, <1>3, <1>4, <1>5 DEF BufferInv

(* One step keeps the buffers, the byte counts and the running flushes in    *)
(* agreement.                                                                *)
LEMMA NextBufferInv == BufferInv /\ [Next]_vars => BufferInv'
<1> SUFFICES ASSUME BufferInv, [Next]_vars PROVE BufferInv'
  OBVIOUS
<1> USE SinkAssumption DEF Flushers
<1>t. TypeOK /\ TypeOK'
  BY NextTypeOK DEF BufferInv
<1>1. ASSUME NEW k \in Streams, OnLine(k) PROVE BufferInv'
  <2>1. ControlOK'
    BY <1>1, <1>t DEF OnLine, BufferInv, TypeOK, ControlOK, Control, Attempted
  <2>2. BufferOK' /\ BytesMatchBuffer' /\ DroppedLinesAreStored'
    BY <1>1, <1>t DEF OnLine, BufferInv, TypeOK, BufferOK, BytesMatchBuffer,
                      DroppedLinesAreStored, Buffered
  <2>3. HeldOK' /\ PushedOK'
    BY <1>1, <1>t DEF OnLine, BufferInv, TypeOK, HeldOK, PushedOK, Holds, Attempted,
                      Clean
  <2> QED
    BY <1>t, <2>1, <2>2, <2>3 DEF BufferInv
<1>2. ASSUME NEW s \in Sessions, NothingToFlush(s) PROVE BufferInv'
  <2>1. ControlOK'
    BY <1>2, <1>t DEF NothingToFlush, BufferInv, TypeOK, ControlOK, Control, Attempted
  <2>2. BufferOK' /\ BytesMatchBuffer' /\ DroppedLinesAreStored'
    BY <1>2 DEF NothingToFlush, BufferInv, BufferOK, BytesMatchBuffer,
                DroppedLinesAreStored, Buffered
  <2>3. HeldOK' /\ PushedOK'
    BY <1>2, <1>t DEF NothingToFlush, BufferInv, TypeOK, HeldOK, PushedOK, Holds,
                      Attempted, Clean
  <2> QED
    BY <1>t, <2>1, <2>2, <2>3 DEF BufferInv
<1>3. ASSUME NEW f \in Flushers, Snapshot(f) PROVE BufferInv'
  <2>1. ControlOK'
    BY <1>3, <1>t DEF Snapshot, BufferInv, TypeOK, ControlOK, Control, Attempted
  <2>2. BufferOK' /\ BytesMatchBuffer' /\ DroppedLinesAreStored'
    BY <1>3 DEF Snapshot, BufferInv, BufferOK, BytesMatchBuffer,
                DroppedLinesAreStored, Buffered
  <2>3. PushedOK'
    BY <1>3, <1>t DEF Snapshot, BufferInv, TypeOK, PushedOK, Attempted
  <2>4. HeldOK'
    BY <1>3, <1>t DEF Snapshot, BufferInv, TypeOK, HeldOK, Holds, Attempted, Clean,
                      BytesMatchBuffer, BufferOK, SnapshotOf, Buffered, NoAttempt
  <2> QED
    BY <1>t, <2>1, <2>2, <2>3, <2>4 DEF BufferInv
<1>4. ASSUME NEW f \in Flushers, PushOk(f) PROVE BufferInv'
  <2>1. ControlOK'
    BY <1>4, <1>t DEF PushOk, BufferInv, TypeOK, ControlOK, Control, Attempted
  <2>2. BufferOK' /\ BytesMatchBuffer' /\ DroppedLinesAreStored'
    BY <1>4 DEF PushOk, BufferInv, BufferOK, BytesMatchBuffer,
                DroppedLinesAreStored, Buffered
  <2>3. HeldOK' /\ PushedOK'
    BY <1>4, <1>t DEF PushOk, BufferInv, TypeOK, HeldOK, PushedOK, Holds,
                      Attempted, Clean
  <2> QED
    BY <1>t, <2>1, <2>2, <2>3 DEF BufferInv
<1>5. ASSUME NEW f \in Flushers, PushFailed(f) PROVE BufferInv'
  <2>1. ControlOK'
    BY <1>5, <1>t DEF PushFailed, BufferInv, TypeOK, ControlOK, Control, Attempted,
                      NoAttempts, NoAttempt
  <2>2. BufferOK' /\ BytesMatchBuffer' /\ DroppedLinesAreStored'
    BY <1>5 DEF PushFailed, BufferInv, BufferOK, BytesMatchBuffer,
                DroppedLinesAreStored, Buffered
  <2>3. HeldOK' /\ PushedOK'
    BY <1>5, <1>t DEF PushFailed, BufferInv, TypeOK, HeldOK, PushedOK, Holds,
                      Attempted, Clean, NoAttempts, NoAttempt
  <2> QED
    BY <1>t, <2>1, <2>2, <2>3 DEF BufferInv
<1>6. ASSUME NEW f \in Flushers, Drop(f) PROVE BufferInv'
  <2>1. ControlOK'
    BY <1>6, <1>t DEF Drop, BufferInv, TypeOK, ControlOK, Control, Attempted,
                      BumpsAfterDrop
  <2>2. BufferOK'
    BY <1>6, <1>t DEF Drop, BufferInv, TypeOK, BufferOK, Buffered, HeadAfterDrop,
                      Attempted
  <2>3. ASSUME NEW k \in Clean, Attempted(f, k)
        PROVE  /\ head'[k] = attempts[f][k].to
               /\ bytes'[k] = bytes[k] - (attempts[f][k].to - attempts[f][k].from)
               /\ attempts[f][k].from = head[k]
    <3> k \in Streams
      BY DEF Clean
    <3>1. /\ attempts[f][k].from = head[k]
          /\ attempts[f][k].to <= received[k]
          /\ attempts[f][k].bytes = attempts[f][k].to - attempts[f][k].from
      BY <1>6, <2>3 DEF Drop, BufferInv, HeldOK, Holds
    <3>2. /\ attempts[f][k].from \in Nat /\ attempts[f][k].to \in Nat
          /\ head[k] \in Nat /\ received[k] \in Nat
          /\ attempts[f][k].from < attempts[f][k].to
      BY <1>t, <2>3 DEF TypeOK, Attempted
    <3>3. HeadAfterDrop(f, k) = attempts[f][k].to
      BY <3>1, <3>2 DEF HeadAfterDrop, Buffered
    <3>4. BytesAfterDrop(f, k) = bytes[k] - (attempts[f][k].to - attempts[f][k].from)
      BY <3>1, <3>2 DEF BytesAfterDrop
    <3> QED
      BY <1>6, <2>3, <3>1, <3>3, <3>4 DEF Drop
  <2>4. BytesMatchBuffer' /\ DroppedLinesAreStored'
    BY <1>6, <1>t, <2>3 DEF Drop, BufferInv, TypeOK, BytesMatchBuffer, Buffered, Lines,
                            DroppedLinesAreStored, PushedOK, Clean, Attempted
  <2>5. HeldOK' /\ PushedOK'
    BY <1>6, <1>t DEF Drop, BufferInv, TypeOK, HeldOK, PushedOK, Holds, Attempted, Clean
  <2> QED
    BY <1>t, <2>1, <2>2, <2>4, <2>5 DEF BufferInv
<1>7. ASSUME NEW f \in Flushers, FlushReturns(f) PROVE BufferInv'
  <2>1. ControlOK'
    BY <1>7, <1>t DEF FlushReturns, BufferInv, TypeOK, ControlOK, Control, Attempted,
                      NoAttempts, NoAttempt
  <2>2. BufferOK' /\ BytesMatchBuffer' /\ DroppedLinesAreStored'
    BY <1>7 DEF FlushReturns, BufferInv, BufferOK, BytesMatchBuffer,
                DroppedLinesAreStored, Buffered
  <2>3. HeldOK' /\ PushedOK'
    BY <1>7, <1>t DEF FlushReturns, BufferInv, TypeOK, HeldOK, PushedOK, Holds,
                      Attempted, Clean, NoAttempts, NoAttempt
  <2> QED
    BY <1>t, <2>1, <2>2, <2>3 DEF BufferInv
<1>8. ASSUME NEW f \in Flushers, NEW k \in Streams,
             ReadCursor(f, k) \/ SkipCursor(f, k) \/ UpsertCursor(f, k)
      PROVE  BufferInv'
  <2>1. ControlOK'
    BY <1>8, <1>t DEF ReadCursor, SkipCursor, UpsertCursor, BufferInv, TypeOK,
                      ControlOK, Control, Attempted
  <2>2. BufferOK' /\ BytesMatchBuffer' /\ DroppedLinesAreStored'
    BY <1>8 DEF ReadCursor, SkipCursor, UpsertCursor, BufferInv, BufferOK,
                BytesMatchBuffer, DroppedLinesAreStored, Buffered
  <2>3. HeldOK' /\ PushedOK'
    BY <1>8 DEF ReadCursor, SkipCursor, UpsertCursor, BufferInv, HeldOK, PushedOK,
                Holds, Attempted, Clean
  <2> QED
    BY <1>t, <2>1, <2>2, <2>3 DEF BufferInv
<1>9. CASE UNCHANGED vars
  BY <1>9, <1>t DEF vars, BufferInv, ControlOK, Control, BufferOK, HeldOK, PushedOK,
               Holds, Attempted, Clean, BytesMatchBuffer, DroppedLinesAreStored, Buffered
<1> QED
  BY <1>1, <1>2, <1>3, <1>4, <1>5, <1>6, <1>7, <1>8, <1>9 DEF Next

-----------------------------------------------------------------------------
(* The settled lines are a finite set of naturals, so they can be counted.   *)
LEMMA SettledFinite ==
  ASSUME TypeOK, NEW k \in Streams
  PROVE  IsFiniteSet(Settled(k)) /\ Cardinality(Settled(k)) \in Nat
<1>1. IsFiniteSet(1 .. head[k])
  BY FS_Interval DEF TypeOK
<1>2. IsFiniteSet(Settled(k))
  BY <1>1, FS_Subset DEF Settled
<1> QED
  BY <1>2, FS_CardinalityType

(* A step that leaves the head and the pending updates of a stream alone     *)
(* leaves its settled lines alone.                                           *)
LEMMA SettledUnchanged ==
  ASSUME NEW k \in Streams, head'[k] = head[k],
         \A g \in Flushers : Pending(g, k)' <=> Pending(g, k),
         \A g \in Flushers : Pending(g, k) => attempts'[g][k] = attempts[g][k]
  PROVE  Settled(k)' = Settled(k)
<1>1. \A n : (\E g \in Flushers : Pending(g, k)' /\ n \in Lines(attempts'[g][k]))
              <=> (\E g \in Flushers : Pending(g, k) /\ n \in Lines(attempts[g][k]))
  OBVIOUS
<1>2. UNION {Lines(attempts'[g][k]) : g \in {h \in Flushers : Pending(h, k)'}}
        = UNION {Lines(attempts[g][k]) : g \in {h \in Flushers : Pending(h, k)}}
  BY <1>1
<1> QED
  BY <1>2 DEF Settled, Flushers, Lines

(* When a pending update ends, its lines become settled, and they were not.  *)
LEMMA SettledGrows ==
  ASSUME BufferInv, PendingOK, NEW k \in Clean, NEW f \in Flushers,
         Pending(f, k), ~ Pending(f, k)',
         head'[k] = head[k], attempts' = attempts,
         \A g \in Flushers \ {f} : Pending(g, k)' <=> Pending(g, k),
         TypeOK'
  PROVE  Cardinality(Settled(k)') = Cardinality(Settled(k)) + attempts[f][k].bytes
<1> k \in Streams
  BY DEF Clean
<1> DEFINE a == attempts[f][k]
<1>1. /\ a.from \in Nat /\ a.to \in Nat /\ a.from < a.to
      /\ a.to <= head[k] /\ a.bytes = a.to - a.from
      /\ head[k] \in Nat
  BY DEF BufferInv, TypeOK, ControlOK, Control, Pending, Attempted, PendingOK
<1>2. Lines(a) \subseteq 1 .. head[k]
  BY <1>1 DEF Lines
<1>3. \A g \in Flushers \ {f} :
        Pending(g, k) => Lines(a) \cap Lines(attempts[g][k]) = {}
  BY DEF PendingOK
<1>4. Settled(k)' = Settled(k) \cup Lines(a)
  <2>1. \A n : n \in Settled(k)' <=>
               /\ n \in 1 .. head[k]
               /\ \A g \in Flushers : Pending(g, k)' => n \notin Lines(attempts[g][k])
    BY DEF Settled, Flushers, Lines
  <2>2. \A n : n \in Settled(k) <=>
               /\ n \in 1 .. head[k]
               /\ \A g \in Flushers : Pending(g, k) => n \notin Lines(attempts[g][k])
    BY DEF Settled
  <2>3. \A n : n \in Lines(a) => \A g \in Flushers \ {f} :
               Pending(g, k) => n \notin Lines(attempts[g][k])
    BY <1>3
  <2> HIDE DEF a
  <2> QED
    BY <1>2, <2>1, <2>2, <2>3 DEF a
<1>5. Settled(k) \cap Lines(a) = {}
  BY DEF Settled
<1>6. IsFiniteSet(Lines(a)) /\ Cardinality(Lines(a)) = a.to - a.from
  <2>1. a.from + 1 \in Int /\ a.to \in Int /\ ~ (a.from + 1 > a.to)
    BY <1>1
  <2>2. /\ IsFiniteSet((a.from + 1) .. a.to)
        /\ Cardinality((a.from + 1) .. a.to) = a.to - (a.from + 1) + 1
    BY <2>1, FS_Interval
  <2> QED
    BY <1>1, <2>2 DEF Lines
<1>7. IsFiniteSet(Settled(k)) /\ Cardinality(Settled(k)) \in Nat
  BY SettledFinite DEF BufferInv
<1>8. Cardinality({}) = 0
  BY FS_EmptySet
<1>9. Cardinality(Settled(k) \cup Lines(a))
        = Cardinality(Settled(k)) + Cardinality(Lines(a)) - Cardinality({})
  BY <1>5, <1>6, <1>7, FS_Union
<1> QED
  BY <1>1, <1>4, <1>6, <1>7, <1>8, <1>9

-----------------------------------------------------------------------------
(* A fresh sink satisfies the whole invariant, from the rows it finds.       *)
LEMMA FreshSinkInv ==
  ASSUME NEW base \in [Streams -> Int]
  PROVE  Fresh /\ (\A k \in Clean : base[k] >= 0 /\ cursor[k] = base[k]) => SinkInv(base)
<1> SUFFICES ASSUME Fresh, \A k \in Clean : base[k] >= 0 /\ cursor[k] = base[k]
             PROVE  SinkInv(base)
  OBVIOUS
<1>1. BufferInv
  BY FreshBufferInv
<1>2. \A f \in Flushers, k \in Streams : ~ Pending(f, k) /\ k \notin upserting[f]
  BY DEF Fresh, Pending
<1>3. PendingOK
  BY <1>2 DEF PendingOK, Clean
<1>4. CursorFrom(base)
  <2> SUFFICES ASSUME NEW k \in Clean
               PROVE  cursor[k] \in 0 .. (base[k] + Cardinality(Settled(k)))
    BY <1>2 DEF CursorFrom, Clean
  <2>1. k \in Streams
    BY DEF Clean
  <2>2. base[k] \in Int /\ base[k] >= 0 /\ cursor[k] = base[k]
    BY <2>1
  <2>3. Cardinality(Settled(k)) \in Nat
    BY <1>1, <2>1, SettledFinite DEF BufferInv
  <2> QED
    BY <2>2, <2>3
<1> QED
  BY <1>1, <1>3, <1>4 DEF SinkInv

(* A cursor that counts from one row counts from every later one.             *)
LEMMA LaterRow ==
  ASSUME NEW base \in [Streams -> Int], NEW later \in [Streams -> Int],
         \A k \in Streams : base[k] <= later[k]
  PROVE  SinkInv(base) => SinkInv(later)
<1> SUFFICES ASSUME SinkInv(base) PROVE CursorFrom(later)
  BY DEF SinkInv
<1> SUFFICES ASSUME NEW k \in Clean
             PROVE  0 .. (base[k] + Cardinality(Settled(k)))
                      \subseteq 0 .. (later[k] + Cardinality(Settled(k)))
  BY DEF SinkInv, CursorFrom
<1>1. k \in Streams
  BY DEF Clean
<1>2. Cardinality(Settled(k)) \in Nat
  BY <1>1, SettledFinite DEF SinkInv, BufferInv
<1>3. base[k] \in Int /\ later[k] \in Int /\ base[k] <= later[k]
  BY <1>1
<1> QED
  BY <1>2, <1>3

(* Steps that touch neither a cursor nor a pending update.                   *)
LEMMA QuietStep ==
  ASSUME NEW base, SinkInv(base), overlapped \subseteq overlapped', head' = head, cursor' = cursor,
         \A g \in Flushers, k \in Streams : Pending(g, k)' <=> Pending(g, k),
         \A g \in Flushers, k \in Streams :
           Pending(g, k) => attempts'[g][k] = attempts[g][k],
         \A g \in Flushers, k \in Streams :
           k \in upserting'[g] => \/ k \in upserting[g] /\ prevOff'[g] = prevOff[g]
                                 \/ prevOff'[g] = cursor[k]
  PROVE  PendingOK' /\ CursorFrom(base)'
<1>1. \A k \in Streams : Settled(k)' = Settled(k)
  BY SettledUnchanged
<1>2. Clean' \subseteq Clean /\ Clean \subseteq Streams
  BY DEF Clean
<1>3. PendingOK'
  BY <1>2 DEF SinkInv, PendingOK, Lines, Flushers
<1>4. CursorFrom(base)'
  BY <1>1, <1>2 DEF SinkInv, CursorFrom, Flushers
<1> QED
  BY <1>3, <1>4

(* One step keeps the cursors behind what is settled.                        *)
LEMMA NextSinkInv ==
  ASSUME NEW base \in [Streams -> Int], SinkInv(base), [Next]_vars
  PROVE  SinkInv(base)'
<1> USE DEF Flushers
<1>b. BufferInv /\ BufferInv'
  BY NextBufferInv DEF SinkInv
<1>t. TypeOK /\ TypeOK' /\ ControlOK
  BY <1>b DEF BufferInv
<1>1. ASSUME NEW k \in Streams, OnLine(k) PROVE SinkInv(base)'
  <2>1. \A g \in Flushers, l \in Streams : Pending(g, l)' <=> Pending(g, l)
    BY <1>1, <1>t, SinkAssumption DEF OnLine, Pending, TypeOK
  <2> QED
    BY <1>1, <1>b, <2>1, QuietStep DEF OnLine, SinkInv
<1>2. ASSUME NEW s \in Sessions, NothingToFlush(s) PROVE SinkInv(base)'
  <2>1. \A g \in Flushers, l \in Streams : Pending(g, l)' <=> Pending(g, l)
    BY <1>2, <1>t DEF NothingToFlush, Pending, TypeOK
  <2> QED
    BY <1>2, <1>b, <2>1, QuietStep DEF NothingToFlush, SinkInv
<1>3. ASSUME NEW f \in Flushers, Snapshot(f) PROVE SinkInv(base)'
  <2>1. \A g \in Flushers, l \in Streams :
          /\ Pending(g, l)' <=> Pending(g, l)
          /\ Pending(g, l) => attempts'[g][l] = attempts[g][l]
    BY <1>3, <1>t DEF Snapshot, Pending, TypeOK
  <2> QED
    BY <1>3, <1>b, <2>1, QuietStep DEF Snapshot, SinkInv
<1>4. ASSUME NEW f \in Flushers, PushOk(f) \/ PushFailed(f) PROVE SinkInv(base)'
  <2>1. \A g \in Flushers, l \in Streams :
          /\ Pending(g, l)' <=> Pending(g, l)
          /\ Pending(g, l) => attempts'[g][l] = attempts[g][l]
    BY <1>4, <1>t DEF PushOk, PushFailed, Pending, TypeOK
  <2> QED
    BY <1>4, <1>b, <2>1, QuietStep DEF PushOk, PushFailed, SinkInv
<1>5. ASSUME NEW f \in Flushers, Drop(f) PROVE SinkInv(base)'
  <2>1. /\ pc'[f] = "cursors" /\ pc[f] = "drop"
        /\ attempts' = attempts /\ cursor' = cursor /\ Clean' = Clean
        /\ upserting' = upserting /\ prevOff' = prevOff
        /\ bumps'[f] = BumpsAfterDrop(f) /\ bumps[f] = {} /\ upserting[f] = {}
        /\ \A g \in Flushers \ {f} : pc'[g] = pc[g] /\ bumps'[g] = bumps[g]
    BY <1>5, <1>t DEF Drop, TypeOK, Clean, ControlOK, Control
  <2>2. \A g \in Flushers \ {f}, l \in Streams : Pending(g, l)' <=> Pending(g, l)
    BY <2>1 DEF Pending
  <2>3. \A l \in Streams : ~ Pending(f, l) /\ (Pending(f, l)' => Attempted(f, l))
    BY <2>1 DEF Pending, BumpsAfterDrop
  <2>4. ASSUME NEW l \in Clean, Attempted(f, l)
        PROVE  /\ Pending(f, l)'
               /\ attempts[f][l].from = head[l] /\ head'[l] = attempts[f][l].to
               /\ attempts[f][l].bytes = attempts[f][l].to - attempts[f][l].from
               /\ attempts[f][l].from \in Nat /\ attempts[f][l].to \in Nat
               /\ attempts[f][l].from < attempts[f][l].to
    <3>1. l \in Streams
      BY DEF Clean
    <3>2. /\ attempts[f][l].from = head[l]
          /\ attempts[f][l].to <= received[l]
          /\ attempts[f][l].bytes = attempts[f][l].to - attempts[f][l].from
      BY <2>1, <2>4, <1>b DEF BufferInv, HeldOK, Holds
    <3>3. /\ attempts[f][l].from \in Nat /\ attempts[f][l].to \in Nat
          /\ head[l] \in Nat /\ received[l] \in Nat
          /\ attempts[f][l].from < attempts[f][l].to
      BY <1>t, <2>4, <3>1 DEF TypeOK, Attempted
    <3>4. HeadAfterDrop(f, l) = attempts[f][l].to
      BY <3>2, <3>3 DEF HeadAfterDrop, Buffered
    <3>5. l \in BumpsAfterDrop(f)
      BY <2>4, <3>1, <3>2, <3>3 DEF BumpsAfterDrop
    <3> QED
      BY <1>5, <2>1, <2>4, <3>1, <3>2, <3>3, <3>4, <3>5 DEF Drop, Pending
  <2>5. ASSUME NEW l \in Clean, ~ Attempted(f, l)
        PROVE  head'[l] = head[l] /\ ~ Pending(f, l)'
    BY <1>5, <2>3, <2>5 DEF Drop, Clean
  <2>6. \A l \in Clean : Settled(l)' = Settled(l)
    <3> SUFFICES ASSUME NEW l \in Clean PROVE Settled(l)' = Settled(l)
      OBVIOUS
    <3> l \in Streams
      BY DEF Clean
    <3>1. CASE ~ Attempted(f, l)
      BY <2>1, <2>2, <2>3, <2>5, <3>1, SettledUnchanged
    <3>2. CASE Attempted(f, l)
      <4>1. \A n : n \in Settled(l)' <=>
               /\ n \in 1 .. head'[l]
               /\ \A g \in Flushers : Pending(g, l)' => n \notin Lines(attempts[g][l])
        BY <2>1 DEF Settled, Lines
      <4>2. \A n : n \in Settled(l) <=>
               /\ n \in 1 .. head[l]
               /\ \A g \in Flushers : Pending(g, l) => n \notin Lines(attempts[g][l])
        BY DEF Settled
      <4>3. \A n : n \in 1 .. head[l] <=> n \in 1 .. head'[l] /\ n \notin Lines(attempts[f][l])
        BY <2>4, <3>2 DEF Lines
      <4>4. \A n : n \in Settled(l)' <=> n \in Settled(l)
        BY <2>2, <2>3, <2>4, <3>2, <4>1, <4>2, <4>3
      <4> QED
        BY <4>4
    <3> QED
      BY <3>1, <3>2
  <2>7. PendingOK'
    <3> SUFFICES ASSUME NEW l \in Clean, NEW g \in Flushers, Pending(g, l)'
                 PROVE  /\ attempts[g][l].to <= head'[l]
                        /\ attempts[g][l].bytes = attempts[g][l].to - attempts[g][l].from
                        /\ \A h \in Flushers \ {g} : Pending(h, l)' =>
                              Lines(attempts[g][l]) \cap Lines(attempts[h][l]) = {}
      BY <2>1 DEF PendingOK, Lines
    <3> l \in Streams
      BY DEF Clean
    <3>1. head[l] \in Nat /\ head'[l] \in Nat /\ head[l] <= head'[l]
      <4>1. head[l] \in Nat /\ head'[l] \in Nat
        BY <1>t DEF TypeOK
      <4>2. CASE Attempted(f, l)
        BY <2>4, <4>1, <4>2
      <4>3. CASE ~ Attempted(f, l)
        BY <2>5, <4>1, <4>3
      <4> QED
        BY <4>1, <4>2, <4>3
    <3>2. \A h \in Flushers : /\ attempts[h][l].to \in Nat
                              /\ attempts[h][l].from \in Nat
      BY <1>t DEF TypeOK
    <3>3. \A h \in Flushers \ {f} : Pending(h, l)' =>
            /\ attempts[h][l].to <= head[l]
            /\ attempts[h][l].bytes = attempts[h][l].to - attempts[h][l].from
            /\ \A i \in Flushers \ {h, f} : Pending(i, l)' =>
                  Lines(attempts[h][l]) \cap Lines(attempts[i][l]) = {}
      BY <2>2 DEF SinkInv, PendingOK
    <3>4. Pending(f, l)' => \A h \in Flushers \ {f} : Pending(h, l)' =>
            Lines(attempts[f][l]) \cap Lines(attempts[h][l]) = {}
      BY <2>4, <2>5, <3>2, <3>3 DEF Lines
    <3>5. CASE g = f
      <4>1. Attempted(f, l)
        BY <2>5, <3>5
      <4>2. /\ attempts[f][l].to <= head'[l]
            /\ attempts[f][l].bytes = attempts[f][l].to - attempts[f][l].from
        BY <2>4, <3>2, <4>1
      <4>3. Pending(f, l)'
        BY <3>5
      <4> QED
        BY <3>4, <3>5, <4>2, <4>3
    <3>6. CASE g # f
      <4>1. /\ attempts[g][l].to <= head'[l]
            /\ attempts[g][l].bytes = attempts[g][l].to - attempts[g][l].from
        BY <3>1, <3>2, <3>3, <3>6
      <4>2. ASSUME NEW h \in Flushers \ {g}, Pending(h, l)'
            PROVE  Lines(attempts[g][l]) \cap Lines(attempts[h][l]) = {}
        <5>1. CASE h = f
          BY <3>4, <3>6, <4>2, <5>1
        <5>2. CASE h # f
          BY <3>3, <3>6, <4>2, <5>2
        <5> QED
          BY <5>1, <5>2
      <4> QED
        BY <4>1, <4>2
    <3> QED
      BY <3>5, <3>6
  <2>8. CursorFrom(base)'
    BY <2>1, <2>6 DEF SinkInv, CursorFrom
  <2> QED
    BY <1>b, <2>7, <2>8 DEF SinkInv
<1>6. ASSUME NEW f \in Flushers, FlushReturns(f) PROVE SinkInv(base)'
  <2>1. \A g \in Flushers, l \in Streams :
          /\ Pending(g, l)' <=> Pending(g, l)
          /\ Pending(g, l) => attempts'[g][l] = attempts[g][l]
    BY <1>6, <1>t DEF FlushReturns, Pending, TypeOK
  <2> QED
    BY <1>6, <1>b, <2>1, QuietStep DEF FlushReturns, SinkInv
<1>7. ASSUME NEW f \in Flushers, NEW k \in Streams, ReadCursor(f, k) PROVE SinkInv(base)'
  <2>1. \A g \in Flushers, l \in Streams :
          /\ Pending(g, l)' <=> Pending(g, l)
          /\ l \in upserting'[g] => \/ l \in upserting[g] /\ prevOff'[g] = prevOff[g]
                                    \/ prevOff'[g] = cursor[l]
    BY <1>7, <1>t DEF ReadCursor, Pending, TypeOK
  <2> QED
    BY <1>7, <1>b, <2>1, QuietStep DEF ReadCursor, SinkInv
<1>8. ASSUME NEW f \in Flushers, NEW k \in Streams,
             SkipCursor(f, k) \/ UpsertCursor(f, k)
      PROVE  SinkInv(base)'
  <2>1. /\ Pending(f, k) /\ ~ Pending(f, k)'
        /\ attempts' = attempts /\ head' = head /\ Clean' = Clean
        /\ \A g \in Flushers, l \in Streams : (g # f \/ l # k) =>
              (Pending(g, l)' <=> Pending(g, l))
        /\ \A g \in Flushers, l \in Streams : l \in upserting'[g] =>
              l \in upserting[g] /\ prevOff'[g] = prevOff[g]
    BY <1>8, <1>t DEF SkipCursor, UpsertCursor, Pending, TypeOK, ControlOK, Control, Clean
  <2>2. PendingOK'
    BY <2>1 DEF SinkInv, PendingOK, Lines, Clean
  <2>3. \A l \in Clean \ {k} : Settled(l)' = Settled(l)
    BY <2>1, SettledUnchanged DEF Clean
  <2>4. k \in Clean => Cardinality(Settled(k)') = Cardinality(Settled(k)) + attempts[f][k].bytes
    BY <1>b, <1>t, <2>1, SettledGrows DEF SinkInv
  <2>5. k \in Clean => attempts[f][k].bytes > 0 /\ attempts[f][k].bytes \in Int
    BY <1>t, <2>1 DEF SinkInv, PendingOK, Pending, ControlOK, Control, Attempted, TypeOK
  <2>6. \A l \in Clean : Cardinality(Settled(l)) \in Nat
    BY <1>t, SettledFinite DEF Clean
  <2>7. \A l \in Clean : Cardinality(Settled(l)) <= Cardinality(Settled(l)')
    BY <2>3, <2>4, <2>5, <2>6
  <2>8. \A l \in Clean : Cardinality(Settled(l)') \in Nat
    BY <2>3, <2>4, <2>5, <2>6
  <2>9. \A l \in Streams :
          \/ cursor'[l] = cursor[l]
          \/ /\ l = k /\ k \in upserting[f]
             /\ cursor'[l] = prevOff[f] + attempts[f][k].bytes
    <3>1. CASE SkipCursor(f, k)
      BY <3>1 DEF SkipCursor
    <3>2. CASE UpsertCursor(f, k)
      <4>1. cursor \in [Streams -> Int]
        BY <1>t DEF TypeOK
      <4>2. k \in upserting[f]
        BY <3>2 DEF UpsertCursor
      <4>3. CASE cursor' = [cursor EXCEPT ![k] = prevOff[f] + attempts[f][k].bytes]
        BY <4>1, <4>2, <4>3
      <4>4. CASE UNCHANGED cursor
        BY <4>4
      <4> QED
        BY <3>2, <4>3, <4>4 DEF UpsertCursor
    <3> QED
      BY <1>8, <3>1, <3>2
  <2>10. \A l \in Streams : cursor[l] \in Int
    BY <1>t DEF TypeOK
  <2>11. \A g \in Flushers : prevOff[g] \in Int
    BY <1>t DEF TypeOK
  <2>12. CursorFrom(base)'
    <3> SUFFICES ASSUME NEW l \in Clean
                 PROVE  /\ cursor'[l] \in 0 .. (base[l] + Cardinality(Settled(l)'))
                        /\ \A g \in Flushers : l \in upserting'[g] =>
                              prevOff'[g] \in 0 .. (base[l] + Cardinality(Settled(l)'))
      BY <2>1 DEF CursorFrom
    <3> l \in Streams
      BY DEF Clean
    <3>1. /\ cursor[l] \in 0 .. (base[l] + Cardinality(Settled(l)))
          /\ \A g \in Flushers : l \in upserting[g] =>
                prevOff[g] \in 0 .. (base[l] + Cardinality(Settled(l)))
      BY DEF SinkInv, CursorFrom
    <3>b. base[l] \in Int
      OBVIOUS
    <3>2. cursor'[l] \in 0 .. (base[l] + Cardinality(Settled(l)'))
      BY <2>4, <2>5, <2>6, <2>7, <2>8, <2>9, <2>10, <2>11, <3>1, <3>b
    <3>3. \A g \in Flushers : l \in upserting'[g] =>
             prevOff'[g] \in 0 .. (base[l] + Cardinality(Settled(l)'))
      BY <2>1, <2>6, <2>7, <2>8, <2>11, <3>1, <3>b
    <3> QED
      BY <3>2, <3>3
  <2> QED
    BY <1>b, <2>2, <2>12 DEF SinkInv
<1>9. CASE UNCHANGED vars
  <2>1. \A g \in Flushers, l \in Streams : Pending(g, l)' <=> Pending(g, l)
    BY <1>9 DEF vars, Pending
  <2> QED
    BY <1>9, <1>b, <2>1, QuietStep DEF vars, SinkInv
<1> QED
  BY <1>1, <1>2, <1>3, <1>4, <1>5, <1>6, <1>7, <1>8, <1>9 DEF Next

(* The settled lines are dropped ones, so the cursor is at most as many lines *)
(* beyond the row it started from as have left the buffer.                    *)
LEMMA CursorBehindHead ==
  ASSUME NEW base \in [Streams -> Int], SinkInv(base), NEW k \in Clean
  PROVE  /\ cursor[k] \in 0 .. (base[k] + head[k])
         /\ \A f \in Flushers :
              k \in upserting[f] => prevOff[f] \in 0 .. (base[k] + head[k])
<1>1. k \in Streams /\ TypeOK
  BY DEF Clean, SinkInv, BufferInv
<1>2. head[k] \in Nat /\ base[k] \in Int
  BY <1>1 DEF TypeOK
<1>3. ASSUME NEW n \in Nat PROVE IsFiniteSet(1 .. n) /\ Cardinality(1 .. n) = n
  <2>1. 1 \in Int /\ n \in Int
    OBVIOUS
  <2>2. IsFiniteSet(1 .. n) /\ Cardinality(1 .. n) = IF 1 > n THEN 0 ELSE n - 1 + 1
    BY <2>1, FS_Interval
  <2> QED
    BY <2>2
<1>4. Cardinality(Settled(k)) <= head[k] /\ Cardinality(Settled(k)) \in Nat
  BY <1>1, <1>2, <1>3, FS_Subset, SettledFinite DEF Settled
<1>5. /\ cursor[k] \in 0 .. (base[k] + Cardinality(Settled(k)))
      /\ \A f \in Flushers :
           k \in upserting[f] => prevOff[f] \in 0 .. (base[k] + Cardinality(Settled(k)))
  BY DEF SinkInv, CursorFrom
<1> QED
  BY <1>2, <1>4, <1>5

(* The invariant holds in every reachable state.                             *)
LEMMA SinkInvAlways == Spec => []SinkInv(NoRow)
<1>1. Init => SinkInv(NoRow)
  <2>1. Init => Fresh /\ \A k \in Clean : NoRow[k] >= 0 /\ cursor[k] = NoRow[k]
    BY InitFresh DEF Init, NoRow, Clean
  <2>2. NoRow \in [Streams -> Int]
    BY DEF NoRow
  <2> QED
    BY <2>1, <2>2, FreshSinkInv
<1>2. SinkInv(NoRow) /\ [Next]_vars => SinkInv(NoRow)'
  BY NextSinkInv DEF NoRow
<1> QED
  BY <1>1, <1>2, PTL DEF Spec

(* No line leaves the buffer of a stream before Loki has it, as long as no   *)
(* two flushes hold the stream at once.                                      *)
THEOREM DroppedLinesStored == Spec => []DroppedLinesAreStored
<1>1. SinkInv(NoRow) => DroppedLinesAreStored
  BY DEF SinkInv, BufferInv
<1> QED
  BY <1>1, SinkInvAlways, PTL

(* The live byte count is the byte count of the live buffer.                 *)
THEOREM BytesFollowBuffer == Spec => []BytesMatchBuffer
<1>1. SinkInv(NoRow) => BytesMatchBuffer
  BY DEF SinkInv, BufferInv
<1> QED
  BY <1>1, SinkInvAlways, PTL

(* Whatever cursor updates race or fail, resuming at the cursor misses no    *)
(* line: the cursor counts settled lines, which were dropped, hence stored.  *)
THEOREM ResumeSafe == Spec => []ResumeMissesNothing
<1>1. SinkInv(NoRow) => ResumeMissesNothing
  <2> SUFFICES ASSUME SinkInv(NoRow), NEW k \in Streams \ overlapped, NEW i \in 1 .. cursor[k]
               PROVE  i \in loki[k]
    BY DEF ResumeMissesNothing
  <2>1. k \in Clean /\ k \in Streams /\ NoRow \in [Streams -> Int] /\ NoRow[k] = 0
    BY DEF Clean, NoRow
  <2>2. cursor[k] \in Int /\ head[k] \in Nat
    BY <2>1 DEF SinkInv, BufferInv, TypeOK
  <2>3. cursor[k] \in 0 .. (NoRow[k] + head[k])
    BY <2>1, CursorBehindHead
  <2>4. i \in 1 .. head[k]
    BY <2>1, <2>2, <2>3
  <2> QED
    BY <2>4 DEF SinkInv, BufferInv, DroppedLinesAreStored
<1> QED
  BY <1>1, SinkInvAlways, PTL

=============================================================================
