--------------------------- MODULE LogDeliveryProofs ---------------------------
(***************************************************************************)
(* Proofs about LogDelivery, for files, processes, reconnects and restarts   *)
(* of any number: it implements AtLeastOnce, and what a tail has passed is   *)
(* not lost.  What the sink does is taken from LokiSinkProofs.               *)
(***************************************************************************)
EXTENDS LogDelivery, TLAPS

SP == INSTANCE LokiSinkProofs WITH
  Streams <- {file}, Sessions <- {session}, Loops <- {ticker},
  SessionOf <- [k \in {file} |-> session],
  MaxLines <- [k \in {file} |-> MaxReceived]

Clean == file \notin overlapped

(* The file lines received by this process, in its buffer or in Loki.        *)
Seen == archived \cup FileLines(1 .. received[file])

(* The sink's own invariant, and what holds of the link whatever happens.    *)
LinkOK ==
  /\ SP!BufferInv
  /\ written \in Nat /\ pos \in Nat /\ launchOff \in Int /\ origin \in Int
  /\ link \in {"launch", "up", "down"}
  /\ rewound \in BOOLEAN /\ gap \in BOOLEAN
  /\ src \in Seq(Int) /\ Len(src) = received[file]
  /\ link = "launch" => SP!Fresh
  /\ origin = -1 => link = "launch" /\ cursor[file] = 0
  /\ link # "launch" /\ launchOff > 0 => launchOff <= pos
  /\ Clean => loki[file] \subseteq 1 .. received[file]

(* A tail has left nothing behind it.                                        *)
PassedOK == link # "launch" /\ Clean /\ ~ gap => Promise!Within(pos, Seen)

(* Without a rewind the tail runs forward only.                              *)
ForwardOK ==
  ~ rewound =>
    /\ \A i, j \in 1 .. received[file] : i <= j => src[j] - src[i] >= j - i
    /\ received[file] > 0 => src[received[file]] <= pos

(* The cursor row this process has counted on from: that of its launch, or a  *)
(* later place, the one where its tail attached.                              *)
Base == IF received[file] = 0 THEN cursor[file] ELSE src[1] - 1

RowAt(n) == [k \in {file} |-> n]

CountedOK ==
  ~ Excused =>
    /\ SP!SinkInv(RowAt(Base))
    /\ Promise!Within(Base, archived)
    /\ launchOff <= written
    /\ link # "launch" => pos <= written
    /\ received[file] = 0 =>
         /\ cursor[file] \in 0 .. written /\ launchOff \in {0, cursor[file]}
         /\ link # "launch" => cursor[file] <= pos

DeliveryInv == LinkOK /\ PassedOK /\ ForwardOK /\ CountedOK

-----------------------------------------------------------------------------
(* The assumptions of LokiSink hold of the instance.                         *)
LEMMA SinkAssumed == SP!SinkAssumption
  BY DeliveryAssumption DEF SP!SinkAssumption

(* The steps of the sink here are steps of LokiSink.                         *)
LEMMA OnLineIsSinkNext == Sink!OnLine(file) => SP!Next
  BY DEF Sink!OnLine, SP!OnLine, Sink!Buffered, SP!Buffered, SP!Next

LEMMA SinkStepIsSinkNext == SinkStep => SP!Next
<1> USE DEF SP!Next, SP!Flushers, Sink!Flushers
<1> SUFFICES ASSUME SinkStep PROVE SP!Next
  OBVIOUS
<1>1. CASE Sink!NothingToFlush(session)
  BY <1>1 DEF Sink!NothingToFlush, SP!NothingToFlush, Sink!Buffered, SP!Buffered
<1>2. ASSUME NEW f \in Sink!Flushers, Sink!Snapshot(f) PROVE SP!Snapshot(f)
  BY <1>2 DEF Sink!Snapshot, SP!Snapshot, Sink!SnapshotOf, SP!SnapshotOf, Sink!Buffered,
       SP!Buffered, Sink!NoAttempt, SP!NoAttempt, Sink!Holds, SP!Holds, Sink!Attempted, SP!Attempted
<1>3. ASSUME NEW f \in Sink!Flushers, Sink!PushOk(f) PROVE SP!PushOk(f)
  BY <1>3 DEF Sink!PushOk, SP!PushOk, Sink!Lines, SP!Lines
<1>4. ASSUME NEW f \in Sink!Flushers, Sink!PushFailed(f) PROVE SP!PushFailed(f)
  BY <1>4 DEF Sink!PushFailed, SP!PushFailed, Sink!Lines, SP!Lines, Sink!AttemptedBy,
       SP!AttemptedBy, Sink!Attempted, SP!Attempted, Sink!NoAttempts, SP!NoAttempts,
       Sink!NoAttempt, SP!NoAttempt
<1>5. ASSUME NEW f \in Sink!Flushers, Sink!Drop(f) PROVE SP!Drop(f)
  BY <1>5 DEF Sink!Drop, SP!Drop, Sink!HeadAfterDrop, SP!HeadAfterDrop, Sink!BytesAfterDrop,
       SP!BytesAfterDrop, Sink!BumpsAfterDrop, SP!BumpsAfterDrop, Sink!Buffered, SP!Buffered,
       Sink!Attempted, SP!Attempted
<1>6. ASSUME NEW f \in Sink!Flushers, Sink!FlushReturns(f) PROVE SP!FlushReturns(f)
  BY <1>6 DEF Sink!FlushReturns, SP!FlushReturns, Sink!NoAttempts, SP!NoAttempts,
       Sink!NoAttempt, SP!NoAttempt
<1>7. ASSUME NEW f \in Sink!Flushers,
             Sink!ReadCursor(f, file) \/ Sink!SkipCursor(f, file) \/ Sink!UpsertCursor(f, file)
      PROVE  SP!ReadCursor(f, file) \/ SP!SkipCursor(f, file) \/ SP!UpsertCursor(f, file)
  BY <1>7 DEF Sink!ReadCursor, SP!ReadCursor, Sink!SkipCursor, SP!SkipCursor,
       Sink!UpsertCursor, SP!UpsertCursor
<1> QED
  BY <1>1, <1>2, <1>3, <1>4, <1>5, <1>6, <1>7 DEF SinkStep

-----------------------------------------------------------------------------
(* The three things a step of the sink may do to the stream, as long as no two *)
(* flushes have held it: Loki takes buffered lines, lines it has leave the     *)
(* buffer, a cursor update that lines were dropped for ends.                   *)
Stores ==
  /\ \E L \in SUBSET ((head[file] + 1) .. received[file]) : loki'[file] = loki[file] \cup L
  /\ UNCHANGED <<head, cursor>>

Drops ==
  /\ head'[file] \in head[file] .. received[file]
  /\ 1 .. head'[file] \subseteq loki[file]
  /\ UNCHANGED <<loki, cursor>>

Advances ==
  /\ \E f \in SP!Flushers : SP!Pending(f, file)
  /\ UNCHANGED <<head, loki>>

LEMMA SinkEffect ==
  ASSUME LinkOK, SinkStep, Clean'
  PROVE  /\ Clean /\ UNCHANGED <<received, linkVars>>
         /\ Stores \/ Drops \/ Advances
<1> USE DEF Clean, SP!Flushers, Sink!Flushers
<1>1. SP!BufferInv /\ SP!TypeOK /\ SP!ControlOK /\ SP!BufferOK
  BY DEF LinkOK, SP!BufferInv
<1>2. SinkStep => UNCHANGED linkVars
  BY DEF SinkStep
<1>3. received[file] \in Nat /\ head[file] \in Nat /\ head[file] <= received[file]
  BY <1>1 DEF SP!TypeOK, SP!BufferOK
<1>4. ASSUME UNCHANGED <<head, loki, cursor>> PROVE Stores
  <2>1. loki'[file] = loki[file] \cup {} /\ {} \in SUBSET ((head[file] + 1) .. received[file])
    BY <1>4
  <2> QED
    BY <1>4, <2>1 DEF Stores
<1>5. ASSUME NEW f \in SP!Flushers, pc[f] \in {"push", "drop"}, Clean
      PROVE  /\ attempts[f][file].from \in Nat /\ attempts[f][file].to \in Nat
             /\ SP!Lines(attempts[f][file]) \subseteq (head[file] + 1) .. received[file]
             /\ SP!Attempted(f, file) => /\ attempts[f][file].from = head[file]
                                         /\ attempts[f][file].to \in head[file] .. received[file]
  <2>1. /\ attempts[f][file].from \in Nat /\ attempts[f][file].to \in Nat
    BY <1>1 DEF SP!TypeOK
  <2>2. SP!Attempted(f, file) => /\ attempts[f][file].from = head[file]
                                /\ attempts[f][file].to <= received[file]
    BY <1>1, <1>5 DEF SP!BufferInv, SP!HeldOK, SP!Holds, SP!Clean
  <2> QED
    BY <1>3, <2>1, <2>2 DEF SP!Attempted, SP!Lines
<1>6. CASE SP!NothingToFlush(session)
  BY <1>2, <1>4, <1>6 DEF SP!NothingToFlush
<1>7. ASSUME NEW f \in SP!Flushers, SP!Snapshot(f) PROVE Clean /\ received' = received /\ Stores
  BY <1>4, <1>7 DEF SP!Snapshot
<1>8. ASSUME NEW f \in SP!Flushers, SP!PushOk(f) PROVE Clean /\ received' = received /\ Stores
  <2>1. loki'[file] = loki[file] \cup SP!Lines(attempts[f][file])
    BY <1>8 DEF SP!PushOk
  <2> QED
    BY <1>5, <1>8, <2>1 DEF SP!PushOk, Stores
<1>9. ASSUME NEW f \in SP!Flushers, SP!PushFailed(f) PROVE Clean /\ received' = received /\ Stores
  <2>1. loki'[file] = loki[file] \/ loki'[file] = loki[file] \cup SP!Lines(attempts[f][file])
    BY <1>9 DEF SP!PushFailed
  <2>2. pc[f] = "push" /\ Clean /\ UNCHANGED <<head, received, cursor>>
    BY <1>9 DEF SP!PushFailed
  <2>3. CASE loki'[file] = loki[file]
    <3>1. loki'[file] = loki[file] \cup {} /\ {} \in SUBSET ((head[file] + 1) .. received[file])
      BY <2>3
    <3> QED
      BY <2>2, <3>1 DEF Stores
  <2>4. CASE loki'[file] = loki[file] \cup SP!Lines(attempts[f][file])
    BY <1>5, <2>2, <2>4 DEF Stores
  <2> QED
    BY <2>1, <2>2, <2>3, <2>4
<1>10. ASSUME NEW f \in SP!Flushers, SP!Drop(f) PROVE Clean /\ received' = received /\ Drops
  <2>1. pc[f] = "drop" /\ Clean /\ UNCHANGED <<received, loki, cursor>>
    BY <1>10 DEF SP!Drop
  <2>2. head'[file] = IF SP!Attempted(f, file) THEN SP!HeadAfterDrop(f, file) ELSE head[file]
    BY <1>10 DEF SP!Drop
  <2>3. 1 .. head[file] \subseteq loki[file]
    BY <1>1, <2>1 DEF SP!BufferInv, SP!DroppedLinesAreStored
  <2>4. SP!Attempted(f, file) => /\ SP!HeadAfterDrop(f, file) = attempts[f][file].to
                                /\ SP!Lines(attempts[f][file]) \subseteq loki[file]
    BY <1>1, <1>3, <1>5, <2>1 DEF SP!HeadAfterDrop, SP!Buffered, SP!BufferInv, SP!PushedOK
  <2>5. CASE SP!Attempted(f, file)
    BY <1>3, <1>5, <2>1, <2>2, <2>3, <2>4, <2>5 DEF Drops, SP!Lines
  <2>6. CASE ~ SP!Attempted(f, file)
    BY <1>3, <2>1, <2>2, <2>3, <2>6 DEF Drops
  <2> QED
    BY <2>1, <2>5, <2>6
<1>11. ASSUME NEW f \in SP!Flushers, SP!FlushReturns(f) PROVE Clean /\ received' = received /\ Stores
  BY <1>4, <1>11 DEF SP!FlushReturns
<1>12. ASSUME NEW f \in SP!Flushers, SP!ReadCursor(f, file) \/ SP!SkipCursor(f, file)
       PROVE  Clean /\ received' = received /\ Stores
  BY <1>4, <1>12 DEF SP!ReadCursor, SP!SkipCursor
<1>13. ASSUME NEW f \in SP!Flushers, SP!UpsertCursor(f, file)
       PROVE  Clean /\ received' = received /\ Advances
  <2>1. SP!Pending(f, file)
    BY <1>1, <1>13 DEF SP!UpsertCursor, SP!ControlOK, SP!Control, SP!Pending
  <2> QED
    BY <1>13, <2>1 DEF SP!UpsertCursor, Advances
<1>14. ~ SP!OnLine(file)
  <2>1. SP!OnLine(file) => received' # received
    BY <1>1, <1>3 DEF SP!OnLine, SP!TypeOK
  <2>2. UNCHANGED received
    BY DEF SinkStep, Sink!NothingToFlush, Sink!Snapshot, Sink!PushOk, Sink!PushFailed, Sink!Drop,
       Sink!FlushReturns, Sink!ReadCursor, Sink!SkipCursor, Sink!UpsertCursor
  <2> QED
    BY <2>1, <2>2
<1>15. SP!Next
  BY SinkStepIsSinkNext
<1> QED
  BY <1>2, <1>4, <1>6, <1>7, <1>8, <1>9, <1>10, <1>11, <1>12, <1>13, <1>14, <1>15
     DEF SP!Next, SP!NothingToFlush

-----------------------------------------------------------------------------
(* A sink that has received nothing has nothing to do.                        *)
LEMMA FreshIsQuiet == SP!Fresh => ~ SinkStep
<1> SUFFICES ASSUME SP!Fresh, SinkStep PROVE FALSE
  OBVIOUS
<1>1. \A f \in {session} \cup {ticker} : pc[f] = "idle" /\ upserting[f] = {}
  BY DEF SP!Fresh, SP!Flushers
<1>2. ~ (\E k \in {file} : received[k] - head[k] > 0)
  BY DEF SP!Fresh
<1> QED
  BY <1>1, <1>2 DEF SinkStep, Sink!Flushers, Sink!NothingToFlush, Sink!Snapshot, Sink!Buffered,
     Sink!PushOk, Sink!PushFailed, Sink!Drop, Sink!FlushReturns, Sink!ReadCursor,
     Sink!SkipCursor, Sink!UpsertCursor

(* A restart leaves a fresh sink.                                             *)
LEMMA RestartIsFresh == SP!TypeOK /\ Restart => SP!Fresh'
  BY DEF Restart, SP!TypeOK, SP!Fresh, SP!Flushers, Sink!Flushers, Sink!NoAttempts, SP!NoAttempts,
     Sink!NoAttempt, SP!NoAttempt

LEMMA LinkInit == Init => LinkOK
<1> SUFFICES ASSUME Init PROVE LinkOK
  OBVIOUS
<1>1. SP!Fresh
  BY DEF Init, Sink!Init, SP!Fresh, SP!Flushers, Sink!Flushers, Sink!NoAttempts, SP!NoAttempts,
     Sink!NoAttempt, SP!NoAttempt
<1>2. SP!BufferInv
  BY <1>1, SP!FreshBufferInv, SinkAssumed
<1>3. received[file] = 0 /\ cursor[file] = 0 /\ loki[file] = {}
  BY DEF Init, Sink!Init
<1>4. src = <<>> /\ written \in 0 .. 1
  BY DEF Init
<1>5. link = "launch" /\ pos = 0 /\ launchOff = 0 /\ origin = -1
  BY DEF Init
<1>6. rewound \in BOOLEAN /\ gap \in BOOLEAN
  BY DEF Init
<1>7. src \in Seq(Int) /\ Len(src) = received[file]
  BY <1>3, <1>4
<1>8. Clean => loki[file] \subseteq 1 .. received[file]
  BY <1>3
<1> QED
  BY <1>1, <1>2, <1>3, <1>4, <1>5, <1>6, <1>7, <1>8 DEF LinkOK

LEMMA LinkStep == LinkOK /\ [Next]_vars => LinkOK'
<1> SUFFICES ASSUME LinkOK, [Next]_vars PROVE LinkOK'
  OBVIOUS
<1> USE DEF LinkOK
<1>t. SP!BufferInv /\ SP!TypeOK /\ received[file] \in Nat
  BY DEF SP!BufferInv, SP!TypeOK
<1>s. ASSUME UNCHANGED sinkVars PROVE SP!BufferInv' /\ (SP!Fresh => SP!Fresh')
  <2>1. UNCHANGED SP!vars
    BY <1>s DEF sinkVars, SP!vars
  <2>2. SP!BufferInv'
    BY <2>1, SP!NextBufferInv, SinkAssumed
  <2> QED
    BY <1>s, <2>2 DEF sinkVars, SP!Fresh
<1>1. CASE Write
  BY <1>1, <1>s DEF Write, sinkVars, Clean
<1>2. CASE Connect
  <2>1. pos' = TailStart /\ TailStart \in Nat /\ (launchOff > 0 => TailStart = launchOff)
    BY <1>2 DEF Connect, TailStart
  <2>2. origin' \in Nat \/ (origin' = origin /\ origin # -1)
    BY <1>2, <2>1 DEF Connect
  <2> QED
    BY <1>2, <1>s, <2>1, <2>2 DEF Connect, sinkVars, Clean
<1>3. CASE Deliver
  <2>1. SP!BufferInv'
    BY <1>3, SP!NextBufferInv, SinkAssumed, OnLineIsSinkNext DEF Deliver
  <2>2. /\ received'[file] = received[file] + 1
        /\ UNCHANGED <<loki, cursor, overlapped>>
    BY <1>3, <1>t DEF Deliver, Sink!OnLine, SP!TypeOK
  <2>3. src' \in Seq(Int) /\ Len(src') = received'[file]
    BY <1>3, <1>t, <2>2 DEF Deliver
  <2> QED
    BY <1>3, <1>t, <2>1, <2>2, <2>3 DEF Deliver, Clean
<1>4. CASE Disconnect
  BY <1>4, <1>s DEF Disconnect, sinkVars, Clean
<1>5. CASE SinkStep
  <2>1. SP!BufferInv'
    BY <1>5, SP!NextBufferInv, SinkAssumed, SinkStepIsSinkNext
  <2>2. link # "launch" /\ UNCHANGED linkVars
    BY <1>5, FreshIsQuiet DEF SinkStep
  <2>3. received' = received
    BY <1>5 DEF SinkStep, Sink!NothingToFlush, Sink!Snapshot, Sink!PushOk, Sink!PushFailed,
       Sink!Drop, Sink!FlushReturns, Sink!ReadCursor, Sink!SkipCursor, Sink!UpsertCursor
  <2>4. Clean' => loki'[file] \subseteq 1 .. received[file]
    <3> SUFFICES ASSUME Clean' PROVE loki'[file] \subseteq 1 .. received[file]
      OBVIOUS
    <3>1. Clean /\ (Stores \/ Drops \/ Advances)
      BY <1>5, SinkEffect
    <3>2. head[file] \in Nat /\ loki[file] \subseteq 1 .. received[file]
      BY <1>t, <3>1 DEF SP!TypeOK
    <3> HIDE DEF LinkOK
    <3>3. CASE Stores
      <4>1. PICK L \in SUBSET ((head[file] + 1) .. received[file]) :
              loki'[file] = loki[file] \cup L
        BY <3>3 DEF Stores
      <4>2. (head[file] + 1) .. received[file] \subseteq 1 .. received[file]
        BY <1>t, <3>2
      <4>3. L \subseteq 1 .. received[file]
        BY <4>1, <4>2
      <4> QED
        BY <3>2, <4>1, <4>3
    <3>4. CASE Drops \/ Advances
      <4>1. loki' = loki
        BY <3>4 DEF Drops, Advances
      <4> QED
        BY <3>2, <4>1
    <3> QED
      BY <3>1, <3>3, <3>4
  <2> QED
    BY <2>1, <2>2, <2>3, <2>4 DEF linkVars
<1>6. CASE Restart
  <2>1. SP!Fresh'
    BY <1>6, <1>t, RestartIsFresh
  <2>2. SP!BufferInv'
    BY <2>1, SP!FreshBufferInv, SinkAssumed, PTL
  <2>3. cursor[file] \in Int
    BY <1>t DEF SP!TypeOK
  <2> QED
    BY <1>6, <2>1, <2>2, <2>3 DEF Restart, SP!Fresh, Clean
<1>7. CASE UNCHANGED vars
  BY <1>7, <1>s DEF vars, sinkVars, Clean
<1> QED
  BY <1>1, <1>2, <1>3, <1>4, <1>5, <1>6, <1>7 DEF Next

-----------------------------------------------------------------------------
(* What the link's own actions leave of the sink and of the received lines.   *)
LEMMA Facts ==
  ASSUME LinkOK
  PROVE  /\ received[file] \in Nat /\ head[file] \in 0 .. received[file]
         /\ cursor[file] \in Int
         /\ src \in Seq(Int) /\ Len(src) = received[file]
         /\ \A i \in 1 .. received[file] : src[i] \in Int
<1>1. SP!TypeOK /\ SP!BufferOK
  BY DEF LinkOK, SP!BufferInv
<1>2. /\ received[file] \in Nat /\ head[file] \in Nat /\ head[file] <= received[file]
      /\ cursor[file] \in Int
  BY <1>1 DEF SP!TypeOK, SP!BufferOK
<1>3. src \in Seq(Int) /\ Len(src) = received[file]
  BY DEF LinkOK
<1> QED
  BY <1>2, <1>3

LEMMA SeenIsHeldOrStored ==
  ASSUME LinkOK, Clean
  PROVE  Seen = Stored \cup InBuffer
<1>1. 1 .. head[file] \subseteq loki[file] /\ loki[file] \subseteq 1 .. received[file]
  BY DEF LinkOK, Clean, SP!BufferInv, SP!DroppedLinesAreStored
<1>2. 1 .. received[file] = loki[file] \cup ((head[file] + 1) .. received[file])
  BY <1>1, Facts
<1> QED
  BY <1>2 DEF Seen, Stored, InBuffer, FileLines

LEMMA DeliverAppends ==
  ASSUME LinkOK, Deliver
  PROVE  /\ received'[file] = received[file] + 1
         /\ \A i \in 1 .. received[file] : src'[i] = src[i]
         /\ src'[received[file] + 1] = pos + 1
         /\ UNCHANGED <<head, loki, cursor, overlapped, archived>>
<1>1. received'[file] = received[file] + 1 /\ UNCHANGED <<head, loki, cursor, overlapped>>
  BY DEF LinkOK, Deliver, Sink!OnLine, SP!BufferInv, SP!TypeOK
<1>2. src' = Append(src, pos + 1)
  BY DEF Deliver
<1>3. pos + 1 \in Int
  BY DEF LinkOK
<1> QED
  BY <1>1, <1>2, <1>3, Facts DEF Deliver

LEMMA ConnectMissesNothing ==
  ASSUME LinkOK, Connect, Clean, ~ gap'
  PROVE  /\ pos' = TailStart /\ TailStart \in Nat /\ UNCHANGED sinkVars
         /\ \/ origin = -1 /\ origin' = pos'
            \/ origin # -1 /\ origin' = origin /\ Promise!Within(pos', Seen)
<1>1. pos' = TailStart /\ TailStart \in Nat /\ UNCHANGED sinkVars
  BY DEF Connect, TailStart, LinkOK
<1>2. CASE origin = -1
  BY <1>1, <1>2 DEF Connect
<1>3. CASE origin # -1
  <2>1. ~ LeftBehind(TailStart)
    BY <1>3 DEF Connect
  <2> QED
    BY <1>1, <1>3, <2>1, SeenIsHeldOrStored DEF Connect, LeftBehind, Promise!Within
<1> QED
  BY <1>1, <1>2, <1>3

LEMMA RestartIsLaunch == Restart => link' = "launch"
  BY DEF Restart

LEMMA PassedInit == Init => PassedOK
  BY DEF Init, PassedOK

LEMMA PassedStep == LinkOK /\ PassedOK /\ [Next]_vars => PassedOK'
<1> SUFFICES ASSUME LinkOK, PassedOK, [Next]_vars, link' # "launch", Clean', ~ gap'
             PROVE  \A i \in 1 .. pos' : i > origin' => i \in Seen'
  BY DEF PassedOK, Promise!Within
<1> USE DEF Promise!Within
<1>p. link # "launch" /\ Clean /\ ~ gap => \A i \in 1 .. pos : i > origin => i \in Seen
  BY DEF PassedOK
<1>0. pos \in Nat /\ received[file] \in Nat
  BY Facts DEF LinkOK
<1>1. CASE Write
  BY <1>1, <1>p DEF Write, sinkVars, Clean, Seen, FileLines
<1>2. CASE Connect
  <2>1. Clean /\ UNCHANGED Seen
    BY <1>2 DEF Connect, sinkVars, Clean, Seen, FileLines
  <2> QED
    BY <1>2, <2>1, ConnectMissesNothing
<1>3. CASE Deliver
  <2>1. /\ link = "up" /\ Clean /\ ~ gap /\ origin' = origin /\ pos' = pos + 1
    BY <1>3, DeliverAppends DEF Deliver, Clean
  <2>2. Seen \subseteq Seen' /\ pos + 1 \in Seen'
    BY <1>0, <1>3, DeliverAppends DEF Seen, FileLines
  <2> QED
    BY <1>0, <1>p, <2>1, <2>2
<1>4. CASE Disconnect
  BY <1>4, <1>p DEF Disconnect, sinkVars, Clean, Seen, FileLines
<1>5. CASE SinkStep
  BY <1>5, <1>p, SinkEffect DEF linkVars, Seen, FileLines
<1>6. CASE Restart
  BY <1>6, RestartIsLaunch
<1>7. CASE UNCHANGED vars
  BY <1>7, <1>p DEF vars, Clean, Seen, FileLines
<1> QED
  BY <1>1, <1>2, <1>3, <1>4, <1>5, <1>6, <1>7 DEF Next

LEMMA ForwardInit == Init => ForwardOK
<1> SUFFICES ASSUME Init PROVE ForwardOK
  OBVIOUS
<1>1. received[file] = 0
  BY DEF Init, Sink!Init
<1> QED
  BY <1>1 DEF ForwardOK

LEMMA ForwardStep == LinkOK /\ ForwardOK /\ [Next]_vars => ForwardOK'
<1> SUFFICES ASSUME LinkOK, ForwardOK, [Next]_vars, ~ rewound'
             PROVE  /\ \A i, j \in 1 .. received'[file] : i <= j => src'[j] - src'[i] >= j - i
                    /\ received'[file] > 0 => src'[received'[file]] <= pos'
  BY DEF ForwardOK
<1>0. pos \in Nat /\ received[file] \in Nat /\ \A i \in 1 .. received[file] : src[i] \in Int
  BY Facts DEF LinkOK
<1>p. ~ rewound => /\ \A i, j \in 1 .. received[file] : i <= j => src[j] - src[i] >= j - i
                   /\ received[file] > 0 => src[received[file]] <= pos
  BY DEF ForwardOK
<1>q. UNCHANGED <<received, src, pos, rewound>> =>
        /\ \A i, j \in 1 .. received'[file] : i <= j => src'[j] - src'[i] >= j - i
        /\ received'[file] > 0 => src'[received'[file]] <= pos'
  BY <1>p
<1>1. CASE Write
  BY <1>1, <1>q DEF Write, sinkVars
<1>2. CASE Connect
  <2>1. ~ rewound /\ UNCHANGED <<received, src>> /\ pos' = TailStart /\ TailStart \in Nat
    BY <1>2 DEF Connect, sinkVars, TailStart, LinkOK
  <2>2. CASE link = "launch"
    <3>1. received[file] = 0
      BY <2>2 DEF LinkOK, SP!Fresh
    <3> QED
      BY <2>1, <3>1
  <2>3. CASE link = "down"
    <3>0. ~ (TailStart < pos)
      BY <1>2, <2>3 DEF Connect
    <3>1. TailStart >= pos
      BY <1>0, <2>1, <3>0
    <3> QED
      BY <1>0, <1>p, <2>1, <3>1
  <2> QED
    BY <1>2, <2>2, <2>3 DEF Connect
<1>3. CASE Deliver
  <2>1. ~ rewound /\ pos' = pos + 1
    BY <1>3 DEF Deliver
  <2>2. /\ received'[file] = received[file] + 1
        /\ \A i \in 1 .. received[file] : src'[i] = src[i]
        /\ src'[received[file] + 1] = pos + 1
    BY <1>3, DeliverAppends
  <2>3. \A i \in 1 .. received[file] : src[i] <= pos - (received[file] - i)
    BY <1>0, <1>p, <2>1
  <2> QED
    BY <1>0, <1>p, <2>1, <2>2, <2>3
<1>4. CASE Disconnect
  BY <1>4, <1>q DEF Disconnect, sinkVars
<1>5. CASE SinkStep
  <2>1. UNCHANGED <<received, src, pos, rewound>>
    BY <1>5 DEF linkVars, SinkStep, Sink!NothingToFlush, Sink!Snapshot, Sink!PushOk,
       Sink!PushFailed, Sink!Drop, Sink!FlushReturns, Sink!ReadCursor, Sink!SkipCursor,
       Sink!UpsertCursor
  <2> QED
    BY <1>q, <2>1
<1>6. CASE Restart
  BY <1>6 DEF Restart
<1>7. CASE UNCHANGED vars
  BY <1>7, <1>q DEF vars
<1> QED
  BY <1>1, <1>2, <1>3, <1>4, <1>5, <1>6, <1>7 DEF Next

-----------------------------------------------------------------------------
(* A restart now would resume behind nothing that Loki lacks.                 *)
CursorSafe == cursor[file] \in 0 .. written /\ Promise!Within(cursor[file], Stored)

LEMMA CountedCursorIsSafe ==
  LinkOK /\ PassedOK /\ ForwardOK /\ CountedOK /\ ~ Excused => CursorSafe
<1> SUFFICES ASSUME LinkOK, PassedOK, ForwardOK, CountedOK, ~ Excused PROVE CursorSafe
  OBVIOUS
<1> USE DEF Promise!Within
<1>0. /\ received[file] \in Nat /\ head[file] \in 0 .. received[file]
      /\ \A i \in 1 .. received[file] : src[i] \in Int
      /\ pos \in Nat /\ written \in Nat /\ cursor[file] \in Int
  BY Facts DEF LinkOK
<1>1. CASE received[file] = 0
  BY <1>1 DEF CountedOK, Base, CursorSafe, Stored
<1>2. CASE received[file] # 0
  <2>1. link # "launch" /\ Clean
    BY <1>2 DEF LinkOK, SP!Fresh, Excused, Clean
  <2>2. /\ pos <= written /\ Base = src[1] - 1
        /\ \A i \in 1 .. Base : i > origin => i \in archived
        /\ \A i \in 1 .. pos : i > origin => i \in Seen
    BY <1>2, <2>1 DEF CountedOK, PassedOK, Base, Excused
  <2>3. /\ \A i, j \in 1 .. received[file] : i <= j => src[j] - src[i] >= j - i
        /\ \A i \in 1 .. received[file] : src[i] <= pos
    BY <1>0, <1>2 DEF ForwardOK, Excused
  <2>4. cursor[file] \in 0 .. (Base + head[file])
    <3>1. RowAt(Base) \in [{file} -> Int] /\ RowAt(Base)[file] = Base
      BY <1>0, <1>2, <2>2 DEF RowAt
    <3>2. PICK b \in [{file} -> Int] : b = RowAt(Base) /\ b[file] = Base
      BY <3>1
    <3>3. SP!SinkInv(b) /\ file \in SP!Clean
      BY <2>1, <3>2 DEF CountedOK, SP!Clean, Clean
    <3> QED
      BY <3>2, <3>3, SP!CursorBehindHead, SinkAssumed
  <2>5. cursor[file] <= pos
    <3>1. CASE head[file] = 0
      BY <1>0, <1>2, <2>2, <2>3, <2>4, <3>1
    <3>2. CASE head[file] # 0
      <4>1. src[head[file]] - src[1] >= head[file] - 1 /\ src[head[file]] <= pos
        BY <1>0, <1>2, <2>3, <3>2
      <4> QED
        BY <1>0, <1>2, <2>2, <2>4, <3>2, <4>1
    <3> QED
      BY <3>1, <3>2
  <2>6. ASSUME NEW i \in 1 .. cursor[file], i > origin PROVE i \in Stored
    <3>1. i \in archived \/ \E j \in 1 .. received[file] : i = src[j]
      BY <1>0, <2>2, <2>5, <2>6 DEF Seen, FileLines
    <3>2. ASSUME NEW j \in 1 .. received[file], i = src[j], i \notin archived
          PROVE  j <= head[file]
      <4>1. i > Base /\ i <= Base + head[file]
        BY <1>0, <1>2, <2>2, <2>4, <2>6, <3>2
      <4>2. src[j] - src[1] >= j - 1
        BY <1>0, <1>2, <2>3
      <4> QED
        BY <1>0, <1>2, <2>2, <3>2, <4>1, <4>2
    <3>3. 1 .. head[file] \subseteq loki[file]
      BY <2>1 DEF LinkOK, Clean, SP!BufferInv, SP!DroppedLinesAreStored
    <3> QED
      BY <1>0, <3>1, <3>2, <3>3 DEF Stored, FileLines
  <2> QED
    BY <1>0, <2>2, <2>4, <2>5, <2>6 DEF CursorSafe
<1> QED
  BY <1>1, <1>2

-----------------------------------------------------------------------------
(* The rows a sink may count from, here and after a restart.                  *)
LEMMA RowsOfOneFile ==
  ASSUME NEW n \in Int
  PROVE  RowAt(n) \in [{file} -> Int] /\ RowAt(n)[file] = n
  BY DEF RowAt

LEMMA FreshRow ==
  \A n \in Nat : SP!Fresh /\ cursor[file] = n => SP!SinkInv(RowAt(n))
<1> SUFFICES ASSUME NEW n \in Nat, SP!Fresh, cursor[file] = n
             PROVE  SP!SinkInv(RowAt(n))
  OBVIOUS
<1>1. \A k \in SP!Clean : RowAt(n)[k] = n /\ k = file
  BY DEF SP!Clean, RowAt
<1> QED
  BY <1>1, RowsOfOneFile, SP!FreshSinkInv, SinkAssumed

LEMMA FreshRowNext ==
  \A n \in Nat : SP!Fresh' /\ cursor'[file] = n => SP!SinkInv(RowAt(n))'
<1>1. (\A n \in Nat : SP!Fresh /\ cursor[file] = n => SP!SinkInv(RowAt(n)))'
  BY FreshRow, PTL
<1> QED
  BY <1>1

LEMMA CountedInit == Init => CountedOK
<1> SUFFICES ASSUME Init PROVE CountedOK
  OBVIOUS
<1>1. SP!Fresh /\ received[file] = 0 /\ cursor[file] = 0
  BY SP!InitFresh, SinkAssumed DEF Init, Sink!Init, SP!Init, SP!Fresh, SP!Flushers,
     Sink!Flushers, Sink!NoAttempts, SP!NoAttempts, Sink!NoAttempt, SP!NoAttempt
<1>2. Base = 0
  BY <1>1 DEF Base
<1>3. SP!SinkInv(RowAt(Base))
  BY <1>1, <1>2, FreshRow
<1>4. Promise!Within(Base, archived)
  BY <1>2 DEF Promise!Within
<1>5. link = "launch" /\ launchOff = 0 /\ written \in 0 .. 1
  BY DEF Init
<1> QED
  BY <1>1, <1>3, <1>4, <1>5 DEF CountedOK

(* As long as the sink has received nothing its cursor rests.                 *)
LEMMA EmptySinkRests ==
  ASSUME LinkOK, CountedOK, ~ Excused, SinkStep, Clean', received[file] = 0
  PROVE  cursor' = cursor
<1>1. Clean /\ (Stores \/ Drops \/ Advances)
  BY SinkEffect
<1>2. ASSUME NEW f \in SP!Flushers, SP!Pending(f, file) PROVE FALSE
  <2>1. /\ SP!PendingOK /\ file \in SP!Clean
    BY <1>1 DEF CountedOK, SP!SinkInv, SP!Clean, Clean
  <2>2. attempts[f][file].to <= head[file]
    BY <1>2, <2>1 DEF SP!PendingOK
  <2>3. attempts[f][file].from < attempts[f][file].to /\ attempts[f][file].from \in Nat
        /\ attempts[f][file].to \in Nat
    BY <1>2 DEF LinkOK, SP!BufferInv, SP!ControlOK, SP!Control, SP!Pending, SP!Attempted,
       SP!TypeOK
  <2> QED
    BY <2>2, <2>3, Facts
<1> QED
  BY <1>1, <1>2 DEF Stores, Drops, Advances

LEMMA CountedStep ==
  LinkOK /\ PassedOK /\ ForwardOK /\ CountedOK /\ [Next]_vars => CountedOK'
<1> SUFFICES ASSUME LinkOK, PassedOK, ForwardOK, CountedOK, [Next]_vars, ~ Excused'
             PROVE  /\ SP!SinkInv(RowAt(Base))'
                    /\ \A i \in 1 .. Base' : i > origin' => i \in archived'
                    /\ launchOff' <= written'
                    /\ link' # "launch" => pos' <= written'
                    /\ received'[file] = 0 =>
                         /\ cursor'[file] \in 0 .. written' /\ launchOff' \in {0, cursor'[file]}
                         /\ link' # "launch" => cursor'[file] <= pos'
  BY DEF CountedOK, Promise!Within
<1> USE DEF Promise!Within
<1>t. /\ received[file] \in Nat /\ cursor[file] \in Int /\ pos \in Nat /\ written \in Nat
      /\ launchOff \in Int /\ \A i \in 1 .. received[file] : src[i] \in Int
  BY Facts DEF LinkOK
<1>b. Base \in Int
  BY <1>t DEF Base
<1>r. ~ rewound' /\ ~ gap' /\ Clean'
  BY DEF Excused, Clean
<1>p. ~ Excused =>
        /\ SP!SinkInv(RowAt(Base))
        /\ \A i \in 1 .. Base : i > origin => i \in archived
        /\ launchOff <= written
        /\ link # "launch" => pos <= written
        /\ received[file] = 0 =>
             /\ cursor[file] \in 0 .. written /\ launchOff \in {0, cursor[file]}
             /\ link # "launch" => cursor[file] <= pos
  BY DEF CountedOK
(* A step of the sink keeps the counts from the row before it.                *)
<1>s. ASSUME ~ Excused, SP!Next \/ UNCHANGED SP!vars, Base' = Base
      PROVE  SP!SinkInv(RowAt(Base))'
  <2>1. PICK n \in Int : n = Base
    BY <1>b
  <2>2. SP!SinkInv(RowAt(n))
    BY <1>p, <1>s, <2>1
  <2>3. SP!SinkInv(RowAt(n))'
    BY <1>s, <2>2, RowsOfOneFile, SP!NextSinkInv, SinkAssumed
  <2> QED
    BY <1>s, <2>1, <2>3
<1>u. UNCHANGED sinkVars => UNCHANGED SP!vars
  BY DEF sinkVars, SP!vars
<1>1. CASE Write
  <2>1. ~ Excused /\ UNCHANGED sinkVars /\ written' = written + 1
        /\ UNCHANGED <<link, pos, launchOff, archived, origin>>
    BY <1>1 DEF Write, Excused, sinkVars
  <2>2. Base' = Base /\ UNCHANGED <<received, cursor>>
    BY <1>1 DEF Write, sinkVars, Base
  <2> QED
    BY <1>p, <1>s, <1>t, <1>u, <2>1, <2>2
<1>2. CASE Connect
  <2>1. UNCHANGED <<received, cursor, src, written, launchOff, archived, sinkVars>>
        /\ ~ Excused /\ pos' = TailStart
    BY <1>2, <1>r DEF Connect, sinkVars, Excused, Clean
  <2>2. Base' = Base
    BY <2>1 DEF Base
  <2>3. \A i \in 1 .. Base' : i > origin' => i \in archived'
    <3>1. CASE origin = -1
      <4>1. received[file] = 0 /\ cursor[file] = 0
        BY <3>1 DEF LinkOK, SP!Fresh
      <4> QED
        BY <2>2, <4>1 DEF Base
    <3>2. CASE origin # -1
      BY <1>2, <1>p, <2>1, <2>2, <3>2 DEF Connect
    <3> QED
      BY <3>1, <3>2
  <2>4. pos' <= written' /\ (received[file] = 0 => cursor[file] <= pos')
    BY <1>p, <1>t, <2>1 DEF TailStart
  <2> QED
    BY <1>p, <1>s, <1>u, <2>1, <2>2, <2>3, <2>4
<1>3. CASE Deliver
  <2>1. /\ link = "up" /\ ~ Excused /\ pos < written /\ pos' = pos + 1
        /\ UNCHANGED <<written, launchOff, origin, archived>>
        /\ received'[file] = received[file] + 1
        /\ \A i \in 1 .. received[file] : src'[i] = src[i]
        /\ src'[received[file] + 1] = pos + 1
    BY <1>3, <1>r, DeliverAppends DEF Deliver, Excused, Clean
  <2>2. SP!Next
    BY <1>3, OnLineIsSinkNext DEF Deliver
  <2>3. CASE received[file] = 0
    <3>1. Base = cursor[file] /\ Base' = pos /\ cursor[file] <= pos
      BY <1>p, <1>t, <2>1, <2>3 DEF Base
    <3>2. PICK n \in Int, m \in Int : n = Base /\ m = pos
      BY <1>b, <1>t
    <3>3. \A k \in {file} : RowAt(n)[k] <= RowAt(m)[k]
      BY <3>1, <3>2, RowsOfOneFile
    <3>4. SP!SinkInv(RowAt(m))
      BY <1>p, <2>1, <3>2, <3>3, RowsOfOneFile, SP!LaterRow, SinkAssumed
    <3>5. SP!SinkInv(RowAt(m))'
      BY <2>2, <3>4, RowsOfOneFile, SP!NextSinkInv, SinkAssumed
    <3>6. SP!SinkInv(RowAt(Base))'
      BY <3>1, <3>2, <3>5
    <3>7. Seen = archived
      BY <2>3 DEF Seen, FileLines
    <3>8. \A i \in 1 .. pos : i > origin => i \in archived
      BY <1>r, <2>1, <3>7 DEF PassedOK, Excused, Clean
    <3> QED
      BY <1>p, <1>t, <2>1, <3>1, <3>6, <3>8
  <2>4. CASE received[file] # 0
    <3>1. Base' = Base
      BY <1>t, <2>1, <2>4 DEF Base
    <3> QED
      BY <1>p, <1>s, <1>t, <2>1, <2>2, <3>1
  <2> QED
    BY <2>3, <2>4
<1>4. CASE Disconnect
  <2>1. ~ Excused /\ UNCHANGED <<sinkVars, written, pos, launchOff, archived, origin>>
        /\ link # "launch"
    BY <1>4 DEF Disconnect, Excused, sinkVars
  <2>2. Base' = Base /\ UNCHANGED <<received, cursor>>
    BY <1>4 DEF Disconnect, sinkVars, Base
  <2> QED
    BY <1>p, <1>s, <1>t, <1>u, <2>1, <2>2
<1>5. CASE SinkStep
  <2>1. ~ Excused /\ UNCHANGED <<received, linkVars>>
    BY <1>5, <1>r, SinkEffect DEF Excused, Clean, linkVars
  <2>2. received[file] = 0 => cursor' = cursor
    BY <1>5, <1>r, <2>1, EmptySinkRests
  <2>3. Base' = Base
    BY <2>1, <2>2 DEF Base, linkVars
  <2>4. SP!Next
    BY <1>5, SinkStepIsSinkNext
  <2> QED
    BY <1>p, <1>s, <2>1, <2>2, <2>3, <2>4 DEF linkVars
<1>6. CASE Restart
  <2>1. ~ Excused /\ UNCHANGED <<cursor, written, origin>> /\ link' = "launch"
        /\ launchOff' \in {0, cursor[file]} /\ received'[file] = 0
        /\ Stored \subseteq archived'
    BY <1>6 DEF Restart, Excused
  <2>2. SP!Fresh'
    BY <1>6, RestartIsFresh DEF LinkOK, SP!BufferInv
  <2>3. CursorSafe
    BY <2>1, CountedCursorIsSafe
  <2>4. Base' = cursor[file]
    BY <2>1 DEF Base
  <2>5. PICK n \in Nat : n = cursor[file]
    BY <2>3 DEF CursorSafe
  <2>6. SP!SinkInv(RowAt(Base))'
    BY <2>1, <2>2, <2>4, <2>5, FreshRowNext
  <2> QED
    BY <1>t, <2>1, <2>3, <2>4, <2>6 DEF CursorSafe
<1>7. CASE UNCHANGED vars
  <2>1. ~ Excused /\ UNCHANGED <<received, cursor, written, link, pos, launchOff, origin, archived>>
        /\ Base' = Base
    BY <1>7 DEF vars, Excused, Base
  <2>2. UNCHANGED SP!vars
    BY <1>7 DEF vars, SP!vars
  <2> QED
    BY <1>p, <1>s, <2>1, <2>2
<1> QED
  BY <1>1, <1>2, <1>3, <1>4, <1>5, <1>6, <1>7 DEF Next

-----------------------------------------------------------------------------
(* The invariant holds in every reachable state.                             *)
LEMMA DeliveryStep == DeliveryInv /\ [Next]_vars => DeliveryInv'
  BY LinkStep, PassedStep, ForwardStep, CountedStep DEF DeliveryInv

LEMMA DeliveryInvAlways == Spec => []DeliveryInv
<1>1. Init => DeliveryInv
  BY LinkInit, PassedInit, ForwardInit, CountedInit DEF DeliveryInv
<1> QED
  BY <1>1, DeliveryStep, PTL DEF Spec

(* What an open tail has passed since the first attach is in the buffer or in *)
(* Loki, whatever was flushed, lost with a process or tailed again.           *)
THEOREM NothingPassedOverEver == Spec => []NothingPassedOver
<1>1. DeliveryInv => NothingPassedOver
  <2> SUFFICES ASSUME DeliveryInv, link = "up", Clean, ~ gap
               PROVE  \A i \in 1 .. pos : i > origin => i \in Stored \cup InBuffer
    BY DEF NothingPassedOver, Clean
  <2> QED
    BY SeenIsHeldOrStored DEF DeliveryInv, PassedOK, Promise!Within
<1> QED
  BY <1>1, DeliveryInvAlways, PTL

(* Until a reconnect rewinds the tail, a tail starts without an offset or two *)
(* flushes overlap, everything up to the cursor row a restart resumes at is   *)
(* in Loki.                                                                   *)
THEOREM CursorSafeEver == Spec => [](~ Excused => CursorSafe)
<1>1. DeliveryInv => (~ Excused => CursorSafe)
  BY CountedCursorIsSafe DEF DeliveryInv
<1> QED
  BY <1>1, DeliveryInvAlways, PTL

(* A tail that starts at an offset leaves nothing behind, unless the offset   *)
(* had counted lines twice.                                                   *)
THEOREM GapsExplained == Spec => GapNeedsRewindOrNoOffset
<1>1. DeliveryInv /\ [Next]_vars =>
        [gap' /\ ~ gap => launchOff <= 0 \/ rewound \/ file \in overlapped]_vars
  <2> SUFFICES ASSUME DeliveryInv, Next, gap', ~ gap, ~ (launchOff <= 0), ~ rewound, Clean
               PROVE  FALSE
    BY DEF Clean
  <2> USE DEF DeliveryInv
  <2>1. Connect
    BY DEF Next, Write, Deliver, Disconnect, SinkStep, linkVars, Restart
  <2>2. LeftBehind(launchOff)
    BY <2>1 DEF Connect, TailStart, LinkOK
  <2>3. CASE link = "launch"
    <3>1. received[file] = 0 /\ launchOff \in {0, cursor[file]} /\ ~ Excused
      BY <2>3 DEF LinkOK, SP!Fresh, CountedOK, Excused, Clean
    <3>2. CursorSafe /\ launchOff = cursor[file]
      BY <3>1, CountedCursorIsSafe DEF LinkOK
    <3> QED
      BY <2>2, <3>2 DEF LeftBehind, CursorSafe, Promise!Within
  <2>4. CASE link = "down"
    <3>1. launchOff <= pos /\ \A i \in 1 .. pos : i > origin => i \in Stored \cup InBuffer
      BY <2>4, SeenIsHeldOrStored DEF LinkOK, PassedOK, Promise!Within
    <3> QED
      BY <2>2, <3>1 DEF LeftBehind, LinkOK
  <2> QED
    BY <2>1, <2>3, <2>4 DEF Connect
<1> QED
  BY <1>1, DeliveryInvAlways, PTL DEF Spec, GapNeedsRewindOrNoOffset

-----------------------------------------------------------------------------
(* What a running push has in flight is in the buffer.                        *)
LEMMA InFlightIsBuffered ==
  ASSUME LinkOK, Clean
  PROVE  InFlight \subseteq (head[file] + 1) .. received[file]
<1> SUFFICES ASSUME NEW f \in SP!Flushers, pc[f] = "push",
                    NEW i \in (attempts[f][file].from + 1) .. attempts[f][file].to
             PROVE  i \in (head[file] + 1) .. received[file]
  BY DEF InFlight, Sink!Lines, Sink!Flushers, SP!Flushers
<1>1. attempts[f][file].from \in Nat /\ attempts[f][file].to \in Nat
  BY DEF LinkOK, SP!BufferInv, SP!TypeOK
<1>2. SP!Holds(f, file) /\ file \in SP!Clean
  BY <1>1 DEF SP!Holds, SP!Attempted, SP!Clean, Clean
<1>3. attempts[f][file].from = head[file] /\ attempts[f][file].to <= received[file]
  BY <1>2 DEF LinkOK, SP!BufferInv, SP!HeldOK
<1> QED
  BY <1>1, <1>3, Facts

LEMMA PromiseInit == Init => Promise!Init
<1> SUFFICES ASSUME Init PROVE Promise!Init
  OBVIOUS
<1>1. received[file] = 0 /\ head[file] = 0 /\ loki[file] = {} /\ cursor[file] = 0
  BY DEF Init, Sink!Init
<1>2. InBuffer = {} /\ Stored = {}
  BY <1>1 DEF Init, InBuffer, Stored, FileLines
<1> QED
  BY <1>1, <1>2 DEF Init, Promise!Init

(* One step of the link, the sink or a restart is one of the promise or none. *)
LEMMA PromiseStep ==
  ASSUME DeliveryInv, DeliveryInv', [Next]_vars, ~ Excused'
  PROVE  [Promise!Next]_(Promise!vars)
<1> USE DEF Promise!Next, Promise!vars
<1>i. LinkOK /\ PassedOK /\ ForwardOK /\ CountedOK /\ LinkOK' /\ CountedOK'
  BY DEF DeliveryInv
<1>t. /\ received[file] \in Nat /\ head[file] \in 0 .. received[file]
      /\ pos \in Nat /\ pos' \in Nat
  BY <1>i, Facts DEF LinkOK
<1>r. ~ rewound' /\ ~ gap' /\ Clean'
  BY DEF Excused, Clean
<1>s. UNCHANGED <<sinkVars, src, archived>> => UNCHANGED <<InBuffer, Stored, cursor>>
  BY DEF sinkVars, InBuffer, Stored, FileLines
<1>1. CASE Write
  BY <1>1, <1>s DEF Write, Promise!Grow
<1>2. CASE Connect
  <2>1. Clean /\ pos' = TailStart /\ link' = "up" /\ link # "up"
        /\ UNCHANGED <<sinkVars, written, src, archived>>
    BY <1>2, <1>r DEF Connect, sinkVars, Clean
  <2>2. pos' \in 0 .. written
    BY <1>i, <1>t, <2>1 DEF CountedOK, LinkOK
  <2>3. \/ origin = -1 /\ origin' = pos'
        \/ origin # -1 /\ origin' = origin /\ Promise!Within(pos', Stored \cup InBuffer)
    BY <1>2, <1>i, <1>r, <2>1, ConnectMissesNothing, SeenIsHeldOrStored
  <2>4. UNCHANGED <<InBuffer, Stored, cursor>>
    BY <1>s, <2>1
  <2> QED
    BY <2>1, <2>2, <2>3, <2>4 DEF Promise!Attach
<1>3. CASE Deliver
  <2>1. /\ link = "up" /\ link' = "up" /\ pos < written /\ pos' = pos + 1
        /\ UNCHANGED <<written, origin>> /\ origin # -1
    BY <1>3, <1>i DEF Deliver, LinkOK
  <2>2. /\ received'[file] = received[file] + 1
        /\ \A i \in 1 .. received[file] : src'[i] = src[i]
        /\ src'[received[file] + 1] = pos + 1
        /\ UNCHANGED <<head, loki, cursor, archived>>
    BY <1>3, <1>i, DeliverAppends
  <2>3. InBuffer' = InBuffer \cup {pos + 1}
    <3>1. (head[file] + 1) .. received'[file]
            = ((head[file] + 1) .. received[file]) \cup {received[file] + 1}
      BY <1>t, <2>2
    <3>2. \A i \in (head[file] + 1) .. received[file] : src'[i] = src[i]
      BY <1>t, <2>2
    <3> QED
      BY <2>2, <3>1, <3>2 DEF InBuffer, FileLines
  <2>4. Stored' = Stored
    <3>1. \A i \in loki[file] : src'[i] = src[i]
      BY <1>3, <1>i, <1>r, <2>2, DeliverAppends DEF LinkOK, Clean
    <3> QED
      BY <2>2, <3>1 DEF Stored, FileLines
  <2> QED
    BY <2>1, <2>2, <2>3, <2>4 DEF Promise!Receive
<1>4. CASE Disconnect
  BY <1>4, <1>s DEF Disconnect, Promise!Detach
<1>5. CASE SinkStep
  <2>1. Clean /\ UNCHANGED <<received, linkVars>> /\ (Stores \/ Drops \/ Advances)
    BY <1>5, <1>i, <1>r, SinkEffect
  <2>2. link # "launch" /\ origin # -1
    BY <1>5, <1>i, FreshIsQuiet DEF LinkOK
  <2>3. CASE Stores
    <3>1. PICK L \in SUBSET ((head[file] + 1) .. received[file]) :
            loki'[file] = loki[file] \cup L
      BY <2>3 DEF Stores
    <3>2. FileLines(L) \in SUBSET InBuffer /\ Stored' = Stored \cup FileLines(L)
      BY <2>1, <3>1 DEF linkVars, InBuffer, Stored, FileLines
    <3>3. InBuffer' = InBuffer
      BY <2>1, <2>3 DEF Stores, linkVars, InBuffer, FileLines
    <3> QED
      BY <2>1, <2>3, <3>2, <3>3 DEF Stores, linkVars, Promise!Store
  <2>4. CASE Drops
    <3>1. /\ head'[file] \in head[file] .. received[file] /\ 1 .. head'[file] \subseteq loki[file]
          /\ UNCHANGED <<loki, cursor>>
      BY <2>4 DEF Drops
    <3>2. /\ (head'[file] + 1) .. received[file] \subseteq (head[file] + 1) .. received[file]
          /\ ((head[file] + 1) .. received[file]) \ ((head'[file] + 1) .. received[file])
               \subseteq loki[file]
      BY <1>t, <3>1
    <3>3. InBuffer' \subseteq InBuffer /\ InBuffer \ InBuffer' \subseteq Stored
      BY <2>1, <3>2 DEF linkVars, InBuffer, Stored, FileLines
    <3>4. Stored' = Stored
      BY <2>1, <3>1 DEF linkVars, Stored, FileLines
    <3> QED
      BY <2>1, <3>1, <3>3, <3>4 DEF linkVars, Promise!Forget
  <2>5. CASE Advances
    <3>1. UNCHANGED <<InBuffer, Stored, written, origin, link, pos>>
      BY <2>1, <2>5 DEF Advances, linkVars, InBuffer, Stored, FileLines
    <3>2. CursorSafe'
      BY CountedCursorIsSafe, PTL DEF DeliveryInv
    <3>3. cursor'[file] \in 0 .. written /\ Promise!Within(cursor'[file], Stored)
      BY <3>1, <3>2 DEF CursorSafe, Promise!Within
    <3> QED
      BY <2>2, <3>1, <3>3 DEF Promise!Acknowledge
  <2> QED
    BY <2>1, <2>3, <2>4, <2>5
<1>6. CASE Restart
  <2>1. /\ link' = "launch" /\ received'[file] = 0 /\ head'[file] = 0 /\ loki'[file] = {}
        /\ UNCHANGED <<cursor, written, origin>> /\ Clean
    BY <1>6, <1>r DEF Restart, Clean
  <2>2. InBuffer' = {} /\ Stored' = archived'
    BY <2>1 DEF InBuffer, Stored, FileLines
  <2>3. PICK arrived \in {{}, InFlight} : archived' = Stored \cup FileLines(arrived)
    BY <1>6 DEF Restart
  <2>4. FileLines(arrived) \in SUBSET InBuffer
    BY <1>i, <2>1, <2>3, InFlightIsBuffered DEF FileLines, InBuffer
  <2> QED
    BY <2>1, <2>2, <2>3, <2>4 DEF Promise!Restart
<1>7. CASE UNCHANGED vars
  BY <1>7, <1>s DEF vars, sinkVars
<1> QED
  BY <1>1, <1>2, <1>3, <1>4, <1>5, <1>6, <1>7 DEF Next

(* The streamer implements AtLeastOnce, until one of the three excuses.        *)
THEOREM Refinement == Spec => DeliversAtLeastOnce
<1>1. DeliveryInv /\ DeliveryInv' /\ [Next]_vars => [~ Excused' => Promise!Next]_(Promise!vars)
  BY PromiseStep
<1> QED
  BY <1>1, PromiseInit, DeliveryInvAlways, PTL DEF Spec, DeliversAtLeastOnce

-----------------------------------------------------------------------------
(***************************************************************************)
(* What the promise is worth: an abstract delivery loses no line, and so    *)
(* the streamer, which keeps the promise, loses none.                       *)
(***************************************************************************)
LEMMA PromiseInvInit == Promise!Init => Promise!Inv
  BY DEF Promise!Init, Promise!Inv, Promise!Numbers, Promise!NoLineIsLost, Promise!Within

LEMMA PromiseInvStep == Promise!Inv /\ [Promise!Next]_(Promise!vars) => Promise!Inv'
<1> SUFFICES ASSUME Promise!Inv, [Promise!Next]_(Promise!vars)
             PROVE  Promise!Inv'
  OBVIOUS
<1> USE DEF Promise!Inv, Promise!Numbers, Promise!NoLineIsLost, Promise!Within
<1>1. CASE Promise!Grow
  BY <1>1 DEF Promise!Grow
<1>2. CASE Promise!Attach
  BY <1>2 DEF Promise!Attach
<1>3. CASE Promise!Receive
  BY <1>3 DEF Promise!Receive
<1>4. CASE Promise!Detach
  BY <1>4 DEF Promise!Detach
<1>5. CASE Promise!Store
  BY <1>5 DEF Promise!Store
<1>6. CASE Promise!Forget
  BY <1>6 DEF Promise!Forget
<1>7. CASE Promise!Acknowledge
  BY <1>7 DEF Promise!Acknowledge
<1>8. CASE Promise!Restart
  BY <1>8 DEF Promise!Restart
<1>9. CASE UNCHANGED Promise!vars
  BY <1>9 DEF Promise!vars
<1> QED
  BY <1>1, <1>2, <1>3, <1>4, <1>5, <1>6, <1>7, <1>8, <1>9 DEF Promise!Next

(* The promise holds for files of any length, any number of restarts and any *)
(* order of attaching, storing, forgetting and acknowledging.                *)
THEOREM NoLineIsLostEver == Promise!Spec => []Promise!NoLineIsLost
<1>1. Promise!Inv => Promise!NoLineIsLost
  BY DEF Promise!Inv
<1> QED
  BY PromiseInvInit, PromiseInvStep, <1>1, PTL DEF Promise!Spec

LEMMA ExcusesStay ==
  ASSUME LinkOK, [Next]_vars, ~ Excused'
  PROVE  ~ Excused
<1>1. ~ rewound' /\ ~ gap' /\ Clean'
  BY DEF Excused, Clean
<1>2. CASE Write \/ Disconnect \/ Restart
  BY <1>1, <1>2 DEF Write, Disconnect, Restart, Excused, Clean, sinkVars
<1>3. CASE Connect
  BY <1>1, <1>3 DEF Connect, Excused, Clean, sinkVars
<1>4. CASE Deliver
  BY <1>1, <1>4, DeliverAppends DEF Deliver, Excused, Clean
<1>5. CASE SinkStep
  BY <1>1, <1>5, SinkEffect DEF Excused, Clean, linkVars
<1>6. CASE UNCHANGED vars
  BY <1>1, <1>6 DEF Excused, Clean, vars
<1> QED
  BY <1>2, <1>3, <1>4, <1>5, <1>6 DEF Next

(* Until one of the three excuses, no line asked for is lost: the tail has   *)
(* left none behind that is not held or in Loki, and none lies before the    *)
(* row at which a restart resumes (manager.go launchOne).                    *)
THEOREM PromiseKept == Spec => [](~ Excused => Promise!NoLineIsLost)
<1> DEFINE Kept == ~ Excused => Promise!Inv
<1>1. Promise!Init => Kept
  BY PromiseInvInit
<1>2. DeliveryInv /\ Kept /\ [Next]_vars /\ [~ Excused' => Promise!Next]_(Promise!vars) => Kept'
  <2> SUFFICES ASSUME DeliveryInv, Kept, [Next]_vars, [~ Excused' => Promise!Next]_(Promise!vars),
                      ~ Excused'
               PROVE  Promise!Inv'
    OBVIOUS
  <2>1. Promise!Inv
    BY ExcusesStay DEF DeliveryInv
  <2>2. [Promise!Next]_(Promise!vars)
    OBVIOUS
  <2> QED
    BY <2>1, <2>2, PromiseInvStep
<1>3. Kept => (~ Excused => Promise!NoLineIsLost)
  BY DEF Promise!Inv
<1> HIDE DEF Kept
<1> QED
  BY <1>1, <1>2, <1>3, Refinement, DeliveryInvAlways, PTL DEF Spec, DeliversAtLeastOnce
=============================================================================
