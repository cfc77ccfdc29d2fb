------------------------------- MODULE LokiSink -------------------------------
(***************************************************************************)
(* The streamer's sink (internal/streamer/sink.go): per-stream buffers      *)
(* filled by the session goroutines (OnLine) and emptied by Flush, which    *)
(* any of several goroutines may be running at the same time.  Flush holds  *)
(* s.mu only while it takes its snapshot and while it drops what it pushed; *)
(* the Loki push and the cursor updates run unlocked, so each of them is a  *)
(* step of its own here.                                                    *)
(*                                                                         *)
(* The i-th line a stream receives is identified by i, so a buffer, always  *)
(* a run of consecutive lines, is the interval head+1 .. received.  Every   *)
(* line stands for one unit of source bytes.                               *)
(***************************************************************************)
EXTENDS Integers, FiniteSets

CONSTANTS
  Streams,        (* streamKey values: (server id, file id) pairs.            *)
  Sessions,       (* The session goroutines, one per server.                  *)
  SessionOf,      (* The session that delivers the lines of a stream.         *)
  Loops,          (* The goroutines that flush on their own account: the      *)
                  (* manager's flushLoop and the caller of Manager.Stop.      *)
  MaxBatchLines,  (* SinkConfig.MaxBatchLines: a fuller buffer is flushed by  *)
                  (* the session that filled it.                              *)
  MaxLines        (* Bound of the model: lines received per stream.           *)

ASSUME SinkAssumption ==
  /\ SessionOf \in [Streams -> Sessions]
  /\ Sessions \cap Loops = {}
  /\ MaxBatchLines \in Nat \ {0}
  /\ MaxLines \in [Streams -> Nat]

VARIABLES
  received,    (* Lines appended by OnLine so far, per stream.                *)
  head,        (* Lines dropped from the front of the buffer so far.          *)
  bytes,       (* s.bytes: source bytes not yet handed to a cursor update.    *)
  cursor,      (* storage: LogCursor.ByteOffset, 0 when there is no row.      *)
  loki,        (* The lines Loki has stored, per stream.                      *)
  pc,          (* Where each goroutine is in Flush.                           *)
  attempts,    (* Flush's attempts: per goroutine and stream, the lines       *)
               (* from+1 .. to it copied and the byte count it read.          *)
  bumps,       (* The keys of cursorBumps the cursor loop has still to visit. *)
  upserting,   (* The key whose cursor was read and is about to be written.   *)
  prevOff,     (* The ByteOffset that read returned.                          *)
  overlapped   (* History: streams two running flushes held at the same time. *)

vars == <<received, head, bytes, cursor, loki, pc, attempts, bumps, upserting,
          prevOff, overlapped>>

Flushers == Sessions \cup Loops

NoAttempt == [from |-> 0, to |-> 0, bytes |-> 0]
NoAttempts == [k \in Streams |-> NoAttempt]

Buffered(k) == received[k] - head[k]

(* Flush attempted stream k: its buffer was not empty in the snapshot.      *)
Attempted(f, k) == attempts[f][k].from < attempts[f][k].to
AttemptedBy(f) == {k \in Streams : Attempted(f, k)}

(* Between its snapshot and its drop, f answers for the lines it copied.     *)
Holds(f, k) == pc[f] \in {"push", "drop"} /\ Attempted(f, k)

Lines(a) == (a.from + 1) .. a.to

TypeOK ==
  /\ received \in [Streams -> Nat]
  /\ head \in [Streams -> Nat]
  /\ bytes \in [Streams -> Int]
  /\ cursor \in [Streams -> Int]
  /\ loki \in [Streams -> SUBSET Nat]
  /\ pc \in [Flushers -> {"idle", "flush", "push", "drop", "cursors"}]
  /\ attempts \in [Flushers -> [Streams -> [from : Nat, to : Nat, bytes : Int]]]
  /\ bumps \in [Flushers -> SUBSET Streams]
  /\ upserting \in [Flushers -> SUBSET Streams]
  /\ prevOff \in [Flushers -> Int]
  /\ overlapped \in SUBSET Streams

Init ==
  /\ received = [k \in Streams |-> 0]
  /\ head = [k \in Streams |-> 0]
  /\ bytes = [k \in Streams |-> 0]
  /\ cursor = [k \in Streams |-> 0]
  /\ loki = [k \in Streams |-> {}]
  /\ pc = [f \in Flushers |-> "idle"]
  /\ attempts = [f \in Flushers |-> NoAttempts]
  /\ bumps = [f \in Flushers |-> {}]
  /\ upserting = [f \in Flushers |-> {}]
  /\ prevOff = [f \in Flushers |-> 0]
  /\ overlapped = {}

-----------------------------------------------------------------------------
(* OnLine: append under the lock, then flush synchronously if the buffer is *)
(* full; the session reads no further line while it is flushing.            *)
OnLine(k) ==
  LET s == SessionOf[k] IN
  /\ pc[s] = "idle"
  /\ received[k] < MaxLines[k]
  /\ received' = [received EXCEPT ![k] = @ + 1]
  /\ bytes' = [bytes EXCEPT ![k] = @ + 1]
  /\ pc' = [pc EXCEPT ![s] = IF Buffered(k) + 1 >= MaxBatchLines
                             THEN "flush" ELSE "idle"]
  /\ UNCHANGED <<head, cursor, loki, attempts, bumps, upserting, prevOff,
                 overlapped>>

(* The operators named Mutant are changes a plausible bug would make to the   *)
(* definition after them; no specification uses them.                        *)
MutantSnapshot(f) ==
  LET taken == [k \in Streams |-> IF Buffered(k) > 0
                 THEN [from |-> head[k], to |-> received[k], bytes |-> bytes[k]]
                 ELSE NoAttempt] IN
  /\ IF f \in Loops THEN pc[f] = "idle" ELSE pc[f] = "flush"
  /\ \E k \in Streams : Buffered(k) >= MaxBatchLines
  /\ attempts' = [attempts EXCEPT ![f] = taken]
  /\ pc' = [pc EXCEPT ![f] = "push"]
  /\ UNCHANGED <<received, head, bytes, cursor, loki, bumps, upserting, prevOff,
                 overlapped>>

(* What the first locked section of Flush copies: the whole buffer and the  *)
(* byte count of every stream that has entries.                             *)
SnapshotOf(k) ==
  IF Buffered(k) > 0
  THEN [from |-> head[k], to |-> received[k], bytes |-> bytes[k]]
  ELSE NoAttempt

Snapshot(f) ==
  LET taken == [k \in Streams |-> SnapshotOf(k)] IN
  /\ IF f \in Loops THEN pc[f] = "idle" ELSE pc[f] = "flush"
  /\ \E k \in Streams : Buffered(k) > 0
  /\ attempts' = [attempts EXCEPT ![f] = taken]
  /\ pc' = [pc EXCEPT ![f] = "push"]
  /\ overlapped' = overlapped \cup
       {k \in Streams : /\ Buffered(k) > 0
                        /\ \E g \in Flushers \ {f} : Holds(g, k)}
  /\ UNCHANGED <<received, head, bytes, cursor, loki, bumps, upserting, prevOff>>

(* Another flush emptied the buffer before the overflowing session got to   *)
(* its own: Flush returns at once.                                          *)
NothingToFlush(s) ==
  /\ pc[s] = "flush"
  /\ \A k \in Streams : Buffered(k) <= 0
  /\ pc' = [pc EXCEPT ![s] = "idle"]
  /\ UNCHANGED <<received, head, bytes, cursor, loki, attempts, bumps, upserting,
                 prevOff, overlapped>>

(* One request carries every attempted stream; Loki stores all of it.       *)
PushOk(f) ==
  /\ pc[f] = "push"
  /\ loki' = [k \in Streams |-> loki[k] \cup Lines(attempts[f][k])]
  /\ pc' = [pc EXCEPT ![f] = "drop"]
  /\ UNCHANGED <<received, head, bytes, cursor, attempts, bumps, upserting,
                 prevOff, overlapped>>

MutantPushFailed(f) ==
  /\ pc[f] = "push"
  /\ pc' = [pc EXCEPT ![f] = "drop"]
  /\ UNCHANGED <<received, head, bytes, cursor, loki, attempts, bumps, upserting,
                 prevOff, overlapped>>

(* An error or a timeout: Loki may have stored any of the streams before    *)
(* the answer was lost.  Buffers and byte counts stay as they are.          *)
PushFailed(f) ==
  /\ pc[f] = "push"
  /\ \E stored \in SUBSET AttemptedBy(f) :
       loki' = [k \in Streams |-> IF k \in stored
                                  THEN loki[k] \cup Lines(attempts[f][k])
                                  ELSE loki[k]]
  /\ pc' = [pc EXCEPT ![f] = "idle"]
  /\ attempts' = [attempts EXCEPT ![f] = NoAttempts]
  /\ UNCHANGED <<received, head, bytes, cursor, bumps, upserting, prevOff,
                 overlapped>>

MutantHeadNegated(f, k) == head[k] + attempts[f][k].from - attempts[f][k].to
MutantHeadAll(f, k) == received[k]
MutantBytesReset(f, k) == 0

(* The second locked section: cut the attempted number of entries off the   *)
(* live buffer and the attempted bytes off the live count.                  *)
HeadAfterDrop(f, k) ==
  LET entryLen == attempts[f][k].to - attempts[f][k].from IN
  IF entryLen >= Buffered(k) THEN received[k] ELSE head[k] + entryLen

BytesAfterDrop(f, k) ==
  IF attempts[f][k].bytes > 0 THEN bytes[k] - attempts[f][k].bytes ELSE bytes[k]

BumpsAfterDrop(f) ==
  {k \in Streams : Attempted(f, k) /\ attempts[f][k].bytes > 0}

Drop(f) ==
  /\ pc[f] = "drop"
  /\ head' = [k \in Streams |-> IF Attempted(f, k) THEN HeadAfterDrop(f, k)
                                                   ELSE head[k]]
  /\ bytes' = [k \in Streams |-> IF Attempted(f, k) THEN BytesAfterDrop(f, k)
                                                    ELSE bytes[k]]
  /\ bumps' = [bumps EXCEPT ![f] = BumpsAfterDrop(f)]
  /\ pc' = [pc EXCEPT ![f] = "cursors"]
  /\ UNCHANGED <<received, cursor, loki, attempts, upserting, prevOff, overlapped>>

(* The cursor loop, in the map's arbitrary order: read the row ...           *)
ReadCursor(f, k) ==
  /\ pc[f] = "cursors"
  /\ upserting[f] = {}
  /\ k \in bumps[f]
  /\ bumps' = [bumps EXCEPT ![f] = @ \ {k}]
  /\ upserting' = [upserting EXCEPT ![f] = {k}]
  /\ prevOff' = [prevOff EXCEPT ![f] = cursor[k]]
  /\ UNCHANGED <<received, head, bytes, cursor, loki, pc, attempts, overlapped>>

(* ... or give the stream up: no path for its file id, or a store error.     *)
SkipCursor(f, k) ==
  /\ pc[f] = "cursors"
  /\ upserting[f] = {}
  /\ k \in bumps[f]
  /\ bumps' = [bumps EXCEPT ![f] = @ \ {k}]
  /\ UNCHANGED <<received, head, bytes, cursor, loki, pc, attempts, upserting,
                 prevOff, overlapped>>

(* Write the sum back; a failed upsert is only logged.                       *)
UpsertCursor(f, k) ==
  /\ k \in upserting[f]
  /\ \/ cursor' = [cursor EXCEPT ![k] = prevOff[f] + attempts[f][k].bytes]
     \/ UNCHANGED cursor
  /\ upserting' = [upserting EXCEPT ![f] = {}]
  /\ prevOff' = [prevOff EXCEPT ![f] = 0]
  /\ UNCHANGED <<received, head, bytes, loki, pc, attempts, bumps, overlapped>>

FlushReturns(f) ==
  /\ pc[f] = "cursors"
  /\ bumps[f] = {}
  /\ upserting[f] = {}
  /\ pc' = [pc EXCEPT ![f] = "idle"]
  /\ attempts' = [attempts EXCEPT ![f] = NoAttempts]
  /\ UNCHANGED <<received, head, bytes, cursor, loki, bumps, upserting, prevOff,
                 overlapped>>

Next ==
  \/ \E k \in Streams : OnLine(k)
  \/ \E s \in Sessions : NothingToFlush(s)
  \/ \E f \in Flushers :
       \/ Snapshot(f)
       \/ PushOk(f)
       \/ PushFailed(f)
       \/ Drop(f)
       \/ FlushReturns(f)
       \/ \E k \in Streams :
            \/ ReadCursor(f, k)
            \/ SkipCursor(f, k)
            \/ UpsertCursor(f, k)

Spec == Init /\ [][Next]_vars

-----------------------------------------------------------------------------
(* Fairness.  A goroutine inside Flush keeps running: the push is bounded by *)
(* PushTimeout and the store answers.  The ticker keeps firing.  Loki is not *)
(* down for ever: a goroutine that pushes again and again succeeds in the    *)
(* end.  Nothing obliges a session to deliver a line.                        *)
FlushProceeds(f) ==
  \/ PushOk(f)
  \/ PushFailed(f)
  \/ Drop(f)
  \/ FlushReturns(f)
  \/ \E k \in Streams : ReadCursor(f, k) \/ SkipCursor(f, k) \/ UpsertCursor(f, k)

FairSpec ==
  /\ Spec
  /\ \A f \in Flushers : WF_vars(FlushProceeds(f)) /\ SF_vars(PushOk(f))
  /\ \A f \in Flushers : WF_vars(Snapshot(f))
  /\ \A s \in Sessions : WF_vars(NothingToFlush(s))

-----------------------------------------------------------------------------
(* A buffered line leaves the buffer only once Loki has it: sink.go drops    *)
(* exactly the prefix it pushed, unless two flushes held the stream at once. *)
DroppedLinesAreStored ==
  \A k \in Streams \ overlapped : 1 .. head[k] \subseteq loki[k]

(* The byte count stays the byte count of the buffered lines, whatever OnLine *)
(* appends while a push is in flight; it never goes negative.                 *)
BytesMatchBuffer ==
  \A k \in Streams \ overlapped : bytes[k] = Buffered(k)

(* A restart that resumes at the stored cursor misses nothing: every line up *)
(* to the cursor is in Loki.  Cursor updates of several flushes may race and *)
(* fail; they may only leave the cursor behind.                              *)
ResumeMissesNothing ==
  \A k \in Streams \ overlapped : \A i \in 1 .. cursor[k] : i \in loki[k]

(* The same, for every stream: what the comment above Flush promises.        *)
(* The code breaks it when two flushes of a stream overlap.                  *)
EveryDroppedLineIsStored ==
  \A k \in Streams : 1 .. head[k] \subseteq loki[k]

(* Every line received reaches Loki in the end, or two flushes overlapped.   *)
EventuallyStored ==
  \A k \in Streams : \A i \in 1 .. MaxLines[k] :
    (received[k] >= i) ~> (i \in loki[k] \/ k \in overlapped)

=============================================================================
