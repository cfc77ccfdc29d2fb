------------------------------ MODULE LogDelivery ------------------------------
(***************************************************************************)
(* One tailed file from the bench to Loki, across dropped links and monitor  *)
(* restarts: the bench-side tail (scripts/frappe-monitor-stream.sh), the     *)
(* session loop that reconnects it (internal/streamer/session.go), the       *)
(* launch that reads the cursor (manager.go), and the sink (LokiSink).       *)
(*                                                                         *)
(* Offsets count lines: a line is one unit of source bytes, as in LokiSink.  *)
(* LokiSink numbers the lines of the stream in the order they are received;  *)
(* src says which line of the file each of them was.                        *)
(***************************************************************************)
EXTENDS Integers, Sequences, FiniteSets

CONSTANTS
  file, session, ticker,   (* The stream, its session, the flushLoop goroutine. *)
  MaxBatchLines,           (* SinkConfig.MaxBatchLines.                         *)
  MaxWritten,              (* Bound: lines the bench writes.                    *)
  MaxReceived,             (* Bound: lines received per monitor process.        *)
  MaxReconnects,           (* Bound: reconnects per monitor process.            *)
  MaxRestarts              (* Bound: restarts of the monitor.                   *)

ASSUME DeliveryAssumption ==
  /\ session # ticker
  /\ {MaxWritten, MaxReceived, MaxReconnects, MaxRestarts} \subseteq Nat
  /\ MaxBatchLines \in Nat \ {0}

VARIABLES
  received, head, bytes, cursor, loki, pc, attempts, bumps, upserting, prevOff,
  overlapped,    (* The sink: see LokiSink.                                    *)
  written,       (* Lines in the file on the bench.                            *)
  link,          (* The session loop: "launch" before its first connect, "up"  *)
                 (* while a stream is open, "down" while it backs off.         *)
  pos,           (* Lines of the file the open tail has passed.                *)
  launchOff,     (* The offset baked into RemoteCommand; 0: no --resume.       *)
  src,           (* The file line of each received line.                       *)
  reconnects,    (* Reconnects of this monitor process.                        *)
  restarts,      (* Restarts of the monitor so far.                            *)
  archived,      (* Lines Loki stored for earlier monitor processes.           *)
  origin,        (* History: where the very first tail attached.               *)
  rewound,       (* History: a reconnect went back over lines received before. *)
  gap            (* History: a tail started beyond a line never received.      *)

sinkVars == <<received, head, bytes, cursor, loki, pc, attempts, bumps,
              upserting, prevOff, overlapped>>
linkVars == <<written, link, pos, launchOff, src, reconnects, restarts, archived,
              origin, rewound, gap>>
vars == <<received, head, bytes, cursor, loki, pc, attempts, bumps, upserting,
          prevOff, overlapped, written, link, pos, launchOff, src, reconnects,
          restarts, archived, origin, rewound, gap>>

Sink == INSTANCE LokiSink WITH
  Streams <- {file}, Sessions <- {session}, Loops <- {ticker},
  SessionOf <- [k \in {file} |-> session],
  MaxLines <- [k \in {file} |-> MaxReceived]

FileLines(lines) == {src[i] : i \in lines}

(* What Loki holds, and what waits in the buffer, in lines of the file.      *)
Stored == archived \cup FileLines(loki[file])
InBuffer == FileLines((head[file] + 1) .. received[file])

Init ==
  /\ Sink!Init
  /\ written \in 0 .. 1
  /\ link = "launch"
  /\ pos = 0
  /\ launchOff = 0
  /\ src = <<>>
  /\ reconnects = 0 /\ restarts = 0
  /\ archived = {}
  /\ origin = -1
  /\ rewound = FALSE /\ gap = FALSE

-----------------------------------------------------------------------------
(* The application on the bench appends a line to the file.                  *)
Write ==
  /\ written < MaxWritten
  /\ written' = written + 1
  /\ UNCHANGED <<sinkVars, link, pos, launchOff, src, reconnects, restarts,
                 archived, origin, rewound, gap>>

(* The operators named Mutant are changes a plausible bug would make to the   *)
(* definition after them; no specification uses them.                        *)
MutantTailAfter == IF launchOff > 0 THEN launchOff + 1 ELSE written

(* stream.sh: tail -c +(offset+1) when --resume names the file, else -n 0.   *)
TailStart == IF launchOff > 0 THEN launchOff ELSE written

(* A line the next tail will not send, that no earlier one sent either.      *)
LeftBehind(start) ==
  \E i \in 1 .. start : i > origin /\ i \notin Stored \cup InBuffer

MutantConnectOnce ==
  /\ link = "launch"
  /\ link' = "up"
  /\ pos' = TailStart
  /\ origin' = IF origin = -1 THEN TailStart ELSE origin
  /\ gap' = (gap \/ (origin # -1 /\ LeftBehind(TailStart)))
  /\ UNCHANGED <<sinkVars, written, launchOff, src, reconnects, restarts, archived,
                 rewound>>

(* runOnce opens the stream.  The command is the one built at launch, on     *)
(* every attempt.                                                            *)
Connect ==
  /\ link \in {"launch", "down"}
  /\ link = "down" => reconnects < MaxReconnects
  /\ link' = "up"
  /\ pos' = TailStart
  /\ reconnects' = IF link = "down" THEN reconnects + 1 ELSE reconnects
  /\ origin' = IF origin = -1 THEN TailStart ELSE origin
  /\ rewound' = (rewound \/ (link = "down" /\ TailStart < pos))
  /\ gap' = (gap \/ (origin # -1 /\ LeftBehind(TailStart)))
  /\ UNCHANGED <<sinkVars, written, launchOff, src, restarts, archived>>

(* A line of the tail is scanned and handed to OnLine.                       *)
Deliver ==
  /\ link = "up"
  /\ pos < written
  /\ Sink!OnLine(file)
  /\ pos' = pos + 1
  /\ src' = Append(src, pos + 1)
  /\ UNCHANGED <<written, link, launchOff, reconnects, restarts, archived, origin,
                 rewound, gap>>

(* The link drops or the remote exits: the loop reports the session down and *)
(* backs off.  A session inside Flush notices only afterwards.               *)
Disconnect ==
  /\ link = "up"
  /\ pc[session] = "idle"
  /\ link' = "down"
  /\ UNCHANGED <<sinkVars, written, pos, launchOff, src, reconnects, restarts,
                 archived, origin, rewound, gap>>

(* Everything else the sink does.                                            *)
SinkStep ==
  /\ \/ Sink!NothingToFlush(session)
     \/ \E f \in Sink!Flushers :
          \/ Sink!Snapshot(f) \/ Sink!PushOk(f) \/ Sink!PushFailed(f)
          \/ Sink!Drop(f) \/ Sink!FlushReturns(f)
          \/ Sink!ReadCursor(f, file) \/ Sink!SkipCursor(f, file)
          \/ Sink!UpsertCursor(f, file)
  /\ UNCHANGED linkVars

(* The monitor dies and starts again: buffers, byte counts and running       *)
(* flushes are gone, the cursor row and Loki stay; a push under way may or   *)
(* may not have reached Loki.  launchOne reads the cursor once, and takes a  *)
(* failed read for a missing row.                                            *)
InFlight == UNION {Sink!Lines(attempts[f][file]) :
                     f \in {g \in Sink!Flushers : pc[g] = "push"}}

Restart ==
  /\ restarts < MaxRestarts
  /\ restarts' = restarts + 1
  /\ \E arrived \in {{}, InFlight} :
       archived' = Stored \cup FileLines(arrived)
  /\ received' = [k \in {file} |-> 0]
  /\ head' = [k \in {file} |-> 0]
  /\ bytes' = [k \in {file} |-> 0]
  /\ loki' = [k \in {file} |-> {}]
  /\ pc' = [f \in Sink!Flushers |-> "idle"]
  /\ attempts' = [f \in Sink!Flushers |-> Sink!NoAttempts]
  /\ bumps' = [f \in Sink!Flushers |-> {}]
  /\ upserting' = [f \in Sink!Flushers |-> {}]
  /\ prevOff' = [f \in Sink!Flushers |-> 0]
  /\ link' = "launch"
  /\ pos' = 0
  /\ src' = <<>>
  /\ reconnects' = 0
  /\ launchOff' \in {cursor[file], 0}
  /\ UNCHANGED <<cursor, overlapped, written, origin, rewound, gap>>

Next == Write \/ Connect \/ Deliver \/ Disconnect \/ SinkStep \/ Restart

Spec == Init /\ [][Next]_vars

(* The session loop always tries again and a live tail sends what there is;  *)
(* the flush ticker fires, Flush runs to its end, and Loki comes back.       *)
FairSpec ==
  /\ Spec
  /\ WF_vars(Connect) /\ WF_vars(Deliver)
  /\ WF_vars(SinkStep)
  /\ WF_vars(Sink!Snapshot(ticker) /\ UNCHANGED linkVars)
  /\ SF_vars(Sink!PushOk(ticker) /\ UNCHANGED linkVars)

-----------------------------------------------------------------------------
(* The file is delivered at least once: until a reconnect rewinds the tail, a  *)
(* tail starts without an offset, or two flushes overlap, every step of the    *)
(* link, of the sink and of a restart is one of the abstract delivery or none. *)
Promise == INSTANCE AtLeastOnce WITH
  pos <- IF link = "up" THEN pos ELSE 0,
  held <- InBuffer, stored <- Stored, resume <- cursor[file]

Excused == rewound \/ gap \/ file \in overlapped

DeliversAtLeastOnce == Promise!Init /\ [][~ Excused' => Promise!Next]_(Promise!vars)

(* A restart resumes behind everything Loki does not have: protocol.go         *)
(* promises this of every session, reconnects included.                       *)
CursorCoversStoredAfterReconnect ==
  ~ (gap \/ file \in overlapped) =>
    \A i \in 1 .. cursor[file] : i > origin /\ i <= written => i \in Stored

(* While the tail is open, every line after the first attach that it has     *)
(* passed is in the buffer or in Loki, through restarts and rewinds.          *)
NothingPassedOver ==
  link = "up" /\ ~ gap /\ file \notin overlapped =>
    \A i \in 1 .. pos : i > origin => i \in Stored \cup InBuffer

(* A tail that starts beyond a line nobody received has only two causes: it  *)
(* had no offset to resume from, or the cursor had counted lines twice.      *)
GapNeedsRewindOrNoOffset ==
  [][gap' /\ ~ gap => launchOff <= 0 \/ rewound \/ file \in overlapped]_vars

(* Once the tail is open for good, each line of the file after the attach    *)
(* reaches Loki.                                                             *)
EventuallyInLoki ==
  \A i \in 1 .. MaxWritten :
    (written >= i /\ origin # -1 /\ i > origin)
      ~> (i \in Stored \/ gap \/ file \in overlapped
            \/ (link = "down" /\ reconnects = MaxReconnects)
            \/ received[file] = MaxReceived)

=============================================================================
