------------------------------- MODULE LogPull -------------------------------
(***************************************************************************)
(* The tailing of log files by polling: LogTailer.TailFile                 *)
(* (internal/collector/logtail.go), Pipeline.PullLogsOnce                  *)
(* (internal/collector/pipeline.go) and LokiClient.Push (internal/logs).   *)
(* Only the tests of the repository call PullLogsOnce; the monitor itself  *)
(* streams (LogDelivery.tla).  Nothing in it keeps two calls apart, so     *)
(* pulls overlap here as those of PullOnce do.                             *)
(*                                                                         *)
(* A file is the number of its bytes.  Its generation counts rotations:    *)
(* the same path then names another file.  The code knows no generations;  *)
(* the one kept with a cursor says what the cursor was counted in.         *)
(***************************************************************************)
EXTENDS Integers, FiniteSets, Sequences

CONSTANTS
    Pulls,        \* calls of PullLogsOnce that may overlap
    FileList,     \* the files a call is given
    MaxBytes,     \* MaxBytesPerCycle
    MaxSize,      \* bytes of a file
    MaxMishaps,   \* rotations, and times that a file cannot be read
    MaxPulls      \* calls in one behaviour

Files == {FileList[i] : i \in DOMAIN FileList}

ASSUME LogPullAssumption ==
    /\ MaxBytes \in Nat \ {0}
    /\ FileList \in Seq(Files)
    /\ \A i, j \in DOMAIN FileList : FileList[i] = FileList[j] => i = j

VARIABLES
    gen, size, readable,  \* of each file on the bench host
    loki,     \* the bytes Loki has, <<file, generation, place>>
    cursor,   \* file -> [off, gen]: the row of log_cursors, 0 for none
    pull,     \* call -> how far it is
    misread,  \* files read on from a cursor of another generation (history)
    excused,  \* files something happened to that makes bytes come twice (history)
    mishaps, pulls

host == <<gen, size, readable, mishaps>>
vars == <<gen, size, readable, loki, cursor, pull, misread, excused, mishaps, pulls>>

Idle == [at |-> "idle"]

Init ==
    /\ gen = [f \in Files |-> 0]
    /\ size = [f \in Files |-> 1]
    /\ readable = [f \in Files |-> TRUE]
    /\ loki = {}
    /\ cursor = [f \in Files |-> [off |-> 0, gen |-> 0]]
    /\ pull = [p \in Pulls |-> Idle]
    /\ misread = {} /\ excused = {}
    /\ mishaps = 0 /\ pulls = 0

-----------------------------------------------------------------------------
(***************************************************************************)
(* The bench host.                                                         *)
(***************************************************************************)
Write(f) ==
    /\ size[f] < MaxSize
    /\ size' = [size EXCEPT ![f] = @ + 1]
    /\ UNCHANGED <<gen, readable, mishaps, loki, cursor, pull, misread, excused, pulls>>

Rotate(f) ==
    /\ mishaps < MaxMishaps
    /\ mishaps' = mishaps + 1
    /\ gen' = [gen EXCEPT ![f] = @ + 1]
    /\ size' = [size EXCEPT ![f] = 0]
    /\ UNCHANGED <<readable, loki, cursor, pull, misread, excused, pulls>>

\* The file is moved away or loses its mode, and comes back as it was.
Hide(f) ==
    /\ readable[f] /\ mishaps < MaxMishaps
    /\ readable' = [readable EXCEPT ![f] = FALSE]
    /\ mishaps' = mishaps + 1
    /\ UNCHANGED <<gen, size, loki, cursor, pull, misread, excused, pulls>>

Show(f) ==
    /\ ~readable[f]
    /\ readable' = [readable EXCEPT ![f] = TRUE]
    /\ UNCHANGED <<gen, size, mishaps, loki, cursor, pull, misread, excused, pulls>>

-----------------------------------------------------------------------------
(***************************************************************************)
(* TailFile, one file at a time.                                           *)
(***************************************************************************)
Busy == {p \in Pulls : pull[p] # Idle}
File(p) == FileList[pull[p].next]

\* The call goes to its next file: it has the bytes read so far and the
\* cursors that are to be written.
Reading(next, bytes, pending) ==
    [at |-> "cursor", next |-> next, bytes |-> bytes, pending |-> pending]

\* Overlapping calls start from one cursor and read the same bytes.
PullStart(p) ==
    /\ pull[p] = Idle
    /\ pulls < MaxPulls
    /\ pulls' = pulls + 1
    /\ pull' = [pull EXCEPT ![p] = Reading(1, {}, <<>>)]
    /\ excused' = IF Busy = {} THEN excused ELSE Files
    /\ UNCHANGED <<host, loki, cursor, misread>>

ReadCursor(p) ==
    /\ pull[p].at = "cursor" /\ pull[p].next <= Len(FileList)
    /\ pull' = [pull EXCEPT ![p] = [at |-> "stat", next |-> @.next, bytes |-> @.bytes,
                                    pending |-> @.pending, prev |-> cursor[File(p)]]]
    /\ UNCHANGED <<host, loki, cursor, misread, excused, pulls>>

\* The store, the connection, the remote shell or the SIZE header fails: the
\* file is passed over, as if nothing of it had been tried.
FileFails(p) ==
    /\ pull[p].at = "cursor" /\ pull[p].next <= Len(FileList)
    /\ pull' = [pull EXCEPT ![p] = Reading(@.next + 1, @.bytes, @.pending)]
    /\ UNCHANGED <<host, loki, cursor, misread, excused, pulls>>

\* A file that cannot be read has the size 0.
Stat(p) ==
    /\ pull[p].at = "stat"
    /\ LET f == File(p) IN
          /\ pull' = [pull EXCEPT ![p] =
                        [at |-> "tail", next |-> @.next, bytes |-> @.bytes, pending |-> @.pending,
                         prev |-> @.prev, sees |-> readable[f],
                         size |-> IF readable[f] THEN size[f] ELSE 0]]
          /\ excused' = IF readable[f] THEN excused ELSE excused \cup {f}
    /\ UNCHANGED <<host, loki, cursor, misread, pulls>>

\* A size below the cursor tells of a rotation.
MutantStart(prev, sz) == IF sz < prev THEN 1 ELSE prev
Start(prev, sz)       == IF sz < prev THEN 1 ELSE prev + 1

\* "tail -c +start | head -c MaxBytes" of the file as it is by now.
Body(f, start) ==
    IF ~readable[f] THEN {} ELSE {n \in start..(start + MaxBytes - 1) : n <= size[f]}

Least(a, b) == IF a < b THEN a ELSE b

\* Never past the size that was printed, even if more has been read.
NewOffset(prev, sz, length) ==
    IF sz < prev THEN length ELSE Least(prev + length, sz)

TailBody(p) ==
    /\ pull[p].at = "tail"
    /\ LET f == File(p)
           prev == pull[p].prev
           sz == pull[p].size
           start == Start(prev.off, sz)
           body == IF pull[p].sees THEN Body(f, start) ELSE {}
           counted == IF body = {} THEN prev.gen ELSE gen[f]
           entry == [file |-> f, off |-> NewOffset(prev.off, sz, Cardinality(body)), gen |-> counted]
       IN  /\ pull' = [pull EXCEPT ![p] =
                          Reading(@.next + 1, @.bytes \cup {<<f, gen[f], n>> : n \in body},
                                  Append(@.pending, entry))]
           /\ misread' = IF body # {} /\ start > 1 /\ prev.gen # gen[f] THEN misread \cup {f} ELSE misread
           \* The rest of what was read is read again: it was written after the size was printed.
           /\ excused' = IF sz >= prev.off /\ prev.off + Cardinality(body) > sz THEN excused \cup {f} ELSE excused
    /\ UNCHANGED <<host, loki, cursor, pulls>>

-----------------------------------------------------------------------------
(***************************************************************************)
(* The end of PullLogsOnce: one push for all files, then their cursors.    *)
(***************************************************************************)
Touched(bytes) == {b[1] : b \in bytes}
\* The cursors still to be written; the call returns after the last one.
Save(pending) == IF pending = <<>> THEN Idle ELSE [at |-> "save", pending |-> pending]

MutantPush(p) ==
    /\ pull[p].at = "cursor" /\ pull[p].next > Len(FileList)
    /\ \E ok, taken \in BOOLEAN :
          /\ (ok \/ pull[p].bytes = {}) => taken
          /\ loki' = IF taken THEN loki \cup pull[p].bytes ELSE loki
          /\ pull' = [pull EXCEPT ![p] = Save(pull[p].pending)]
          /\ excused' = IF taken /\ ~ok THEN excused \cup Touched(pull[p].bytes) ELSE excused
    /\ UNCHANGED <<host, cursor, misread, pulls>>
\* A push without entries is no request and never fails.  One that fails may
\* have been taken; no cursor moves then.
Push(p) ==
    /\ pull[p].at = "cursor" /\ pull[p].next > Len(FileList)
    /\ \E ok, taken \in BOOLEAN :
          /\ ok => taken
          /\ pull[p].bytes = {} => ok
          /\ loki' = IF taken THEN loki \cup pull[p].bytes ELSE loki
          /\ pull' = [pull EXCEPT ![p] = IF ok THEN Save(pull[p].pending) ELSE Idle]
          /\ excused' = IF taken /\ ~ok THEN excused \cup Touched(pull[p].bytes) ELSE excused
    /\ UNCHANGED <<host, cursor, misread, pulls>>

\* A cursor that cannot be written stays where it was, the others move.
WriteCursor(p) ==
    /\ pull[p].at = "save"
    /\ LET entry == Head(pull[p].pending) IN
          \/ /\ cursor' = [cursor EXCEPT ![entry.file] = [off |-> entry.off, gen |-> entry.gen]]
             /\ excused' = excused
          \/ /\ cursor' = cursor
             /\ excused' = excused \cup {entry.file}
    /\ pull' = [pull EXCEPT ![p] = Save(Tail(@.pending))]
    /\ UNCHANGED <<host, loki, misread, pulls>>

\* The monitor dies and is started again.
Crash ==
    /\ Busy # {}
    /\ pull' = [p \in Pulls |-> Idle]
    /\ excused' = excused \cup {f \in Files : \E p \in Busy : pull[p].at = "save"
                                   /\ \E i \in DOMAIN pull[p].pending : pull[p].pending[i].file = f}
    /\ UNCHANGED <<host, loki, cursor, misread, pulls>>

Next ==
    \/ \E f \in Files : Write(f) \/ Rotate(f) \/ Hide(f) \/ Show(f)
    \/ \E p \in Pulls : PullStart(p) \/ ReadCursor(p) \/ FileFails(p) \/ Stat(p) \/ TailBody(p)
                        \/ Push(p) \/ WriteCursor(p)
    \/ Crash

Spec == Init /\ [][Next]_vars

-----------------------------------------------------------------------------
(***************************************************************************)
(* Properties.                                                             *)
(***************************************************************************)
\* "re-pushing the same entries on the next cycle is preferable to losing
\* them" (pipeline.go:280): every byte before a cursor, in the file it was
\* counted in, is in Loki, whichever push, cursor write or call failed.  The
\* exception is a file that was rotated and has grown beyond the cursor of
\* the old one before anybody looked: TailFile reads on in the middle.
CursorCovers ==
    \A f \in Files : f \in misread \/ \A n \in 1..cursor[f].off : <<f, cursor[f].gen, n>> \in loki

\* Bytes come to Loki a second time only for a reason: an unanswered push
\* that was taken, a cursor not written for a failure or a crash, overlapping
\* calls, a file that could not be read for a while, or one that grew between
\* the stat and the tail of TailFile's command, which is capped at the former.
RepeatsHaveAReason ==
    [][\A p \in Pulls :
          pull[p].at = "cursor" /\ pull[p].next > Len(FileList) /\ (pull[p].bytes \cap loki) # {}
             => Touched(pull[p].bytes \cap loki) \subseteq excused]_vars
=============================================================================
