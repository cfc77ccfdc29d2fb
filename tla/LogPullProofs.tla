----------------------------- MODULE LogPullProofs -----------------------------
(***************************************************************************)
(* Proofs about LogPull, for any list of files, any number of overlapping  *)
(* calls and any limit on the bytes of one cycle.  A cursor covers what    *)
(* lies before it because the one a call read did, and the call's own      *)
(* bytes reach Loki before the cursor it computed from them.               *)
(***************************************************************************)
EXTENDS LogPull, FiniteSetTheorems, SequenceTheorems, TLAPS

Marks   == [off : Nat, gen : Nat]
Entries == [file : Files, off : Nat, gen : Nat]
Bytes   == Files \X Nat \X Nat

Reads(q)  == q.at \in {"cursor", "stat", "tail"}
AtFile(q) == q.at \in {"stat", "tail"}

(* A call in the middle of its files, or of the cursors it has to write.     *)
PullTyped(q) ==
  \/ q = Idle
  \/ q.at = "save" /\ q.pending \in Seq(Entries) /\ q.pending # <<>>
  \/ /\ Reads(q) /\ q.next \in 1..(Len(FileList) + 1)
     /\ q.pending \in Seq(Entries) /\ q.bytes \subseteq Bytes
     /\ AtFile(q) => q.next <= Len(FileList) /\ q.prev \in Marks
     /\ q.at = "tail" => q.size \in Nat /\ q.sees \in BOOLEAN

Typed ==
  /\ gen \in [Files -> Nat] /\ size \in [Files -> Nat] /\ readable \in [Files -> BOOLEAN]
  /\ cursor \in [Files -> Marks] /\ loki \subseteq Bytes
  /\ DOMAIN pull = Pulls /\ \A p \in Pulls : PullTyped(pull[p])

LEMMA FilesOK ==
  /\ Len(FileList) \in Nat
  /\ \A k \in 1..Len(FileList) : FileList[k] \in Files
  /\ \A j, k \in 1..Len(FileList) : FileList[j] = FileList[k] => j = k
  BY LogPullAssumption

-----------------------------------------------------------------------------
(* One file of one call.  body is what "tail -c +start | head -c MaxBytes"   *)
(* printed: some bytes from the start on, none beyond the end of the file.   *)
Printed(body, start, k, end) ==
  /\ k \in Nat /\ body = start..(start + k - 1) /\ Cardinality(body) = k
  /\ k > 0 => start + k - 1 <= end

LEMMA BodyIs ==
  ASSUME Typed, NEW f \in Files, NEW start \in Nat \ {0}
  PROVE  \E k : Printed(Body(f, start), start, k, size[f])
<1>1. size[f] \in Nat /\ MaxBytes \in Nat \ {0} /\ readable[f] \in BOOLEAN
  BY LogPullAssumption DEF Typed
<1> DEFINE n == size[f]
           k == IF ~readable[f] \/ n < start THEN 0 ELSE Least(MaxBytes, n - start + 1)
<1>2. k \in Nat /\ (k > 0 => start + k - 1 <= n)
  BY <1>1 DEF Least
<1>3. Body(f, start) = start..(start + k - 1)
  <2>1. CASE ~readable[f] \/ n < start
    <3>1. k = 0 /\ start..(start + k - 1) = {}
      BY <2>1
    <3>2. Body(f, start) = {}
      BY <1>1, <2>1 DEF Body
    <3> QED
      BY <3>1, <3>2
  <2>2. CASE readable[f] /\ n >= start
    <3>1. k = Least(MaxBytes, n - start + 1)
      BY <1>1, <2>2
    <3>2. Body(f, start) = {i \in start..(start + MaxBytes - 1) : i <= n}
      BY <2>2 DEF Body
    <3> HIDE DEF n, k
    <3>3. n \in Nat
      BY <1>1 DEF n
    <3>4. ASSUME NEW i
          PROVE  i \in Body(f, start) <=> i \in start..(start + k - 1)
      BY <1>1, <2>2, <3>1, <3>2, <3>3 DEF Least
    <3> QED
      BY <3>4
  <2> QED
    BY <1>1, <2>1, <2>2
<1> HIDE DEF k
<1>4. Cardinality(start..(start + k - 1)) = k
  <2>1. start \in Int /\ start + k - 1 \in Int
    BY <1>2
  <2>2. Cardinality(start..(start + k - 1))
          = IF start > start + k - 1 THEN 0 ELSE (start + k - 1) - start + 1
    BY <2>1, FS_Interval
  <2> QED
    BY <1>2, <2>2
<1> QED
  BY <1>2, <1>3, <1>4 DEF Printed

LEMMA StartIs ==
  ASSUME NEW off \in Nat, NEW sz \in Nat
  PROVE  /\ Start(off, sz) \in Nat \ {0}
         /\ sz < off => Start(off, sz) = 1
         /\ sz >= off => Start(off, sz) = off + 1
  BY DEF Start

(* The cursor that TailFile computes for the file.                           *)
Counted(f, prev, sz, g, body) ==
  [file |-> f, off |-> NewOffset(prev.off, sz, Cardinality(body)),
   gen |-> IF body = {} THEN prev.gen ELSE g]

(* The bytes it pushes.                                                      *)
Found(f, g, body) == {<<f, g, n>> : n \in body}

(* What is before the mark c of file f is in S, unless f was misread.        *)
Covered(mis, f, c, S) == f \in mis \/ \A n \in 1..c.off : <<f, c.gen, n>> \in S

LEMMA CoveredGrows ==
  ASSUME NEW m1, NEW m2, NEW f, NEW c, NEW S, NEW T,
         Covered(m1, f, c, S), m1 \subseteq m2, S \subseteq T
  PROVE  Covered(m2, f, c, T)
  BY DEF Covered

LEMMA CountedTyped ==
  ASSUME NEW f \in Files, NEW prev \in Marks, NEW sz \in Nat, NEW g \in Nat, NEW body, NEW k, NEW end,
         Printed(body, Start(prev.off, sz), k, end)
  PROVE  Counted(f, prev, sz, g, body) \in Entries
<1>1. NewOffset(prev.off, sz, k) \in Nat
  BY DEF NewOffset, Least, Marks, Printed
<1> QED
  BY <1>1 DEF Counted, Entries, Marks, Printed

(* It covers what it counts: the bytes before the start because prev did,    *)
(* the others because they were printed.                                     *)
LEMMA CountedCovers ==
  ASSUME NEW f, NEW prev \in Marks, NEW sz \in Nat, NEW g, NEW body, NEW k, NEW end,
         Printed(body, Start(prev.off, sz), k, end),
         NEW mis, NEW S, Covered(mis, f, prev, S),
         body # {} /\ Start(prev.off, sz) > 1 /\ prev.gen # g => f \in mis
  PROVE  Covered(mis, f, Counted(f, prev, sz, g, body), S \cup Found(f, g, body))
<1> DEFINE e == Counted(f, prev, sz, g, body)
           start == Start(prev.off, sz)
           T == S \cup Found(f, g, body)
<1> SUFFICES ASSUME f \notin mis, NEW n \in 1..e.off
             PROVE  <<f, e.gen, n>> \in T
  BY DEF Covered
<1>1. prev.off \in Nat
  BY DEF Marks
<1>2. /\ e.off = NewOffset(prev.off, sz, k)
      /\ e.gen = IF body = {} THEN prev.gen ELSE g
  BY DEF Counted, Printed
<1> HIDE DEF e
<1>3. \A i \in 1..prev.off : <<f, prev.gen, i>> \in S
  BY DEF Covered
<1>4. /\ start \in Nat \ {0} /\ (sz < prev.off => start = 1) /\ (sz >= prev.off => start = prev.off + 1)
  BY <1>1, StartIs
<1> HIDE DEF start
<1>5. k \in Nat /\ body = start..(start + k - 1) /\ (body = {} <=> k = 0)
  BY <1>4 DEF Printed, start
<1>6. CASE body = {}
  <2>1. n \in 1..prev.off
    BY <1>1, <1>2, <1>5, <1>6 DEF NewOffset, Least
  <2> QED
    BY <1>2, <1>3, <1>6, <2>1
<1>7. CASE body # {} /\ n \in body
  BY <1>2, <1>7 DEF Found
<1>8. CASE body # {} /\ n \notin body
  <2>1. n < start /\ n \in Nat \ {0}
    BY <1>1, <1>2, <1>4, <1>5, <1>8 DEF NewOffset, Least
  <2>2. n \in 1..prev.off
    BY <1>1, <1>4, <2>1
  <2>3. prev.gen = g
    BY <1>4, <1>8, <2>1 DEF start
  <2> QED
    BY <1>2, <1>3, <1>8, <2>2, <2>3
<1> QED
  BY <1>6, <1>7, <1>8

(* The mark c does not lie beyond file f, of which this is generation g and  *)
(* end the size, and what S has of that generation lies before c.            *)
Sound(g, end, f, c, S) ==
  /\ c.gen <= g /\ (c.gen = g => c.off <= end)
  /\ \A n \in Nat : <<f, g, n>> \in S => c.gen = g /\ n <= c.off

LEMMA SoundGrows ==
  ASSUME NEW g, NEW end \in Nat, NEW more \in Nat, end <= more, NEW f, NEW c, NEW S,
         c.off \in Nat, Sound(g, end, f, c, S)
  PROVE  Sound(g, more, f, c, S)
  BY DEF Sound

LEMMA SoundRotates ==
  ASSUME NEW g \in Nat, NEW end, NEW f, NEW c, NEW S, c.gen \in Nat, Sound(g, end, f, c, S),
         \A n \in Nat : <<f, g + 1, n>> \notin S
  PROVE  Sound(g + 1, 0, f, c, S)
  BY DEF Sound

(* Nothing that was printed is in Loki yet, and the new cursor is sound,     *)
(* unless the file grew between the stat and the tail.                       *)
LEMMA CountedSound ==
  ASSUME NEW f, NEW prev \in Marks, NEW sz \in Nat, NEW g \in Nat, NEW end \in Nat, NEW body, NEW k,
         Printed(body, Start(prev.off, sz), k, end),
         NEW S, Sound(g, end, f, prev, S), prev.gen = g => prev.off <= sz,
         sz >= prev.off => prev.off + k <= sz
  PROVE  /\ Sound(g, end, f, Counted(f, prev, sz, g, body), S \cup Found(f, g, body))
         /\ \A n \in body : <<f, g, n>> \notin S
<1> DEFINE e == Counted(f, prev, sz, g, body)
           start == Start(prev.off, sz)
           new == Found(f, g, body)
<1>1. prev.off \in Nat /\ prev.gen \in Nat
  BY DEF Marks
<1>2. /\ e.off = NewOffset(prev.off, sz, k)
      /\ e.gen = IF body = {} THEN prev.gen ELSE g
  BY DEF Counted, Printed
<1> HIDE DEF e
<1>3. /\ start \in Nat \ {0} /\ (sz < prev.off => start = 1) /\ (sz >= prev.off => start = prev.off + 1)
  BY <1>1, StartIs
<1> HIDE DEF start
<1>4. /\ k \in Nat /\ body = start..(start + k - 1) /\ (k > 0 => start + k - 1 <= end)
      /\ (body = {} <=> k = 0)
  BY <1>3 DEF Printed, start
<1>5. e.off = IF sz < prev.off THEN k ELSE prev.off + k
  BY <1>1, <1>2, <1>4 DEF NewOffset, Least
<1>6. \A n \in Nat : <<f, g, n>> \in S => prev.gen = g /\ n <= prev.off
  BY DEF Sound
<1>7. ASSUME NEW n \in body, <<f, g, n>> \in S
      PROVE  FALSE
  BY <1>1, <1>3, <1>4, <1>6, <1>7
<1>8. e.gen <= g
  BY <1>1, <1>2 DEF Sound
<1>9. e.gen = g => e.off <= end
  <2>1. CASE body = {}
    BY <1>1, <1>2, <1>4, <1>5, <2>1 DEF Sound
  <2>2. CASE body # {}
    BY <1>1, <1>3, <1>4, <1>5, <2>2
  <2> QED
    BY <2>1, <2>2
<1>10. ASSUME NEW n \in Nat, <<f, g, n>> \in S \cup new
       PROVE  e.gen = g /\ n <= e.off
  <2>1. CASE <<f, g, n>> \in S
    <3>1. prev.gen = g /\ n <= prev.off /\ prev.off <= sz
      BY <1>6, <2>1
    <3>2. e.gen = g /\ e.off = prev.off + k
      BY <1>1, <1>2, <1>5, <3>1
    <3> QED
      BY <1>1, <1>4, <3>1, <3>2
  <2>2. CASE <<f, g, n>> \in new
    <3>1. n \in body
      BY <2>2 DEF Found
    <3> QED
      BY <1>1, <1>2, <1>3, <1>4, <1>5, <3>1
  <2> QED
    BY <1>10, <2>1, <2>2
<1> QED
  BY <1>7, <1>8, <1>9, <1>10 DEF Sound, e

-----------------------------------------------------------------------------
(* What is known of a call at each of its points.                            *)
LEMMA PullKinds ==
  ASSUME NEW q, PullTyped(q)
  PROVE  /\ q.at = "save" => q # Idle /\ q.pending \in Seq(Entries) /\ q.pending # <<>>
         /\ Reads(q) => /\ q # Idle /\ q.next \in 1..(Len(FileList) + 1)
                        /\ q.pending \in Seq(Entries) /\ q.bytes \subseteq Bytes
         /\ AtFile(q) => /\ Reads(q) /\ q.next \in 1..Len(FileList) /\ FileList[q.next] \in Files
                         /\ q.prev \in Marks
         /\ q.at = "tail" => q.size \in Nat /\ q.sees \in BOOLEAN
  BY FilesOK DEF PullTyped, Reads, AtFile, Idle

LEMMA ReadingTyped ==
  ASSUME NEW next \in 1..(Len(FileList) + 1), NEW bytes \in SUBSET Bytes, NEW pending \in Seq(Entries)
  PROVE  PullTyped(Reading(next, bytes, pending))
  BY DEF PullTyped, Reading, Reads, AtFile

LEMMA SaveTyped ==
  ASSUME NEW pending \in Seq(Entries)
  PROVE  PullTyped(Save(pending))
  BY DEF PullTyped, Save

(* The calls other than p stay where they are.                               *)
Moves(p, q) == p \in Pulls /\ pull' = [pull EXCEPT ![p] = q]

LEMMA MovesTo ==
  ASSUME Typed, NEW p, NEW q, Moves(p, q)
  PROVE  /\ DOMAIN pull' = Pulls /\ pull'[p] = q
         /\ \A r \in Pulls : r # p => pull'[r] = pull[r]
  BY DEF Typed, Moves

(* The command of TailFile, with what it finds in the file.                  *)
TailFinds(p, f, prev, sz, body, k) ==
  /\ Reads(pull[p]) /\ AtFile(pull[p]) /\ pull[p].at = "tail"
  /\ f = FileList[pull[p].next] /\ f \in Files
  /\ prev = pull[p].prev /\ sz = pull[p].size /\ prev \in Marks /\ sz \in Nat
  /\ Printed(body, Start(prev.off, sz), k, size[f])
  /\ Moves(p, Reading(pull[p].next + 1, pull[p].bytes \cup Found(f, gen[f], body),
                      Append(pull[p].pending, Counted(f, prev, sz, gen[f], body))))
  /\ misread \subseteq misread'
  /\ body # {} /\ Start(prev.off, sz) > 1 /\ prev.gen # gen[f] => f \in misread'
  /\ excused \subseteq excused'
  /\ sz >= prev.off /\ prev.off + k > sz => f \in excused'
  /\ UNCHANGED <<gen, size, readable, loki, cursor>>

LEMMA TailBodyIs ==
  ASSUME Typed, NEW p \in Pulls, TailBody(p)
  PROVE  \E f, prev, sz, body, k : TailFinds(p, f, prev, sz, body, k)
<1> DEFINE q == pull[p]
           f == FileList[q.next]
           start == Start(q.prev.off, q.size)
           body == IF q.sees THEN Body(f, start) ELSE {}
<1>1. PullTyped(q) /\ q.at = "tail"
  BY DEF Typed, TailBody
<1>2. /\ Reads(q) /\ AtFile(q) /\ f \in Files /\ q.prev \in Marks /\ q.size \in Nat
      /\ q.sees \in BOOLEAN /\ q.prev.off \in Nat
  BY <1>1, PullKinds DEF Reads, AtFile, Marks
<1>3. start \in Nat \ {0}
  BY <1>2, StartIs
<1>4. PICK k : Printed(body, start, k, size[f])
  <2>1. CASE q.sees
    <3>1. body = Body(f, start)
      BY <2>1
    <3> HIDE DEF start, f
    <3>2. \E k : Printed(Body(f, start), start, k, size[f])
      BY <1>2, <1>3, BodyIs
    <3> QED
      BY <3>1, <3>2
  <2>2. CASE ~ q.sees
    <3>1. body = {} /\ start..(start + 0 - 1) = {} /\ Cardinality({}) = 0
      BY <1>3, <2>2, FS_EmptySet
    <3> HIDE DEF start, body
    <3>2. Printed(body, start, 0, size[f])
      BY <3>1, 0 \in Nat, ~ (0 > 0) DEF Printed
    <3> QED
      BY <3>2
  <2> QED
    BY <1>2, <2>1, <2>2
<1>5. Cardinality(body) = k
  BY <1>4 DEF Printed
<1>6. /\ pull' = [pull EXCEPT ![p] =
            Reading(q.next + 1, q.bytes \cup Found(f, gen[f], body),
                    Append(q.pending, Counted(f, q.prev, q.size, gen[f], body)))]
      /\ misread' = IF body # {} /\ start > 1 /\ q.prev.gen # gen[f] THEN misread \cup {f} ELSE misread
      /\ excused' = IF q.size >= q.prev.off /\ q.prev.off + Cardinality(body) > q.size
                      THEN excused \cup {f} ELSE excused
  BY DEF Typed, TailBody, Counted, File, Found
<1>7. UNCHANGED <<gen, size, readable, loki, cursor>>
  BY DEF TailBody, host
<1>8. Moves(p, Reading(q.next + 1, q.bytes \cup Found(f, gen[f], body),
                       Append(q.pending, Counted(f, q.prev, q.size, gen[f], body))))
  BY <1>6 DEF Moves
<1> HIDE DEF body
<1>9. TailFinds(p, f, q.prev, q.size, body, k)
  BY <1>1, <1>2, <1>4, <1>5, <1>6, <1>7, <1>8 DEF TailFinds
<1> QED
  BY <1>9

LEMMA MovesTyped ==
  ASSUME Typed, NEW p, NEW q, Moves(p, q), PullTyped(q)
  PROVE  DOMAIN pull' = Pulls /\ \A r \in Pulls : PullTyped(pull'[r])
  BY MovesTo DEF Typed

LEMMA InitTyped == Init => Typed
<1> SUFFICES ASSUME Init
             PROVE  Typed
  OBVIOUS
<1>1. \A p \in Pulls : PullTyped(pull[p])
  BY DEF Init, PullTyped
<1>2. [off |-> 0, gen |-> 0] \in Marks
  BY DEF Marks
<1> QED
  BY <1>1, <1>2 DEF Init, Typed

LEMMA TypedStep == Typed /\ [Next]_vars => Typed'
<1> SUFFICES ASSUME Typed, [Next]_vars
             PROVE  Typed'
  OBVIOUS
<1>1. ASSUME NEW f \in Files, Write(f) \/ Rotate(f) \/ Hide(f) \/ Show(f)
      PROVE  Typed'
  <2>1. gen' \in [Files -> Nat] /\ size' \in [Files -> Nat] /\ readable' \in [Files -> BOOLEAN]
    <3>1. gen[f] + 1 \in Nat /\ size[f] + 1 \in Nat
      BY DEF Typed
    <3>2. CASE Write(f)
      BY <3>1, <3>2 DEF Typed, Write
    <3>3. CASE Rotate(f)
      BY <3>1, <3>3 DEF Typed, Rotate
    <3>4. CASE Hide(f) \/ Show(f)
      BY <3>4 DEF Typed, Hide, Show
    <3> QED
      BY <1>1, <3>2, <3>3, <3>4
  <2>2. UNCHANGED <<cursor, loki, pull>>
    BY <1>1 DEF Write, Rotate, Hide, Show
  <2> QED
    BY <2>1, <2>2 DEF Typed
<1>2. ASSUME NEW p \in Pulls, PullStart(p)
      PROVE  Typed'
  <2>1. Moves(p, Reading(1, {}, <<>>))
    BY <1>2 DEF Moves, PullStart
  <2>2. PullTyped(Reading(1, {}, <<>>))
    <3>1. <<>> \in Seq(Entries) /\ 1 \in 1..(Len(FileList) + 1) /\ {} \in SUBSET Bytes
      BY FilesOK
    <3> QED
      BY <3>1, ReadingTyped
  <2> QED
    BY <1>2, <2>1, <2>2, MovesTyped DEF Typed, PullStart, host
<1>3. ASSUME NEW p \in Pulls, ReadCursor(p)
      PROVE  Typed'
  <2> DEFINE q == [at |-> "stat", next |-> pull[p].next, bytes |-> pull[p].bytes,
                   pending |-> pull[p].pending, prev |-> cursor[File(p)]]
  <2>1. Moves(p, q)
    BY <1>3 DEF Moves, ReadCursor, Typed
  <2>2. /\ pull[p].next \in 1..Len(FileList) /\ pull[p].pending \in Seq(Entries)
        /\ pull[p].bytes \subseteq Bytes
    BY <1>3, PullKinds, FilesOK DEF Typed, ReadCursor, Reads
  <2>3. cursor[File(p)] \in Marks
    BY <2>2, FilesOK DEF File, Typed
  <2>4. PullTyped(q)
    BY <2>2, <2>3, FilesOK DEF PullTyped, Reads, AtFile
  <2> HIDE DEF q
  <2> QED
    BY <1>3, <2>1, <2>4, MovesTyped DEF Typed, ReadCursor, host
<1>4. ASSUME NEW p \in Pulls, FileFails(p)
      PROVE  Typed'
  <2> DEFINE q == Reading(pull[p].next + 1, pull[p].bytes, pull[p].pending)
  <2>1. Moves(p, q)
    BY <1>4 DEF Moves, FileFails, Typed
  <2>2. /\ pull[p].next + 1 \in 1..(Len(FileList) + 1) /\ pull[p].pending \in Seq(Entries)
        /\ pull[p].bytes \subseteq Bytes
    BY <1>4, PullKinds, FilesOK DEF Typed, FileFails, Reads
  <2>3. PullTyped(q)
    BY <2>2, ReadingTyped
  <2> HIDE DEF q
  <2> QED
    BY <1>4, <2>1, <2>3, MovesTyped DEF Typed, FileFails, host
<1>5. ASSUME NEW p \in Pulls, Stat(p)
      PROVE  Typed'
  <2> DEFINE f == File(p)
             q == [at |-> "tail", next |-> pull[p].next, bytes |-> pull[p].bytes,
                   pending |-> pull[p].pending, prev |-> pull[p].prev, sees |-> readable[f],
                   size |-> IF readable[f] THEN size[f] ELSE 0]
  <2>1. Moves(p, q)
    BY <1>5 DEF Moves, Stat, Typed
  <2>2. /\ pull[p].next \in 1..Len(FileList) /\ pull[p].pending \in Seq(Entries)
        /\ pull[p].bytes \subseteq Bytes /\ pull[p].prev \in Marks /\ f \in Files
    BY <1>5, PullKinds, FilesOK DEF Typed, Stat, Reads, AtFile, File
  <2>3. readable[f] \in BOOLEAN /\ (IF readable[f] THEN size[f] ELSE 0) \in Nat
    BY <2>2 DEF Typed
  <2> HIDE DEF f
  <2>4. PullTyped(q)
    BY <2>2, <2>3, FilesOK DEF PullTyped, Reads, AtFile
  <2> HIDE DEF q
  <2> QED
    BY <1>5, <2>1, <2>4, MovesTyped DEF Typed, Stat, host
<1>6. ASSUME NEW p \in Pulls, TailBody(p)
      PROVE  Typed'
  <2>1. PICK f, prev, sz, body, k : TailFinds(p, f, prev, sz, body, k)
    BY <1>6, TailBodyIs
  <2> DEFINE new == Found(f, gen[f], body)
             e == Counted(f, prev, sz, gen[f], body)
  <2>2. /\ pull[p].next + 1 \in 1..(Len(FileList) + 1) /\ pull[p].pending \in Seq(Entries)
        /\ pull[p].bytes \subseteq Bytes /\ prev \in Marks /\ f \in Files /\ sz \in Nat
        /\ gen[f] \in Nat /\ Printed(body, Start(prev.off, sz), k, size[f])
    BY <2>1, PullKinds, FilesOK DEF Typed, TailFinds
  <2>3. e \in Entries
    BY <2>2, CountedTyped
  <2>4. new \subseteq Bytes
    <3>1. prev.off \in Nat
      BY <2>2 DEF Marks
    <3>2. Start(prev.off, sz) \in Nat
      BY <2>2, <3>1, StartIs
    <3>3. body \subseteq Nat
      BY <2>2, <3>2 DEF Printed
    <3> QED
      BY <2>2, <3>3 DEF Bytes, Found
  <2> HIDE DEF e, new
  <2>5. Append(pull[p].pending, e) \in Seq(Entries) /\ pull[p].bytes \cup new \in SUBSET Bytes
    BY <2>2, <2>3, <2>4
  <2>6. PullTyped(Reading(pull[p].next + 1, pull[p].bytes \cup new, Append(pull[p].pending, e)))
    BY <2>2, <2>5, ReadingTyped
  <2>7. Moves(p, Reading(pull[p].next + 1, pull[p].bytes \cup new, Append(pull[p].pending, e)))
    BY <2>1 DEF TailFinds, e, new
  <2>8. UNCHANGED <<gen, size, readable, loki, cursor>>
    BY <2>1 DEF TailFinds
  <2>9. DOMAIN pull' = Pulls /\ \A r \in Pulls : PullTyped(pull'[r])
    BY <2>6, <2>7, MovesTyped
  <2> QED
    BY <2>8, <2>9 DEF Typed
<1>7. ASSUME NEW p \in Pulls, Push(p)
      PROVE  Typed'
  <2>1. pull[p].pending \in Seq(Entries) /\ pull[p].bytes \subseteq Bytes
    BY <1>7, PullKinds DEF Typed, Push, Reads
  <2>2. PICK ok \in BOOLEAN : Moves(p, IF ok THEN Save(pull[p].pending) ELSE Idle)
    BY <1>7 DEF Push, Moves
  <2>3. PullTyped(IF ok THEN Save(pull[p].pending) ELSE Idle)
    BY <2>1, SaveTyped DEF PullTyped
  <2>4. loki' \subseteq Bytes
    BY <1>7, <2>1 DEF Typed, Push
  <2> QED
    BY <1>7, <2>2, <2>3, <2>4, MovesTyped DEF Typed, Push, host
<1>8. ASSUME NEW p \in Pulls, WriteCursor(p)
      PROVE  Typed'
  <2>1. pull[p].pending \in Seq(Entries) /\ pull[p].pending # <<>>
    BY <1>8, PullKinds DEF Typed, WriteCursor
  <2>2. Head(pull[p].pending) \in Entries /\ Tail(pull[p].pending) \in Seq(Entries)
    BY <2>1
  <2>3. Moves(p, Save(Tail(pull[p].pending)))
    BY <1>8 DEF WriteCursor, Moves
  <2>4. cursor' \in [Files -> Marks]
    <3> DEFINE e == Head(pull[p].pending)
               c == [off |-> e.off, gen |-> e.gen]
    <3>1. e.file \in Files /\ c \in Marks
      BY <2>2 DEF Entries, Marks
    <3>2. cursor' = [cursor EXCEPT ![e.file] = c] \/ cursor' = cursor
      BY <1>8 DEF WriteCursor
    <3> HIDE DEF e, c
    <3> QED
      BY <3>1, <3>2 DEF Typed
  <2> QED
    BY <1>8, <2>2, <2>3, <2>4, MovesTyped, SaveTyped DEF Typed, WriteCursor, host
<1>9. CASE Crash
  BY <1>9 DEF Typed, PullTyped, Crash, host
<1>10. CASE UNCHANGED vars
  BY <1>10 DEF Typed, vars
<1> QED
  BY <1>1, <1>2, <1>3, <1>4, <1>5, <1>6, <1>7, <1>8, <1>9, <1>10 DEF Next

-----------------------------------------------------------------------------
(* The inductive invariant behind CursorCovers: the same of the cursors that *)
(* a call has in hand, with the bytes it has not pushed yet.                 *)
AllCovered(mis, pending, S) ==
  \A i \in 1..Len(pending) : Covered(mis, pending[i].file, pending[i], S)

CallCovers(mis, lok, q) ==
  /\ q.at = "save" => AllCovered(mis, q.pending, lok)
  /\ Reads(q) => AllCovered(mis, q.pending, lok \cup q.bytes)
  /\ AtFile(q) => Covered(mis, FileList[q.next], q.prev, lok)

CoverInv ==
  /\ \A f \in Files : Covered(misread, f, cursor[f], loki)
  /\ \A p \in Pulls : CallCovers(misread, loki, pull[p])

LEMMA AllCoveredGrows ==
  ASSUME NEW m1, NEW m2, NEW pending, NEW S, NEW T,
         AllCovered(m1, pending, S), m1 \subseteq m2, S \subseteq T
  PROVE  AllCovered(m2, pending, T)
<1> SUFFICES ASSUME NEW i \in 1..Len(pending)
             PROVE  Covered(m2, pending[i].file, pending[i], T)
  BY DEF AllCovered
<1>1. Covered(m1, pending[i].file, pending[i], S)
  BY DEF AllCovered
<1> QED
  BY <1>1, CoveredGrows

LEMMA AllCoveredAppend ==
  ASSUME NEW mis, NEW pending \in Seq(Entries), NEW e \in Entries, NEW S,
         AllCovered(mis, pending, S), Covered(mis, e.file, e, S)
  PROVE  AllCovered(mis, Append(pending, e), S)
<1> SUFFICES ASSUME NEW i \in 1..Len(Append(pending, e))
             PROVE  Covered(mis, Append(pending, e)[i].file, Append(pending, e)[i], S)
  BY DEF AllCovered
<1>1. CASE i \in 1..Len(pending)
  <2>1. Append(pending, e)[i] = pending[i]
    BY <1>1
  <2> QED
    BY <1>1, <2>1 DEF AllCovered
<1>2. CASE i = Len(pending) + 1
  <2>1. Append(pending, e)[i] = e
    BY <1>2
  <2> QED
    BY <2>1
<1> QED
  BY <1>1, <1>2

LEMMA CallCoversGrows ==
  ASSUME NEW m1, NEW m2, NEW l1, NEW l2, NEW q, CallCovers(m1, l1, q), m1 \subseteq m2, l1 \subseteq l2
  PROVE  CallCovers(m2, l2, q)
<1>1. q.at = "save" => AllCovered(m2, q.pending, l2)
  BY AllCoveredGrows DEF CallCovers
<1>2. Reads(q) => AllCovered(m2, q.pending, l2 \cup q.bytes)
  <2>1. l1 \cup q.bytes \subseteq l2 \cup q.bytes
    OBVIOUS
  <2> QED
    BY <2>1, AllCoveredGrows DEF CallCovers
<1>3. AtFile(q) => Covered(m2, FileList[q.next], q.prev, l2)
  BY CoveredGrows DEF CallCovers
<1> QED
  BY <1>1, <1>2, <1>3 DEF CallCovers

LEMMA ReadingCovers ==
  ASSUME NEW mis, NEW lok, NEW next, NEW bytes, NEW pending, AllCovered(mis, pending, lok \cup bytes)
  PROVE  CallCovers(mis, lok, Reading(next, bytes, pending))
  BY DEF CallCovers, Reading, Reads, AtFile

LEMMA SaveCovers ==
  ASSUME NEW mis, NEW lok, NEW pending, AllCovered(mis, pending, lok)
  PROVE  CallCovers(mis, lok, Save(pending))
  BY DEF CallCovers, Save, Idle, Reads, AtFile

LEMMA IdleCovers ==
  ASSUME NEW mis, NEW lok
  PROVE  CallCovers(mis, lok, Idle)
  BY DEF CallCovers, Idle, Reads, AtFile

LEMMA MovesCover ==
  ASSUME Typed, CoverInv, NEW p, NEW q, Moves(p, q), misread \subseteq misread', loki \subseteq loki',
         CallCovers(misread', loki', q)
  PROVE  \A r \in Pulls : CallCovers(misread', loki', pull'[r])
<1> SUFFICES ASSUME NEW r \in Pulls
             PROVE  CallCovers(misread', loki', pull'[r])
  OBVIOUS
<1>1. CallCovers(misread', loki', pull[r])
  BY CallCoversGrows DEF CoverInv
<1> QED
  BY <1>1, MovesTo

LEMMA CursorsCover ==
  ASSUME CoverInv, misread \subseteq misread', loki \subseteq loki', UNCHANGED cursor
  PROVE  \A f \in Files : Covered(misread', f, cursor'[f], loki')
  BY CoveredGrows DEF CoverInv

LEMMA InitCovers == Init => CoverInv
<1> SUFFICES ASSUME Init
             PROVE  CoverInv
  OBVIOUS
<1>1. \A f \in Files : Covered(misread, f, cursor[f], loki)
  BY DEF Init, Covered
<1> QED
  BY <1>1, IdleCovers DEF Init, CoverInv

LEMMA CoverStep == Typed /\ CoverInv /\ [Next]_vars => CoverInv'
<1> SUFFICES ASSUME Typed, CoverInv, [Next]_vars
             PROVE  CoverInv'
  OBVIOUS
<1> USE DEF Typed
<1>1. ASSUME NEW f \in Files, Write(f) \/ Rotate(f) \/ Hide(f) \/ Show(f)
      PROVE  CoverInv'
  BY <1>1 DEF CoverInv, Write, Rotate, Hide, Show
<1>2. ASSUME NEW p \in Pulls, PullStart(p)
      PROVE  CoverInv'
  <2>1. Moves(p, Reading(1, {}, <<>>)) /\ UNCHANGED <<loki, cursor, misread>>
    BY <1>2 DEF Moves, PullStart
  <2>2. AllCovered(misread, <<>>, loki \cup {})
    BY DEF AllCovered
  <2>3. CallCovers(misread, loki, Reading(1, {}, <<>>))
    BY <2>2, ReadingCovers
  <2> QED
    BY <2>1, <2>3, MovesCover, CursorsCover DEF CoverInv
<1>3. ASSUME NEW p \in Pulls, ReadCursor(p)
      PROVE  CoverInv'
  <2> DEFINE q == [at |-> "stat", next |-> pull[p].next, bytes |-> pull[p].bytes,
                   pending |-> pull[p].pending, prev |-> cursor[File(p)]]
  <2>1. Moves(p, q) /\ UNCHANGED <<loki, cursor, misread>>
    BY <1>3 DEF Moves, ReadCursor
  <2>2. Reads(pull[p]) /\ File(p) \in Files
    BY <1>3, PullKinds, FilesOK DEF ReadCursor, Reads, File
  <2>3. AllCovered(misread, pull[p].pending, loki \cup pull[p].bytes)
    BY <2>2 DEF CoverInv, CallCovers
  <2>4. Covered(misread, FileList[pull[p].next], cursor[File(p)], loki)
    BY <2>2 DEF CoverInv, File
  <2>5. CallCovers(misread, loki, q)
    BY <2>3, <2>4 DEF CallCovers, AtFile
  <2> HIDE DEF q
  <2> QED
    BY <2>1, <2>5, MovesCover, CursorsCover DEF CoverInv
<1>4. ASSUME NEW p \in Pulls, FileFails(p)
      PROVE  CoverInv'
  <2> DEFINE q == Reading(pull[p].next + 1, pull[p].bytes, pull[p].pending)
  <2>1. Moves(p, q) /\ UNCHANGED <<loki, cursor, misread>>
    BY <1>4 DEF Moves, FileFails
  <2>2. AllCovered(misread, pull[p].pending, loki \cup pull[p].bytes)
    BY <1>4 DEF CoverInv, CallCovers, FileFails, Reads
  <2>3. CallCovers(misread, loki, q)
    BY <2>2, ReadingCovers
  <2> HIDE DEF q
  <2> QED
    BY <2>1, <2>3, MovesCover, CursorsCover DEF CoverInv
<1>5. ASSUME NEW p \in Pulls, Stat(p)
      PROVE  CoverInv'
  <2> DEFINE f == File(p)
             sz == IF readable[f] THEN size[f] ELSE 0
             q == [at |-> "tail", next |-> pull[p].next, bytes |-> pull[p].bytes,
                   pending |-> pull[p].pending, prev |-> pull[p].prev, sees |-> readable[f],
                   size |-> sz]
  <2>1. Moves(p, q) /\ UNCHANGED <<loki, cursor, misread>>
    BY <1>5 DEF Moves, Stat
  <2> HIDE DEF sz, f
  <2>2. Reads(pull[p]) /\ AtFile(pull[p]) /\ CallCovers(misread, loki, pull[p])
    BY <1>5 DEF Stat, Reads, AtFile, CoverInv
  <2>3. CallCovers(misread, loki, q)
    BY <2>2 DEF CallCovers
  <2> HIDE DEF q
  <2> QED
    BY <2>1, <2>3, MovesCover, CursorsCover DEF CoverInv
<1>6. ASSUME NEW p \in Pulls, TailBody(p)
      PROVE  CoverInv'
  <2>1. PICK f, prev, sz, body, k : TailFinds(p, f, prev, sz, body, k)
    BY <1>6, TailBodyIs
  <2> DEFINE new == Found(f, gen[f], body)
             e == Counted(f, prev, sz, gen[f], body)
             S == loki \cup (pull[p].bytes \cup new)
  <2>2. /\ pull[p].pending \in Seq(Entries) /\ prev \in Marks /\ f \in Files /\ sz \in Nat
        /\ gen[f] \in Nat /\ Printed(body, Start(prev.off, sz), k, size[f])
    BY <2>1, PullKinds DEF TailFinds
  <2>3. e \in Entries /\ e.file = f
    BY <2>2, CountedTyped DEF Counted
  <2>4. UNCHANGED <<loki, cursor>> /\ misread \subseteq misread'
    BY <2>1 DEF TailFinds
  <2>5. CallCovers(misread', loki, pull[p])
    BY <2>4, CallCoversGrows DEF CoverInv
  <2>6. Covered(misread', f, prev, loki) /\ AllCovered(misread', pull[p].pending, loki \cup pull[p].bytes)
    BY <2>1, <2>5 DEF CallCovers, TailFinds
  <2>7. Covered(misread', f, e, loki \cup new)
    <3>1. body # {} /\ Start(prev.off, sz) > 1 /\ prev.gen # gen[f] => f \in misread'
      BY <2>1 DEF TailFinds
    <3> QED
      BY <2>2, <2>6, <3>1, CountedCovers
  <2> HIDE DEF e, new
  <2>8. Covered(misread', f, e, S) /\ AllCovered(misread', pull[p].pending, S)
    <3>1. loki \cup new \subseteq S /\ loki \cup pull[p].bytes \subseteq S
      OBVIOUS
    <3> HIDE DEF S
    <3> QED
      BY <2>6, <2>7, <3>1, CoveredGrows, AllCoveredGrows
  <2>9. AllCovered(misread', Append(pull[p].pending, e), S)
    BY <2>2, <2>3, <2>8, AllCoveredAppend
  <2>10. Moves(p, Reading(pull[p].next + 1, pull[p].bytes \cup new, Append(pull[p].pending, e)))
    BY <2>1 DEF TailFinds, e, new
  <2>11. CallCovers(misread', loki',
           Reading(pull[p].next + 1, pull[p].bytes \cup new, Append(pull[p].pending, e)))
    BY <2>4, <2>9, ReadingCovers
  <2> QED
    BY <2>4, <2>10, <2>11, MovesCover, CursorsCover DEF CoverInv
<1>7. ASSUME NEW p \in Pulls, Push(p)
      PROVE  CoverInv'
  <2>1. PICK ok \in BOOLEAN :
          /\ Moves(p, IF ok THEN Save(pull[p].pending) ELSE Idle)
          /\ ok => loki' = loki \cup pull[p].bytes
          /\ loki \subseteq loki'
    BY <1>7 DEF Push, Moves
  <2>2. UNCHANGED <<cursor, misread>>
    BY <1>7 DEF Push
  <2>3. AllCovered(misread, pull[p].pending, loki \cup pull[p].bytes)
    BY <1>7 DEF Push, CoverInv, CallCovers, Reads
  <2>4. CallCovers(misread', loki', IF ok THEN Save(pull[p].pending) ELSE Idle)
    BY <2>1, <2>2, <2>3, SaveCovers, IdleCovers
  <2> QED
    BY <2>1, <2>2, <2>4, MovesCover, CursorsCover DEF CoverInv
<1>8. ASSUME NEW p \in Pulls, WriteCursor(p)
      PROVE  CoverInv'
  <2> DEFINE pending == pull[p].pending
             e == Head(pending)
             c == [off |-> e.off, gen |-> e.gen]
  <2>1. pending \in Seq(Entries) /\ pending # <<>> /\ AllCovered(misread, pending, loki)
    BY <1>8, PullKinds DEF WriteCursor, CoverInv, CallCovers
  <2>2. Moves(p, Save(Tail(pending))) /\ UNCHANGED <<loki, misread>>
    BY <1>8 DEF WriteCursor, Moves
  <2>3. cursor' = [cursor EXCEPT ![e.file] = c] \/ cursor' = cursor
    BY <1>8 DEF WriteCursor
  <2> HIDE DEF pending
  <2>4. AllCovered(misread, Tail(pending), loki)
    BY <2>1, HeadTailProperties DEF AllCovered
  <2>5. Covered(misread, e.file, e, loki)
    BY <2>1, HeadTailProperties DEF AllCovered
  <2>6. Covered(misread, e.file, c, loki)
    BY <2>5 DEF Covered
  <2> HIDE DEF e, c
  <2>7. ASSUME NEW f \in Files
        PROVE  Covered(misread, f, cursor'[f], loki)
    BY <2>3, <2>6 DEF CoverInv
  <2>8. CallCovers(misread, loki, Save(Tail(pending)))
    BY <2>4, SaveCovers
  <2> QED
    BY <2>2, <2>7, <2>8, MovesCover DEF CoverInv
<1>9. CASE Crash
  BY <1>9, IdleCovers DEF CoverInv, Crash
<1>10. CASE UNCHANGED vars
  BY <1>10 DEF CoverInv, vars
<1> QED
  BY <1>1, <1>2, <1>3, <1>4, <1>5, <1>6, <1>7, <1>8, <1>9, <1>10 DEF Next

(***************************************************************************)
(* "re-pushing the same entries on the next cycle is preferable to losing  *)
(* them" (pipeline.go:280), for any number of calls of PullLogsOnce at a   *)
(* time: no file that was not read on from another's cursor ever has a     *)
(* byte before its cursor that Loki has not.                               *)
(***************************************************************************)
THEOREM CursorCoversEver == Spec => []CursorCovers
<1>1. Init => Typed /\ CoverInv
  BY InitTyped, InitCovers
<1>2. Typed /\ CoverInv /\ [Next]_vars => (Typed /\ CoverInv)'
  BY TypedStep, CoverStep
<1>3. Typed /\ CoverInv => CursorCovers
  BY DEF CoverInv, Covered, CursorCovers
<1> QED
  BY <1>1, <1>2, <1>3, PTL DEF Spec

-----------------------------------------------------------------------------
(* A call has at most one cursor in hand of each file, and of files it has   *)
(* done only: the list names none twice.                                     *)
Distinct(pending) ==
  \A i, j \in 1..Len(pending) : pending[i].file = pending[j].file => i = j

Done(pending, next) ==
  \A i \in 1..Len(pending) : \E k \in 1..(next - 1) : pending[i].file = FileList[k]

DoneFiles(q) ==
  /\ q.at = "save" \/ Reads(q) => Distinct(q.pending)
  /\ Reads(q) => Done(q.pending, q.next)

DoneInv == \A p \in Pulls : DoneFiles(pull[p])

LEMMA AppendDone ==
  ASSUME NEW pending \in Seq(Entries), NEW next \in 1..Len(FileList), NEW e \in Entries,
         Distinct(pending), Done(pending, next), e.file = FileList[next]
  PROVE  Distinct(Append(pending, e)) /\ Done(Append(pending, e), next + 1)
<1> DEFINE s == Append(pending, e)
           m == Len(pending)
<1>1. /\ m \in Nat /\ Len(s) = m + 1 /\ s[m + 1] = e
      /\ \A i \in 1..m : s[i] = pending[i]
  OBVIOUS
<1>2. next \in Nat /\ next <= Len(FileList) /\ Len(FileList) \in Nat
  BY FilesOK
<1> HIDE DEF s
<1>3. ASSUME NEW i \in 1..m
      PROVE  s[i].file # e.file /\ \E k \in 1..((next + 1) - 1) : s[i].file = FileList[k]
  <2>1. PICK k \in 1..(next - 1) : pending[i].file = FileList[k]
    BY DEF Done
  <2>2. k \in 1..Len(FileList) /\ k # next /\ k \in 1..((next + 1) - 1) /\ next \in 1..Len(FileList)
    BY <1>2
  <2>3. FileList[k] # FileList[next]
    BY <2>2, FilesOK
  <2> QED
    BY <1>1, <2>1, <2>2, <2>3
<1> HIDE DEF m
<1>4. Distinct(s)
  <2> SUFFICES ASSUME NEW i \in 1..(m + 1), NEW j \in 1..(m + 1), s[i].file = s[j].file
               PROVE  i = j
    BY <1>1 DEF Distinct
  <2>1. CASE i \in 1..m /\ j \in 1..m
    BY <1>1, <2>1 DEF Distinct, m
  <2>2. CASE i = m + 1 \/ j = m + 1
    BY <1>1, <1>3, <2>2
  <2> QED
    BY <1>1, <2>1, <2>2
<1>5. Done(s, next + 1)
  <2> SUFFICES ASSUME NEW i \in 1..(m + 1)
               PROVE  \E k \in 1..((next + 1) - 1) : s[i].file = FileList[k]
    BY <1>1 DEF Done
  <2>1. CASE i \in 1..m
    BY <1>3, <2>1
  <2>2. CASE i = m + 1
    <3>1. next \in 1..((next + 1) - 1)
      BY <1>2
    <3> QED
      BY <1>1, <2>2, <3>1
  <2> QED
    BY <1>1, <2>1, <2>2
<1> QED
  BY <1>4, <1>5 DEF s

LEMMA ReadingDone ==
  ASSUME NEW next, NEW bytes, NEW pending, Distinct(pending), Done(pending, next)
  PROVE  DoneFiles(Reading(next, bytes, pending))
  BY DEF DoneFiles, Reading, Reads

LEMMA SaveDone ==
  ASSUME NEW pending, Distinct(pending)
  PROVE  DoneFiles(Save(pending))
  BY DEF DoneFiles, Save, Idle, Reads

LEMMA IdleDone == DoneFiles(Idle)
  BY DEF DoneFiles, Idle, Reads

LEMMA MovesDone ==
  ASSUME Typed, DoneInv, NEW p, NEW q, Moves(p, q), DoneFiles(q)
  PROVE  DoneInv'
<1>1. \A r \in Pulls : DoneFiles(pull'[r])
  BY MovesTo DEF DoneInv
<1> QED
  BY <1>1 DEF DoneInv

LEMMA InitDone == Init => DoneInv
  BY IdleDone DEF Init, DoneInv

LEMMA DoneStep == Typed /\ DoneInv /\ [Next]_vars => DoneInv'
<1> SUFFICES ASSUME Typed, DoneInv, [Next]_vars
             PROVE  DoneInv'
  OBVIOUS
<1>1. ASSUME NEW f \in Files, Write(f) \/ Rotate(f) \/ Hide(f) \/ Show(f)
      PROVE  DoneInv'
  BY <1>1 DEF DoneInv, Write, Rotate, Hide, Show
<1>2. ASSUME NEW p \in Pulls, PullStart(p)
      PROVE  DoneInv'
  <2>1. Moves(p, Reading(1, {}, <<>>))
    BY <1>2 DEF Moves, PullStart
  <2>2. Distinct(<<>>) /\ Done(<<>>, 1)
    BY DEF Distinct, Done
  <2> QED
    BY <2>1, <2>2, ReadingDone, MovesDone
<1>3. ASSUME NEW p \in Pulls, ReadCursor(p)
      PROVE  DoneInv'
  <2> DEFINE q == [at |-> "stat", next |-> pull[p].next, bytes |-> pull[p].bytes,
                   pending |-> pull[p].pending, prev |-> cursor[File(p)]]
  <2>1. Moves(p, q)
    BY <1>3 DEF Moves, ReadCursor, Typed
  <2>2. DoneFiles(q)
    BY <1>3 DEF ReadCursor, DoneInv, DoneFiles, Reads
  <2> HIDE DEF q
  <2> QED
    BY <2>1, <2>2, MovesDone
<1>4. ASSUME NEW p \in Pulls, FileFails(p)
      PROVE  DoneInv'
  <2> DEFINE q == Reading(pull[p].next + 1, pull[p].bytes, pull[p].pending)
  <2>1. Moves(p, q)
    BY <1>4 DEF Moves, FileFails, Typed
  <2>2. /\ Distinct(pull[p].pending) /\ Done(pull[p].pending, pull[p].next)
        /\ pull[p].next \in 1..(Len(FileList) + 1)
    BY <1>4, PullKinds DEF FileFails, DoneInv, DoneFiles, Reads, Typed
  <2>3. Done(pull[p].pending, pull[p].next + 1)
    <3>1. 1..(pull[p].next - 1) \subseteq 1..((pull[p].next + 1) - 1)
      BY <2>2, FilesOK
    <3> QED
      BY <2>2, <3>1 DEF Done
  <2> QED
    BY <2>1, <2>2, <2>3, ReadingDone, MovesDone
<1>5. ASSUME NEW p \in Pulls, Stat(p)
      PROVE  DoneInv'
  <2> DEFINE f == File(p)
             sz == IF readable[f] THEN size[f] ELSE 0
             q == [at |-> "tail", next |-> pull[p].next, bytes |-> pull[p].bytes,
                   pending |-> pull[p].pending, prev |-> pull[p].prev, sees |-> readable[f],
                   size |-> sz]
  <2>1. Moves(p, q)
    BY <1>5 DEF Moves, Stat, Typed
  <2> HIDE DEF sz, f
  <2>2. DoneFiles(q)
    BY <1>5 DEF Stat, DoneInv, DoneFiles, Reads
  <2> HIDE DEF q
  <2> QED
    BY <2>1, <2>2, MovesDone
<1>6. ASSUME NEW p \in Pulls, TailBody(p)
      PROVE  DoneInv'
  <2>1. PICK f, prev, sz, body, k : TailFinds(p, f, prev, sz, body, k)
    BY <1>6, TailBodyIs
  <2> DEFINE e == Counted(f, prev, sz, gen[f], body)
             pending == pull[p].pending
  <2>2. /\ pending \in Seq(Entries) /\ prev \in Marks /\ f \in Files /\ sz \in Nat
        /\ gen[f] \in Nat /\ Printed(body, Start(prev.off, sz), k, size[f]) /\ p \in Pulls
        /\ pull[p].next \in 1..Len(FileList) /\ f = FileList[pull[p].next]
    BY <2>1, PullKinds DEF TailFinds, Typed
  <2>3. e \in Entries /\ e.file = FileList[pull[p].next]
    BY <2>2, CountedTyped DEF Counted
  <2>4. Distinct(pending) /\ Done(pending, pull[p].next)
    BY <2>1, <2>2 DEF DoneInv, DoneFiles, TailFinds
  <2> HIDE DEF e
  <2>5. Distinct(Append(pending, e)) /\ Done(Append(pending, e), pull[p].next + 1)
    BY <2>2, <2>3, <2>4, AppendDone
  <2>6. Moves(p, Reading(pull[p].next + 1, pull[p].bytes \cup Found(f, gen[f], body), Append(pending, e)))
    BY <2>1 DEF TailFinds, e
  <2> QED
    BY <2>5, <2>6, ReadingDone, MovesDone
<1>7. ASSUME NEW p \in Pulls, Push(p)
      PROVE  DoneInv'
  <2>1. PICK ok \in BOOLEAN : Moves(p, IF ok THEN Save(pull[p].pending) ELSE Idle)
    BY <1>7 DEF Push, Moves
  <2>2. DoneFiles(IF ok THEN Save(pull[p].pending) ELSE Idle)
    BY <1>7, SaveDone, IdleDone DEF Push, DoneInv, DoneFiles, Reads
  <2> QED
    BY <2>1, <2>2, MovesDone
<1>8. ASSUME NEW p \in Pulls, WriteCursor(p)
      PROVE  DoneInv'
  <2> DEFINE pending == pull[p].pending
  <2>1. pending \in Seq(Entries) /\ pending # <<>> /\ Distinct(pending)
    BY <1>8, PullKinds DEF WriteCursor, DoneInv, DoneFiles, Typed
  <2>2. Moves(p, Save(Tail(pending)))
    BY <1>8 DEF WriteCursor, Moves
  <2> HIDE DEF pending
  <2>3. Distinct(Tail(pending))
    BY <2>1, HeadTailProperties DEF Distinct
  <2> QED
    BY <2>2, <2>3, SaveDone, MovesDone
<1>9. CASE Crash
  BY <1>9, IdleDone DEF DoneInv, Crash
<1>10. CASE UNCHANGED vars
  BY <1>10 DEF DoneInv, vars
<1> QED
  BY <1>1, <1>2, <1>3, <1>4, <1>5, <1>6, <1>7, <1>8, <1>9, <1>10 DEF Next

-----------------------------------------------------------------------------
(* The inductive invariant behind RepeatsHaveAReason, file by file.  f is a  *)
(* file that nothing has happened to, g its generation, end its size and c   *)
(* its row: Loki has none of the bytes that a call has read, and no byte     *)
(* beyond the cursor, be it the row or the one that the call will save.      *)
Has(pending, f) == \E i \in 1..Len(pending) : pending[i].file = f

Saves(q, f) == q.at = "save" /\ Has(q.pending, f)

AllSound(g, end, f, pending, S) ==
  \A i \in 1..Len(pending) : pending[i].file = f => Sound(g, end, f, pending[i], S)

AllNew(g, f, pending, bytes, lok) ==
  \A h, n \in Nat : <<f, h, n>> \in bytes => <<f, h, n>> \notin lok /\ h <= g /\ Has(pending, f)

CallFresh(g, end, f, c, lok, q) ==
  /\ q.at = "save" => AllSound(g, end, f, q.pending, lok)
  /\ Reads(q) => /\ AllSound(g, end, f, q.pending, lok \cup q.bytes)
                 /\ AllNew(g, f, q.pending, q.bytes, lok)
  /\ AtFile(q) /\ FileList[q.next] = f => q.prev = c
  /\ q.at = "tail" /\ FileList[q.next] = f => q.sees /\ (q.prev.gen = g => q.prev.off <= q.size)

NoLater(g, f, S) == \A h, n \in Nat : <<f, h, n>> \in S => h <= g

FileFresh(f) ==
  /\ \A p, q \in Busy : p = q
  /\ NoLater(gen[f], f, loki)
  /\ (\A p \in Pulls : ~ Saves(pull[p], f)) => Sound(gen[f], size[f], f, cursor[f], loki)
  /\ \A p \in Pulls : CallFresh(gen[f], size[f], f, cursor[f], loki, pull[p])

FreshInv == \A f \in Files \ excused : FileFresh(f)

LEMMA SoundSame ==
  ASSUME NEW g, NEW end, NEW f, NEW c, NEW S, NEW T, Sound(g, end, f, c, S),
         \A n \in Nat : <<f, g, n>> \in T => <<f, g, n>> \in S
  PROVE  Sound(g, end, f, c, T)
  BY DEF Sound

LEMMA AllSoundSame ==
  ASSUME NEW g, NEW end, NEW f, NEW pending, NEW S, NEW T, AllSound(g, end, f, pending, S),
         \A n \in Nat : <<f, g, n>> \in T => <<f, g, n>> \in S
  PROVE  AllSound(g, end, f, pending, T)
  BY SoundSame DEF AllSound

LEMMA IdleFresh ==
  ASSUME NEW g, NEW end, NEW f, NEW c, NEW lok
  PROVE  CallFresh(g, end, f, c, lok, Idle) /\ ~ Saves(Idle, f)
  BY DEF CallFresh, Idle, Reads, AtFile, Saves

LEMMA ReadingFresh ==
  ASSUME NEW g, NEW end, NEW f, NEW c, NEW lok, NEW next, NEW bytes, NEW pending,
         AllSound(g, end, f, pending, lok \cup bytes), AllNew(g, f, pending, bytes, lok)
  PROVE  /\ CallFresh(g, end, f, c, lok, Reading(next, bytes, pending))
         /\ ~ Saves(Reading(next, bytes, pending), f)
  BY DEF CallFresh, Reading, Reads, AtFile, Saves

LEMMA SaveFresh ==
  ASSUME NEW g, NEW end, NEW f, NEW c, NEW lok, NEW pending \in Seq(Entries),
         AllSound(g, end, f, pending, lok)
  PROVE  /\ CallFresh(g, end, f, c, lok, Save(pending))
         /\ Saves(Save(pending), f) <=> Has(pending, f)
<1>1. CASE pending = <<>>
  <2>1. Save(pending) = Idle /\ ~ Has(pending, f)
    BY <1>1 DEF Save, Has
  <2> QED
    BY <2>1, IdleFresh
<1>2. CASE pending # <<>>
  BY <1>2 DEF Save, CallFresh, Reads, AtFile, Saves
<1> QED
  BY <1>1, <1>2

(* A file is fresh only while there is one call at most: what a step of that *)
(* call has to show for it.                                                  *)
LEMMA MovesFresh ==
  ASSUME Typed, FreshInv, NEW p, NEW q, Moves(p, q), p \in Busy \/ Busy = {},
         UNCHANGED <<gen, size>>, NEW f \in Files \ excused,
         NoLater(gen[f], f, loki'),
         ~ Saves(q, f) => Sound(gen[f], size[f], f, cursor'[f], loki'),
         CallFresh(gen[f], size[f], f, cursor'[f], loki', q)
  PROVE  FileFresh(f)'
<1>1. \A r \in Pulls : r # p => pull'[r] = Idle
  BY MovesTo DEF FreshInv, FileFresh, Busy
<1>2. pull'[p] = q /\ p \in Pulls
  BY MovesTo DEF Moves
<1>3. \A r \in Pulls : CallFresh(gen[f], size[f], f, cursor'[f], loki', pull'[r])
  BY <1>1, <1>2, IdleFresh
<1>4. (\A r, s \in Busy : r = s)'
  BY <1>1 DEF Busy
<1>5. (\A r \in Pulls : ~ Saves(pull'[r], f)) => ~ Saves(q, f)
  BY <1>2
<1> QED
  BY <1>3, <1>4, <1>5 DEF FileFresh

(* While a call is not writing cursors, the rows are sound.                  *)
LEMMA RowSound ==
  ASSUME FreshInv, NEW p \in Pulls, p \in Busy \/ Busy = {}, pull[p].at # "save",
         NEW f \in Files \ excused
  PROVE  /\ Sound(gen[f], size[f], f, cursor[f], loki) /\ NoLater(gen[f], f, loki)
         /\ CallFresh(gen[f], size[f], f, cursor[f], loki, pull[p])
<1>1. FileFresh(f)
  BY DEF FreshInv
<1>2. \A r \in Pulls : r # p => pull[r] = Idle
  BY <1>1 DEF FileFresh, Busy
<1>3. \A r \in Pulls : ~ Saves(pull[r], f)
  BY <1>2, IdleFresh DEF Saves
<1> QED
  BY <1>1, <1>3 DEF FileFresh

LEMMA InitFresh == Init => FreshInv
<1> SUFFICES ASSUME Init, NEW f \in Files
             PROVE  FileFresh(f)
  BY DEF FreshInv
<1>1. \A p \in Pulls : pull[p] = Idle
  BY DEF Init
<1>2. /\ gen[f] = 0 /\ size[f] = 1 /\ cursor[f].off = 0 /\ cursor[f].gen = 0 /\ loki = {}
  BY DEF Init
<1>3. Sound(gen[f], size[f], f, cursor[f], loki)
  BY <1>2 DEF Sound
<1>4. NoLater(gen[f], f, loki)
  BY <1>2 DEF NoLater
<1> QED
  BY <1>1, <1>3, <1>4, IdleFresh DEF FileFresh, Busy

(* The file grows, or another takes its place.                               *)
LEMMA AllSoundGrows ==
  ASSUME NEW g, NEW end \in Nat, NEW more \in Nat, end <= more, NEW f, NEW pending \in Seq(Entries), NEW S,
         AllSound(g, end, f, pending, S)
  PROVE  AllSound(g, more, f, pending, S)
<1>1. ASSUME NEW i \in 1..Len(pending)
      PROVE  pending[i].off \in Nat
  <2>1. pending[i] \in Entries
    OBVIOUS
  <2> QED
    BY <2>1 DEF Entries
<1> QED
  BY <1>1, SoundGrows DEF AllSound

LEMMA AllSoundRotates ==
  ASSUME NEW g \in Nat, NEW end, NEW f, NEW pending \in Seq(Entries), NEW S,
         AllSound(g, end, f, pending, S), NoLater(g, f, S)
  PROVE  AllSound(g + 1, 0, f, pending, S)
<1>1. ASSUME NEW i \in 1..Len(pending)
      PROVE  pending[i].gen \in Nat
  <2>1. pending[i] \in Entries
    OBVIOUS
  <2> QED
    BY <2>1 DEF Entries
<1>2. \A n \in Nat : <<f, g + 1, n>> \notin S
  BY DEF NoLater
<1> QED
  BY <1>1, <1>2, SoundRotates DEF AllSound

LEMMA CallGrows ==
  ASSUME NEW g, NEW end \in Nat, NEW more \in Nat, end <= more, NEW f, NEW c, NEW lok,
         NEW q, PullTyped(q), CallFresh(g, end, f, c, lok, q)
  PROVE  CallFresh(g, more, f, c, lok, q)
<1>1. q.at = "save" \/ Reads(q) => q.pending \in Seq(Entries)
  BY PullKinds
<1>2. q.at = "save" => AllSound(g, more, f, q.pending, lok)
  BY <1>1, AllSoundGrows DEF CallFresh
<1>3. Reads(q) => AllSound(g, more, f, q.pending, lok \cup q.bytes)
  BY <1>1, AllSoundGrows DEF CallFresh
<1> QED
  BY <1>2, <1>3 DEF CallFresh

LEMMA CallRotates ==
  ASSUME NEW g \in Nat, NEW end, NEW f, NEW c, c.gen \in Nat, NEW lok, NoLater(g, f, lok),
         NEW q, PullTyped(q), CallFresh(g, end, f, c, lok, q), q.at = "tail" => c.gen <= g
  PROVE  CallFresh(g + 1, 0, f, c, lok, q)
<1>1. q.at = "save" \/ Reads(q) => q.pending \in Seq(Entries)
  BY PullKinds
<1>2. q.at = "save" => AllSound(g + 1, 0, f, q.pending, lok)
  BY <1>1, AllSoundRotates DEF CallFresh
<1>3. Reads(q) => NoLater(g, f, lok \cup q.bytes)
  BY DEF CallFresh, NoLater, AllNew
<1>4. Reads(q) => AllSound(g + 1, 0, f, q.pending, lok \cup q.bytes)
  BY <1>1, <1>3, AllSoundRotates DEF CallFresh
<1>5. Reads(q) => AllNew(g + 1, f, q.pending, q.bytes, lok)
  BY DEF CallFresh, AllNew
<1>6. q.at = "tail" /\ FileList[q.next] = f => q.prev.gen # g + 1
  BY DEF CallFresh, AtFile
<1> QED
  BY <1>2, <1>4, <1>5, <1>6 DEF CallFresh

LEMMA HostFresh ==
  ASSUME Typed, FreshInv, NEW e \in Files, Write(e) \/ Rotate(e) \/ Hide(e) \/ Show(e)
  PROVE  FreshInv'
<1> USE DEF Typed
<1>1. UNCHANGED <<cursor, loki, pull, excused>>
  BY DEF Write, Rotate, Hide, Show
<1> SUFFICES ASSUME NEW f \in Files \ excused
             PROVE  FileFresh(f)'
  BY <1>1 DEF FreshInv
<1>2. FileFresh(f)
  BY DEF FreshInv
<1>3. /\ gen[f] \in Nat /\ size[f] \in Nat /\ cursor[f].gen \in Nat /\ cursor[f].off \in Nat
      /\ \A p \in Pulls : PullTyped(pull[p])
  BY DEF Marks
<1>4. CASE gen'[f] = gen[f] /\ size'[f] \in Nat /\ size[f] <= size'[f]
  <2>1. (\A p \in Pulls : ~ Saves(pull[p], f)) => Sound(gen[f], size'[f], f, cursor[f], loki)
    BY <1>2, <1>3, <1>4, SoundGrows DEF FileFresh
  <2>2. \A p \in Pulls : CallFresh(gen[f], size'[f], f, cursor[f], loki, pull[p])
    BY <1>2, <1>3, <1>4, CallGrows DEF FileFresh
  <2> QED
    BY <1>1, <1>2, <1>4, <2>1, <2>2 DEF FileFresh, Busy
<1>5. CASE gen'[f] = gen[f] + 1 /\ size'[f] = 0
  <2>1. NoLater(gen[f], f, loki) /\ \A n \in Nat : <<f, gen[f] + 1, n>> \notin loki
    BY <1>2, <1>3 DEF FileFresh, NoLater
  <2>2. NoLater(gen[f] + 1, f, loki)
    BY <1>3, <2>1 DEF NoLater
  <2>3. (\A p \in Pulls : ~ Saves(pull[p], f)) => Sound(gen[f] + 1, 0, f, cursor[f], loki)
    BY <1>2, <1>3, <2>1, SoundRotates DEF FileFresh
  <2>4. ASSUME NEW p \in Pulls
        PROVE  CallFresh(gen[f] + 1, 0, f, cursor[f], loki, pull[p])
    <3>1. ASSUME pull[p].at = "tail"
          PROVE  cursor[f].gen <= gen[f]
      <4>1. p \in Busy
        BY <3>1 DEF Busy, Idle
      <4>2. Sound(gen[f], size[f], f, cursor[f], loki)
        BY <3>1, <4>1, RowSound
      <4> QED
        BY <4>2 DEF Sound
    <3>2. CallFresh(gen[f], size[f], f, cursor[f], loki, pull[p])
      BY <1>2 DEF FileFresh
    <3> QED
      BY <1>3, <2>1, <3>1, <3>2, CallRotates
  <2> QED
    BY <1>1, <1>2, <1>5, <2>2, <2>3, <2>4 DEF FileFresh, Busy
<1>6. \/ gen'[f] = gen[f] /\ size'[f] \in Nat /\ size[f] <= size'[f]
      \/ gen'[f] = gen[f] + 1 /\ size'[f] = 0
  <2>1. CASE Write(e)
    BY <1>3, <2>1 DEF Write
  <2>2. CASE Rotate(e)
    BY <1>3, <2>2 DEF Rotate
  <2>3. CASE Hide(e) \/ Show(e)
    BY <1>3, <2>3 DEF Hide, Show
  <2> QED
    BY <2>1, <2>2, <2>3
<1> QED
  BY <1>4, <1>5, <1>6

LEMMA StartFresh ==
  ASSUME Typed, FreshInv, NEW p \in Pulls, PullStart(p)
  PROVE  FreshInv'
<1> SUFFICES ASSUME NEW f \in Files \ excused'
             PROVE  FileFresh(f)'
  BY DEF FreshInv
<1>1. f \in Files \ excused /\ Busy = {} /\ UNCHANGED <<gen, size, cursor, loki>>
  BY DEF PullStart, host
<1>2. Moves(p, Reading(1, {}, <<>>))
  BY DEF Moves, PullStart
<1>3. Sound(gen[f], size[f], f, cursor[f], loki) /\ NoLater(gen[f], f, loki)
  BY <1>1, RowSound DEF PullStart, Idle
<1>4. /\ AllSound(gen[f], size[f], f, <<>>, loki \cup {})
      /\ AllNew(gen[f], f, <<>>, {}, loki)
  BY DEF AllSound, AllNew
<1>5. CallFresh(gen[f], size[f], f, cursor[f], loki, Reading(1, {}, <<>>))
  BY <1>4, ReadingFresh
<1> QED
  BY <1>1, <1>2, <1>3, <1>5, MovesFresh

LEMMA ReadCursorFresh ==
  ASSUME Typed, FreshInv, NEW p \in Pulls, ReadCursor(p)
  PROVE  FreshInv'
<1> DEFINE q == [at |-> "stat", next |-> pull[p].next, bytes |-> pull[p].bytes,
                 pending |-> pull[p].pending, prev |-> cursor[File(p)]]
<1> SUFFICES ASSUME NEW f \in Files \ excused'
             PROVE  FileFresh(f)'
  BY DEF FreshInv
<1>1. f \in Files \ excused /\ UNCHANGED <<gen, size, cursor, loki>>
  BY DEF ReadCursor, host
<1>2. Moves(p, q)
  BY DEF Moves, ReadCursor, Typed
<1>3. p \in Busy /\ Reads(pull[p]) /\ pull[p].at # "save"
  BY DEF ReadCursor, Busy, Idle, Reads
<1>4. /\ Sound(gen[f], size[f], f, cursor[f], loki) /\ NoLater(gen[f], f, loki)
      /\ CallFresh(gen[f], size[f], f, cursor[f], loki, pull[p])
  BY <1>1, <1>3, RowSound
<1>5. CallFresh(gen[f], size[f], f, cursor[f], loki, q)
  BY <1>3, <1>4 DEF CallFresh, AtFile, File
<1> HIDE DEF q
<1> QED
  BY <1>1, <1>2, <1>3, <1>4, <1>5, MovesFresh

LEMMA FileFailsFresh ==
  ASSUME Typed, FreshInv, NEW p \in Pulls, FileFails(p)
  PROVE  FreshInv'
<1> DEFINE q == Reading(pull[p].next + 1, pull[p].bytes, pull[p].pending)
<1> SUFFICES ASSUME NEW f \in Files \ excused'
             PROVE  FileFresh(f)'
  BY DEF FreshInv
<1>1. f \in Files \ excused /\ UNCHANGED <<gen, size, cursor, loki>>
  BY DEF FileFails, host
<1>2. Moves(p, q)
  BY DEF Moves, FileFails, Typed
<1>3. p \in Busy /\ Reads(pull[p]) /\ pull[p].at # "save"
  BY DEF FileFails, Busy, Idle, Reads
<1>4. /\ Sound(gen[f], size[f], f, cursor[f], loki) /\ NoLater(gen[f], f, loki)
      /\ CallFresh(gen[f], size[f], f, cursor[f], loki, pull[p])
  BY <1>1, <1>3, RowSound
<1>5. CallFresh(gen[f], size[f], f, cursor[f], loki, q)
  <2>1. /\ AllSound(gen[f], size[f], f, pull[p].pending, loki \cup pull[p].bytes)
        /\ AllNew(gen[f], f, pull[p].pending, pull[p].bytes, loki)
    BY <1>3, <1>4 DEF CallFresh
  <2> QED
    BY <2>1, ReadingFresh
<1> HIDE DEF q
<1> QED
  BY <1>1, <1>2, <1>3, <1>4, <1>5, MovesFresh

(* An unreadable file has the size 0, which looks like a rotation.           *)
LEMMA StatFresh ==
  ASSUME Typed, FreshInv, NEW p \in Pulls, Stat(p)
  PROVE  FreshInv'
<1> DEFINE e == File(p)
           sz == IF readable[e] THEN size[e] ELSE 0
           q == [at |-> "tail", next |-> pull[p].next, bytes |-> pull[p].bytes,
                 pending |-> pull[p].pending, prev |-> pull[p].prev, sees |-> readable[e],
                 size |-> sz]
<1> SUFFICES ASSUME NEW f \in Files \ excused'
             PROVE  FileFresh(f)'
  BY DEF FreshInv
<1>1. f \in Files \ excused /\ UNCHANGED <<gen, size, cursor, loki>>
  BY DEF Stat, host
<1>2. Moves(p, q)
  BY DEF Moves, Stat, Typed
<1>3. /\ p \in Busy /\ Reads(pull[p]) /\ AtFile(pull[p]) /\ pull[p].at # "save"
      /\ e = FileList[pull[p].next]
  BY DEF Stat, Busy, Idle, Reads, AtFile, File
<1>4. e = f => readable[e] = TRUE /\ sz = size[f]
  <2>1. readable[f] \in BOOLEAN
    BY DEF Typed
  <2> QED
    BY <2>1 DEF Stat
<1>5. /\ Sound(gen[f], size[f], f, cursor[f], loki) /\ NoLater(gen[f], f, loki)
      /\ CallFresh(gen[f], size[f], f, cursor[f], loki, pull[p])
  BY <1>1, <1>3, RowSound
<1> HIDE DEF e, sz
<1>6. CallFresh(gen[f], size[f], f, cursor[f], loki, q)
  <2>1. /\ AllSound(gen[f], size[f], f, pull[p].pending, loki \cup pull[p].bytes)
        /\ AllNew(gen[f], f, pull[p].pending, pull[p].bytes, loki)
    BY <1>3, <1>5 DEF CallFresh
  <2>2. e = f => pull[p].prev = cursor[f]
    BY <1>3, <1>5 DEF CallFresh
  <2>3. e = f => (pull[p].prev.gen = gen[f] => pull[p].prev.off <= sz)
    BY <1>4, <1>5, <2>2 DEF Sound
  <2> QED
    BY <1>3, <1>4, <2>1, <2>2, <2>3 DEF CallFresh
<1> HIDE DEF q
<1> QED
  BY <1>1, <1>2, <1>3, <1>5, <1>6, MovesFresh

(* What a push that failed may have brought to Loki excuses its files.       *)
LEMMA PushFresh ==
  ASSUME Typed, FreshInv, NEW p \in Pulls, Push(p)
  PROVE  FreshInv'
<1> SUFFICES ASSUME NEW f \in Files \ excused'
             PROVE  FileFresh(f)'
  BY DEF FreshInv
<1>1. /\ f \in Files \ excused /\ UNCHANGED <<gen, size, cursor>>
      /\ p \in Busy /\ Reads(pull[p]) /\ pull[p].at # "save"
  BY DEF Push, host, Busy, Idle, Reads
<1> DEFINE pending == pull[p].pending
           bytes == pull[p].bytes
<1>2. PICK ok \in BOOLEAN, taken \in BOOLEAN :
        /\ ok => taken
        /\ loki' = IF taken THEN loki \cup bytes ELSE loki
        /\ Moves(p, IF ok THEN Save(pending) ELSE Idle)
        /\ taken /\ ~ ok => f \notin Touched(bytes)
  BY DEF Push, Moves
<1>3. pending \in Seq(Entries)
  BY <1>1, PullKinds DEF Typed
<1>4. /\ Sound(gen[f], size[f], f, cursor[f], loki) /\ NoLater(gen[f], f, loki)
      /\ AllSound(gen[f], size[f], f, pending, loki \cup bytes)
      /\ AllNew(gen[f], f, pending, bytes, loki)
  BY <1>1, RowSound DEF CallFresh
<1>5. NoLater(gen[f], f, loki')
  BY <1>2, <1>4 DEF NoLater, AllNew
<1>6. ~ Has(pending, f) \/ (taken /\ ~ ok) => \A h, n \in Nat : <<f, h, n>> \notin bytes
  <2>1. \A h, n : <<f, h, n>> \in bytes => f \in Touched(bytes)
    BY DEF Touched
  <2> QED
    BY <1>2, <1>4, <2>1 DEF AllNew
<1> HIDE DEF pending, bytes
<1>7. CASE ok
  <2>1. loki' = loki \cup bytes /\ Moves(p, Save(pending))
    BY <1>2, <1>7
  <2>2. /\ CallFresh(gen[f], size[f], f, cursor[f], loki', Save(pending))
        /\ Saves(Save(pending), f) <=> Has(pending, f)
    BY <1>3, <1>4, <2>1, SaveFresh
  <2>3. ~ Has(pending, f) => Sound(gen[f], size[f], f, cursor[f], loki')
    <3>1. gen[f] \in Nat
      BY DEF Typed
    <3> QED
      BY <1>4, <1>6, <2>1, <3>1, SoundSame
  <2> QED
    BY <1>1, <1>5, <2>1, <2>2, <2>3, MovesFresh
<1>8. CASE ~ ok
  <2>1. Sound(gen[f], size[f], f, cursor[f], loki')
    <3>1. gen[f] \in Nat
      BY DEF Typed
    <3>2. \A n \in Nat : <<f, gen[f], n>> \in loki' => <<f, gen[f], n>> \in loki
      BY <1>2, <1>6, <1>8, <3>1
    <3> QED
      BY <1>4, <3>2, SoundSame
  <2>2. Moves(p, Idle)
    BY <1>2, <1>8
  <2> QED
    BY <1>1, <1>5, <2>1, <2>2, IdleFresh, MovesFresh
<1> QED
  BY <1>7, <1>8

LEMMA CrashFresh ==
  ASSUME Typed, FreshInv, Crash
  PROVE  FreshInv'
<1> SUFFICES ASSUME NEW f \in Files \ excused'
             PROVE  FileFresh(f)'
  BY DEF FreshInv
<1>1. /\ f \in Files \ excused /\ UNCHANGED <<gen, size, cursor, loki>>
      /\ \A p \in Pulls : pull'[p] = Idle
  BY DEF Crash, host
<1>2. ASSUME NEW p \in Pulls
      PROVE  ~ Saves(pull[p], f)
  <2>1. pull[p].at = "save" => p \in Busy /\ pull[p].pending \in Seq(Entries)
    BY PullKinds DEF Typed, Busy
  <2>2. pull[p].at = "save" => DOMAIN pull[p].pending = 1..Len(pull[p].pending)
    BY <2>1
  <2> QED
    BY <2>1, <2>2 DEF Crash, Saves, Has
<1>3. Sound(gen[f], size[f], f, cursor[f], loki) /\ NoLater(gen[f], f, loki)
  BY <1>1, <1>2 DEF FreshInv, FileFresh
<1>4. \A p \in Pulls : CallFresh(gen[f], size[f], f, cursor[f], loki, pull'[p])
  BY <1>1, IdleFresh
<1>5. (\A p, q \in Busy : p = q)'
  BY <1>1 DEF Busy
<1> QED
  BY <1>1, <1>3, <1>4, <1>5 DEF FileFresh

LEMMA AllSoundAppend ==
  ASSUME NEW g, NEW end, NEW f, NEW pending \in Seq(Entries), NEW e \in Entries, NEW S,
         AllSound(g, end, f, pending, S), e.file = f => Sound(g, end, f, e, S)
  PROVE  AllSound(g, end, f, Append(pending, e), S)
<1> SUFFICES ASSUME NEW i \in 1..Len(Append(pending, e)), Append(pending, e)[i].file = f
             PROVE  Sound(g, end, f, Append(pending, e)[i], S)
  BY DEF AllSound
<1>1. CASE i \in 1..Len(pending)
  <2>1. Append(pending, e)[i] = pending[i]
    BY <1>1
  <2> QED
    BY <1>1, <2>1 DEF AllSound
<1>2. CASE i = Len(pending) + 1
  <2>1. Append(pending, e)[i] = e
    BY <1>2
  <2> QED
    BY <2>1
<1> QED
  BY <1>1, <1>2

LEMMA HasAppend ==
  ASSUME NEW pending \in Seq(Entries), NEW e \in Entries
  PROVE  /\ Has(Append(pending, e), e.file)
         /\ \A f : Has(pending, f) => Has(Append(pending, e), f)
<1>1. /\ Len(Append(pending, e)) = Len(pending) + 1 /\ Append(pending, e)[Len(pending) + 1] = e
      /\ \A i \in 1..Len(pending) : Append(pending, e)[i] = pending[i]
      /\ Len(pending) \in Nat
  OBVIOUS
<1> DEFINE s == Append(pending, e)
           m == Len(pending)
<1> HIDE DEF s, m
<1>2. Len(s) = m + 1 /\ s[m + 1] = e /\ m \in Nat /\ \A i \in 1..m : s[i] = pending[i]
  BY <1>1 DEF s, m
<1>3. m + 1 \in 1..Len(s) /\ 1..m \subseteq 1..Len(s)
  BY <1>2
<1>4. Has(s, e.file)
  BY <1>2, <1>3 DEF Has
<1>5. ASSUME NEW f, Has(pending, f)
      PROVE  Has(s, f)
  BY <1>2, <1>3, <1>5 DEF Has, m
<1> QED
  BY <1>4, <1>5 DEF s

(* The file a call has come to is none of those it has done.                 *)
LEMMA NotDone ==
  ASSUME NEW pending, NEW next \in 1..Len(FileList), Done(pending, next)
  PROVE  ~ Has(pending, FileList[next])
<1> SUFFICES ASSUME NEW i \in 1..Len(pending), pending[i].file = FileList[next]
             PROVE  FALSE
  BY DEF Has
<1>1. PICK k \in 1..(next - 1) : pending[i].file = FileList[k]
  BY DEF Done
<1>2. k \in 1..Len(FileList) /\ k # next
  BY FilesOK
<1> QED
  BY <1>1, <1>2, FilesOK

LEMMA TailFresh ==
  ASSUME Typed, DoneInv, FreshInv, NEW p \in Pulls, TailBody(p)
  PROVE  FreshInv'
<1> SUFFICES ASSUME NEW f \in Files \ excused'
             PROVE  FileFresh(f)'
  BY DEF FreshInv
<1>1. PICK e, prev, sz, body, k : TailFinds(p, e, prev, sz, body, k)
  BY TailBodyIs
<1> DEFINE q == pull[p]
           entry == Counted(e, prev, sz, gen[e], body)
           new == Found(e, gen[e], body)
<1>2. /\ f \in Files \ excused /\ UNCHANGED <<gen, size, cursor, loki>>
      /\ p \in Busy /\ Reads(q) /\ AtFile(q) /\ q.at = "tail" /\ q.at # "save"
  BY <1>1 DEF TailFinds, Busy, Idle
<1>3. /\ q.pending \in Seq(Entries) /\ q.next \in 1..Len(FileList) /\ prev \in Marks /\ sz \in Nat
      /\ e \in Files /\ gen[e] \in Nat /\ size[e] \in Nat /\ e = FileList[q.next] /\ prev = q.prev
      /\ sz = q.size /\ Printed(body, Start(prev.off, sz), k, size[e])
  BY <1>1, <1>2, PullKinds DEF TailFinds, Typed
<1>4. entry \in Entries /\ entry.file = e
  BY <1>3, CountedTyped DEF Counted
<1>5. /\ Sound(gen[f], size[f], f, cursor[f], loki) /\ NoLater(gen[f], f, loki)
      /\ CallFresh(gen[f], size[f], f, cursor[f], loki, q)
  BY <1>2, RowSound
<1>6. AllSound(gen[f], size[f], f, q.pending, loki \cup q.bytes) /\ AllNew(gen[f], f, q.pending, q.bytes, loki)
  BY <1>2, <1>5 DEF CallFresh
<1>7. f = e => /\ Sound(gen[f], size[f], f, entry, loki \cup new)
               /\ \A n \in body : <<f, gen[f], n>> \notin loki
               /\ \A h, n \in Nat : <<f, h, n>> \notin q.bytes
  <2> SUFFICES ASSUME f = e
               PROVE  /\ Sound(gen[e], size[e], e, entry, loki \cup new)
                      /\ \A n \in body : <<e, gen[e], n>> \notin loki
                      /\ \A h, n \in Nat : <<e, h, n>> \notin q.bytes
    OBVIOUS
  <2>1. Sound(gen[e], size[e], e, prev, loki) /\ (prev.gen = gen[e] => prev.off <= sz)
    BY <1>2, <1>3, <1>5 DEF CallFresh
  <2>2. sz >= prev.off => prev.off + k <= sz
    <3>1. ~ (sz >= prev.off /\ prev.off + k > sz)
      BY <1>1 DEF TailFinds
    <3> QED
      BY <1>3, <3>1 DEF Marks, Printed
  <2>3. /\ Sound(gen[e], size[e], e, entry, loki \cup new)
        /\ \A n \in body : <<e, gen[e], n>> \notin loki
    <3> DEFINE g == gen[e]
               end == size[e]
    <3>1. g \in Nat /\ end \in Nat /\ Printed(body, Start(prev.off, sz), k, end)
          /\ Sound(g, end, e, prev, loki) /\ (prev.gen = g => prev.off <= sz)
      BY <1>3, <2>1
    <3> HIDE DEF g, end
    <3>2. /\ Sound(g, end, e, Counted(e, prev, sz, g, body), loki \cup Found(e, g, body))
          /\ \A n \in body : <<e, g, n>> \notin loki
      BY <1>3, <2>2, <3>1, CountedSound
    <3> QED
      BY <3>2 DEF g, end
  <2>4. Done(q.pending, q.next)
    BY <1>2 DEF DoneInv, DoneFiles
  <2>5. ~ Has(q.pending, e)
    BY <1>3, <2>4, NotDone
  <2> QED
    BY <1>6, <2>3, <2>5 DEF AllNew
<1>8. gen[f] \in Nat /\ \A h, n : <<f, h, n>> \in new => f = e /\ h = gen[f] /\ n \in body
  BY DEF Found, Typed
<1> DEFINE bytes == q.bytes \cup new
           pending == Append(q.pending, entry)
<1>9. Moves(p, Reading(q.next + 1, bytes, pending))
  BY <1>1 DEF TailFinds
<1> HIDE DEF q, entry, new
<1>10. AllSound(gen[f], size[f], f, pending, loki \cup bytes)
  <2>1. CASE f = e
    <3>1. \A n \in Nat : <<f, gen[f], n>> \in loki \cup bytes => <<f, gen[f], n>> \in loki \cup new
      BY <1>7, <1>8, <2>1
    <3>2. Sound(gen[f], size[f], f, entry, loki \cup bytes)
      BY <1>7, <2>1, <3>1, SoundSame
    <3>3. AllSound(gen[f], size[f], f, q.pending, loki \cup bytes)
      <4>1. ~ Has(q.pending, f)
        <5>1. Done(q.pending, q.next)
          BY <1>2 DEF DoneInv, DoneFiles, q
        <5> QED
          BY <1>3, <2>1, <5>1, NotDone
      <4> QED
        BY <4>1 DEF Has, AllSound
    <3> HIDE DEF bytes
    <3> QED
      BY <1>3, <1>4, <2>1, <3>2, <3>3, AllSoundAppend
  <2>2. CASE f # e
    <3>1. \A n \in Nat : <<f, gen[f], n>> \in loki \cup bytes => <<f, gen[f], n>> \in loki \cup q.bytes
      BY <1>8, <2>2
    <3>2. AllSound(gen[f], size[f], f, q.pending, loki \cup bytes)
      BY <1>6, <3>1, AllSoundSame
    <3> HIDE DEF bytes
    <3> QED
      BY <1>3, <1>4, <2>2, <3>2, AllSoundAppend
  <2> QED
    BY <2>1, <2>2
<1>11. AllNew(gen[f], f, pending, bytes, loki)
  <2> SUFFICES ASSUME NEW h \in Nat, NEW n \in Nat, <<f, h, n>> \in bytes
               PROVE  <<f, h, n>> \notin loki /\ h <= gen[f] /\ Has(pending, f)
    BY DEF AllNew
  <2>1. CASE <<f, h, n>> \in q.bytes
    BY <1>3, <1>4, <1>6, <2>1, HasAppend DEF AllNew
  <2>2. CASE <<f, h, n>> \in new
    BY <1>3, <1>4, <1>7, <1>8, <2>2, HasAppend
  <2> QED
    BY <2>1, <2>2
<1> HIDE DEF bytes, pending
<1>12. CallFresh(gen[f], size[f], f, cursor[f], loki, Reading(q.next + 1, bytes, pending))
  BY <1>10, <1>11, ReadingFresh
<1> QED
  BY <1>2, <1>5, <1>9, <1>12, MovesFresh

LEMMA WriteCursorFresh ==
  ASSUME Typed, DoneInv, FreshInv, NEW p \in Pulls, WriteCursor(p)
  PROVE  FreshInv'
<1> SUFFICES ASSUME NEW f \in Files \ excused'
             PROVE  FileFresh(f)'
  BY DEF FreshInv
<1> DEFINE pending == pull[p].pending
           e == Head(pending)
           c == [off |-> e.off, gen |-> e.gen]
<1>1. /\ f \in Files \ excused /\ UNCHANGED <<gen, size, loki>>
      /\ p \in Busy /\ pull[p].at = "save"
  BY DEF WriteCursor, host, Busy, Idle
<1>2. pending \in Seq(Entries) /\ pending # <<>> /\ Distinct(pending)
  BY <1>1, PullKinds DEF DoneInv, DoneFiles, Typed
<1>3. /\ NoLater(gen[f], f, loki) /\ AllSound(gen[f], size[f], f, pending, loki)
      /\ ~ Saves(pull[p], f) => Sound(gen[f], size[f], f, cursor[f], loki)
  <2>1. FileFresh(f)
    BY <1>1 DEF FreshInv
  <2>2. \A r \in Pulls : r # p => ~ Saves(pull[r], f)
    BY <1>1, <2>1, IdleFresh DEF FileFresh, Busy
  <2> QED
    BY <1>1, <2>1, <2>2 DEF FileFresh, CallFresh
<1>4. Moves(p, Save(Tail(pending)))
  BY DEF WriteCursor, Moves
<1>5. cursor' = [cursor EXCEPT ![e.file] = c] \/ (cursor' = cursor /\ f # e.file)
  BY DEF WriteCursor
<1>6. Saves(pull[p], f) <=> Has(pending, f)
  BY <1>1 DEF Saves
<1> HIDE DEF pending
<1>7. /\ Tail(pending) \in Seq(Entries) /\ Len(pending) \in Nat \ {0} /\ e = pending[1]
      /\ Len(Tail(pending)) = Len(pending) - 1
      /\ \A i \in 1..(Len(pending) - 1) : Tail(pending)[i] = pending[i + 1]
  BY <1>2, HeadTailProperties
<1>8. AllSound(gen[f], size[f], f, Tail(pending), loki)
  BY <1>3, <1>7 DEF AllSound
<1>9. Has(pending, f) => e.file = f \/ Has(Tail(pending), f)
  <2> SUFFICES ASSUME NEW i \in 1..Len(pending), pending[i].file = f, i # 1
               PROVE  Has(Tail(pending), f)
    BY <1>7 DEF Has
  <2>1. i - 1 \in 1..Len(Tail(pending)) /\ Tail(pending)[i - 1] = pending[i]
    BY <1>7
  <2> QED
    BY <2>1 DEF Has
<1>10. CallFresh(gen[f], size[f], f, cursor'[f], loki, Save(Tail(pending)))
       /\ (Saves(Save(Tail(pending)), f) <=> Has(Tail(pending), f))
  BY <1>7, <1>8, SaveFresh
<1>11. e.file = f => Sound(gen[f], size[f], f, c, loki)
  <2>1. 1 \in 1..Len(pending)
    BY <1>7
  <2>2. e.file = f => Sound(gen[f], size[f], f, e, loki)
    BY <1>3, <1>7, <2>1 DEF AllSound
  <2> QED
    BY <2>2 DEF Sound
<1>12. ~ Has(Tail(pending), f) => Sound(gen[f], size[f], f, cursor'[f], loki)
  <2>1. CASE e.file = f
    <3>1. cursor'[f] = c
      BY <1>5, <2>1 DEF Typed
    <3> QED
      BY <1>11, <2>1, <3>1
  <2>2. CASE e.file # f
    <3>1. cursor'[f] = cursor[f]
      BY <1>5, <2>2 DEF Typed
    <3> QED
      BY <1>3, <1>6, <1>9, <2>2, <3>1
  <2> QED
    BY <2>1, <2>2
<1> QED
  BY <1>1, <1>3, <1>4, <1>10, <1>12, MovesFresh

LEMMA FreshStep == Typed /\ DoneInv /\ FreshInv /\ [Next]_vars => FreshInv'
<1> SUFFICES ASSUME Typed, DoneInv, FreshInv, [Next]_vars
             PROVE  FreshInv'
  OBVIOUS
<1>1. CASE UNCHANGED vars
  BY <1>1 DEF FreshInv, FileFresh, Busy, vars
<1>2. CASE Next
  BY <1>2, HostFresh, StartFresh, ReadCursorFresh, FileFailsFresh, StatFresh, TailFresh,
     PushFresh, WriteCursorFresh, CrashFresh DEF Next
<1> QED
  BY <1>1, <1>2

LEMMA OnlyNewBytes ==
  Typed /\ FreshInv =>
    \A p \in Pulls :
       pull[p].at = "cursor" /\ pull[p].next > Len(FileList) /\ (pull[p].bytes \cap loki) # {}
         => Touched(pull[p].bytes \cap loki) \subseteq excused
<1> SUFFICES ASSUME Typed, FreshInv, NEW p \in Pulls, pull[p].at = "cursor",
                    NEW b \in pull[p].bytes \cap loki, b[1] \notin excused
             PROVE  FALSE
  BY DEF Touched
<1>1. Reads(pull[p]) /\ b \in Bytes
  BY DEF Reads, Typed
<1>2. PICK f \in Files, h \in Nat, n \in Nat : b = <<f, h, n>>
  BY <1>1 DEF Bytes
<1>3. FileFresh(f)
  BY <1>2 DEF FreshInv
<1>4. AllNew(gen[f], f, pull[p].pending, pull[p].bytes, loki)
  BY <1>1, <1>3 DEF FileFresh, CallFresh
<1> QED
  BY <1>2, <1>4 DEF AllNew

(***************************************************************************)
(* A push brings Loki a byte it has already only of a file that something  *)
(* happened to: a push that failed and was taken, a cursor that was not    *)
(* written, a second call at the same time, a file that could not be read, *)
(* or one that grew between the stat and the tail.  Rotations, failing     *)
(* files, refused pushes and crashes before the push repeat nothing.       *)
(***************************************************************************)
THEOREM RepeatsHaveAReasonEver == Spec => RepeatsHaveAReason
<1>1. Init => Typed /\ DoneInv /\ FreshInv
  BY InitTyped, InitDone, InitFresh
<1>2. Typed /\ DoneInv /\ FreshInv /\ [Next]_vars => (Typed /\ DoneInv /\ FreshInv)'
  BY TypedStep, DoneStep, FreshStep
<1>3. Typed /\ DoneInv /\ FreshInv /\ [Next]_vars =>
        [\A p \in Pulls :
           pull[p].at = "cursor" /\ pull[p].next > Len(FileList) /\ (pull[p].bytes \cap loki) # {}
             => Touched(pull[p].bytes \cap loki) \subseteq excused]_vars
  BY OnlyNewBytes
<1> QED
  BY <1>1, <1>2, <1>3, PTL DEF Spec, RepeatsHaveAReason
=============================================================================
