---------------------------- MODULE InventoryProofs ----------------------------
(***************************************************************************)
(* Proofs about Inventory, for any number of workers, servers, requests,   *)
(* snapshot runs and evaluations.  A table keeps its keys and parents      *)
(* because each statement does, whatever table it is; what a goroutine     *)
(* remembers of a row between two statements stays true because no         *)
(* statement of any other takes it back.                                   *)
(***************************************************************************)
EXTENDS Inventory, FiniteSetTheorems, TLAPS

(* A table as its schema wants it: complete rows, no NULL where there may be *)
(* none, every reference answered and every key unique.                      *)
TableOK(t, rows, parents) ==
  /\ \A i \in DOMAIN rows :
       /\ DOMAIN rows[i] = t.columns
       /\ \A c \in t.columns \ t.nullable : rows[i][c] # Null
       /\ \A c \in t.refs : rows[i][c] \in parents
  /\ \A u \in t.unique : \A i, j \in DOMAIN rows :
       (\A c \in u : rows[i][c] = rows[j][c]) => i = j

-----------------------------------------------------------------------------
(* The statements, for any table.                                            *)
(* A row that passes the constraints may stand in the table.                 *)
LEMMA WrittenTableOK ==
  ASSUME NEW t, NEW rows, NEW parents, NEW id, NEW row,
         TableOK(t, rows, parents), DOMAIN row = t.columns,
         Broken(t, rows, parents, id, row) = "ok"
  PROVE  TableOK(t, Put(rows, id, row), parents)
<1>1. /\ \A c \in t.columns \ t.nullable : row[c] # Null
      /\ \A c \in t.refs : row[c] \in parents
      /\ \A u \in t.unique : ~ \E i \in DOMAIN rows \ {id} : \A c \in u : rows[i][c] = row[c]
  BY DEF Broken
<1> DEFINE after == Put(rows, id, row)
<1>2. /\ DOMAIN after = DOMAIN rows \cup {id} /\ after[id] = row
      /\ \A i \in DOMAIN rows \ {id} : after[i] = rows[i]
  BY DEF Put
<1>3. ASSUME NEW i \in DOMAIN after
      PROVE  /\ DOMAIN after[i] = t.columns
             /\ \A c \in t.columns \ t.nullable : after[i][c] # Null
             /\ \A c \in t.refs : after[i][c] \in parents
  <2> HIDE DEF after
  <2>1. CASE i = id
    BY <1>1, <1>2, <2>1
  <2>2. CASE i # id
    BY <1>2, <2>2 DEF TableOK
  <2> QED
    BY <2>1, <2>2
<1>4. ASSUME NEW u \in t.unique, NEW i \in DOMAIN after, NEW j \in DOMAIN after,
             \A c \in u : after[i][c] = after[j][c]
      PROVE  i = j
  <2> HIDE DEF after
  <2>1. CASE i = id /\ j # id
    BY <1>1, <1>2, <1>4, <2>1
  <2>2. CASE j = id /\ i # id
    BY <1>1, <1>2, <1>4, <2>2
  <2>3. CASE i # id /\ j # id
    BY <1>2, <1>4, <2>3 DEF TableOK
  <2> QED
    BY <2>1, <2>2, <2>3
<1> QED
  BY <1>3, <1>4 DEF TableOK

LEMMA InsertIs ==
  ASSUME NEW t, NEW rows, NEW parents, NEW id, NEW m, TableOK(t, rows, parents)
  PROVE  LET res == Insert(t, rows, parents, id, m) IN
         \/ res.err # "ok" /\ res.rows = rows
         \/ /\ res.err = "ok"
            /\ res.rows = Put(rows, id, CreateSpec(t, m))
            /\ TableOK(t, res.rows, parents)
<1>1. DOMAIN CreateSpec(t, m) = t.columns
  BY DEF CreateSpec
<1> QED
  BY <1>1, WrittenTableOK DEF Insert

LEMMA UpdateIs ==
  ASSUME NEW t, NEW rows, NEW parents, NEW id, NEW m, TableOK(t, rows, parents),
         DOMAIN m \subseteq t.columns
  PROVE  LET res == UpdateOne(t, rows, parents, id, m) IN
         \/ res.err # "ok" /\ res.rows = rows
         \/ /\ res.err = "ok" /\ id \in DOMAIN rows
            /\ res.rows = Put(rows, id, Over(m, rows[id]))
            /\ TableOK(t, res.rows, parents)
<1>1. CASE id \notin DOMAIN rows
  BY <1>1 DEF UpdateOne
<1>2. CASE id \in DOMAIN rows
  <2>1. DOMAIN Over(m, rows[id]) = t.columns
    BY <1>2 DEF TableOK, Over
  <2> QED
    BY <1>2, <2>1, WrittenTableOK DEF UpdateOne
<1> QED
  BY <1>1, <1>2

(* A row that nothing refers to may go.                                      *)
LEMMA DeleteIs ==
  ASSUME NEW t, NEW rows, NEW parents, NEW referenced, NEW id, TableOK(t, rows, parents)
  PROVE  LET after == DeleteOne(rows, referenced, id).rows IN
         \/ after = rows
         \/ /\ id \in DOMAIN rows \ referenced
            /\ after = [i \in DOMAIN rows \ {id} |-> rows[i]]
            /\ TableOK(t, after, parents)
<1>1. TableOK(t, [i \in DOMAIN rows \ {id} |-> rows[i]], parents)
  BY DEF TableOK
<1> QED
  BY <1>1 DEF DeleteOne

(* The keys of each table.                                                   *)
LEMMA UniqueKeys ==
  ASSUME NEW rows, NEW parents, NEW i \in DOMAIN rows, NEW j \in DOMAIN rows
  PROVE  /\ TableOK(ServersTable, rows, parents) /\ rows[i].hostname = rows[j].hostname => i = j
         /\ TableOK(SystemSnapshotsTable, rows, parents) /\ rows[i].server = rows[j].server => i = j
         /\ TableOK(LogCursorsTable, rows, parents)
            /\ rows[i].server = rows[j].server /\ rows[i].log_path = rows[j].log_path => i = j
         /\ TableOK(AlertStatesTable, rows, parents)
            /\ rows[i].rule_name = rows[j].rule_name /\ rows[i].fingerprint = rows[j].fingerprint => i = j
<1>1. ASSUME NEW t, TableOK(t, rows, parents), NEW u \in t.unique,
             \A c \in u : rows[i][c] = rows[j][c]
      PROVE  i = j
  BY <1>1 DEF TableOK
<1>2. ServersTable.unique = {{"hostname"}} /\ SystemSnapshotsTable.unique = {{"server"}}
  BY DEF ServersTable, SystemSnapshotsTable
<1>3. /\ LogCursorsTable.unique = {{"log_path", "server"}}
      /\ AlertStatesTable.unique = {{"rule_name", "fingerprint"}}
  BY DEF LogCursorsTable, AlertStatesTable
<1>4. {"hostname"} \in ServersTable.unique /\ {"server"} \in SystemSnapshotsTable.unique
  BY <1>2
<1>5. /\ {"log_path", "server"} \in LogCursorsTable.unique
      /\ {"rule_name", "fingerprint"} \in AlertStatesTable.unique
  BY <1>3
<1> QED
  BY <1>1, <1>4, <1>5

(* A query for a key finds the row that has it.                              *)
LEMMA OnlyIs ==
  ASSUME NEW ids
  PROVE  /\ Only(ids).err = "ok" => Only(ids).id \in ids
         /\ \A i : ids = {i} => Only(ids).err = "ok" /\ Only(ids).id = i
         /\ ids = {} => Only(ids).err = "not found" /\ Only(ids).id = Null
         /\ Only(ids).err # "ok" => Only(ids).id = Null
<1>1. \A i : Cardinality({i}) = 1 /\ {i} # {}
  BY FS_Singleton
<1>2. CASE ids = {}
  BY <1>2 DEF Only
<1>3. CASE ids # {} /\ Cardinality(ids) = 1
  BY <1>3 DEF Only
<1>4. CASE ids # {} /\ Cardinality(ids) # 1
  BY <1>1, <1>4 DEF Only
<1> QED
  BY <1>2, <1>3, <1>4
-----------------------------------------------------------------------------
(***************************************************************************)
(* The inductive invariant.                                                *)
(***************************************************************************)
TablesOK ==
  /\ TableOK(ServersTable, servers, {})
  /\ TableOK(SystemSnapshotsTable, snapshots, DOMAIN servers)
  /\ TableOK(LogCursorsTable, cursors, DOMAIN servers)
  /\ TableOK(AlertStatesTable, alerts, {})

Tables == {"servers", "snapshots", "cursors", "alerts"}
IdsOK ==
  /\ issued \in [Tables -> Nat] /\ issued["servers"] <= MaxServers
  /\ DOMAIN servers \subseteq 1..issued["servers"]
  /\ DOMAIN snapshots \subseteq 1..issued["snapshots"]
  /\ DOMAIN cursors \subseteq 1..issued["cursors"]
  /\ DOMAIN alerts \subseteq 1..issued["alerts"]
  /\ captures \in Nat /\ ticks \in Nat

(* Who may be in the middle of a capture, and of which server's.             *)
CaptureOf(a, id, by) == by = "refresh" \/ (by = "boot" /\ a \in Boots /\ id = a)

(* What a run left: a refresh brings JSON or the error.                      *)
OutcomeOK(by, in) ==
  /\ in.payload = Null \/ in.payload \in Captures
  /\ by = "refresh" /\ in.payload # Null => in.payload.kind = "json"
  /\ in.last_error = "" => in.payload # Null

(* The row a query found is there, and the server's.                         *)
RowOK(snaps, id, row) == row = Null \/ (row \in DOMAIN snaps /\ snaps[row].server = id)

HasCapture(snaps, id) ==
  \E i \in DOMAIN snaps : snaps[i].server = id /\ snaps[i].payload.kind # "empty"

(* What goroutine a may be in the middle of, with n servers given out.       *)
TaskOK(n, snaps, a, t) ==
  \/ t = Idle
  \/ /\ t.id \in 1..n
     /\ \/ t.at = "get" /\ t.id = a
        \/ t.at \in {"ping", "cursor"}
        \/ t.at = "ssh" /\ CaptureOf(a, t.id, t.by)
        \/ t.at = "query" /\ CaptureOf(a, t.id, t.by) /\ OutcomeOK(t.by, t.in)
        \/ t.at = "write" /\ CaptureOf(a, t.id, t.by) /\ OutcomeOK(t.by, t.in) /\ RowOK(snaps, t.id, t.row)
        \/ t.at = "readback" /\ HasCapture(snaps, t.id)

TasksOK ==
  DOMAIN task = Actors /\ \A a \in Actors : TaskOK(issued["servers"], snapshots, a, task[a])

(* What a reader is shown of a column that may be NULL.                      *)
Shown(v) == IF v = Null THEN <<>> ELSE v
SettingsOK ==
  /\ DOMAIN acked = DOMAIN servers
  /\ \A id \in DOMAIN servers : \A f \in Settings : acked[id][f] = Shown(servers[id][f])

AlertsOK ==
  \A i \in DOMAIN alerts :
    alerts[i].rule_name = Rule /\ alerts[i].last_notified_at \in 1..ticks

IInv == TablesOK /\ IdsOK /\ TasksOK /\ SettingsOK /\ AlertsOK

-----------------------------------------------------------------------------
(* The builders, column by column.                                           *)
(* m carries the fields of F that in gives, and no others.                   *)
Carries(m, in, F) ==
  /\ DOMAIN m = {f \in F \cap DOMAIN in : in[f] # Null}
  /\ \A f \in DOMAIN m : m[f] = in[f]

LEMMA SetFieldsCarries ==
  ASSUME NEW m, NEW in, NEW F, NEW G, Carries(m, in, F)
  PROVE  Carries(SetFields(m, in, G), in, F \cup G)
  BY DEF SetFields, Over, Carries

(* An update of a server writes the settings it was given and no other.      *)
LEMMA ServerBuilt ==
  ASSUME NEW in, DOMAIN in \subseteq Settings \cup {"status", "last_pinged_at", "last_error"}
  PROVE  LET m == ServerUpdateDefaults(ServerUpdateBuilder(in), Now) IN
         /\ DOMAIN m \subseteq ServersTable.columns
         /\ \A f \in Settings : f \in DOMAIN m <=> f \in DOMAIN in /\ in[f] # Null
         /\ \A f \in Settings \cap DOMAIN m : m[f] = in[f]
<1> DEFINE F1 == {} \cup {"name", "hostname", "ssh_user"}
           F2 == F1 \cup {"ssh_port", "ssh_key_path"}
           F3 == F2 \cup {"bench_paths", "labels"}
           F4 == F3 \cup {"status", "last_pinged_at", "last_error"}
<1>1. Carries(NewMutation, in, {})
  BY DEF Carries, NewMutation
<1>2. Carries(ServerSetNames(NewMutation, in), in, F1)
  BY <1>1, SetFieldsCarries DEF ServerSetNames
<1>3. Carries(ServerSetAccess(ServerSetNames(NewMutation, in), in), in, F2)
  <2> HIDE DEF F1
  <2> QED
    BY <1>2, SetFieldsCarries DEF ServerSetAccess
<1>4. Carries(ServerSetLists(ServerSetAccess(ServerSetNames(NewMutation, in), in), in), in, F3)
  <2> HIDE DEF F2
  <2> QED
    BY <1>3, SetFieldsCarries DEF ServerSetLists
<1>5. Carries(ServerUpdateBuilder(in), in, F4)
  <2> HIDE DEF F3
  <2> QED
    BY <1>4, SetFieldsCarries DEF ServerSetState, ServerUpdateBuilder
<1> QED
  BY <1>5 DEF Carries, ServerUpdateDefaults, Over, Settings, ServersTable

(* What an answer res to such an update leaves of the rows.                  *)
ServerAnswer(rows, id, in, res) ==
  \/ res.err # "ok" /\ res.rows = rows
  \/ /\ res.err = "ok" /\ id \in DOMAIN rows
     /\ DOMAIN res.rows = DOMAIN rows /\ TableOK(ServersTable, res.rows, {})
     /\ \A i \in DOMAIN rows \ {id} : res.rows[i] = rows[i]
     /\ \A f \in Settings :
          res.rows[id][f] = IF f \in DOMAIN in /\ in[f] # Null THEN in[f] ELSE rows[id][f]

LEMMA UpdatedServer ==
  ASSUME NEW rows, NEW id, NEW in, TableOK(ServersTable, rows, {}),
         DOMAIN in \subseteq Settings \cup {"status", "last_pinged_at", "last_error"}
  PROVE  ServerAnswer(rows, id, in,
                      ServerUpdateOne(rows, id, ServerUpdateDefaults(ServerUpdateBuilder(in), Now)))
<1> DEFINE m == ServerUpdateDefaults(ServerUpdateBuilder(in), Now)
<1>1. /\ DOMAIN m \subseteq ServersTable.columns
      /\ \A f \in Settings : f \in DOMAIN m <=> f \in DOMAIN in /\ in[f] # Null
      /\ \A f \in Settings \cap DOMAIN m : m[f] = in[f]
  BY ServerBuilt
<1> HIDE DEF m
<1>2. CASE ~ ServerValid(m)
  BY <1>2 DEF ServerUpdateOne, ServerAnswer, m
<1>3. CASE ServerValid(m)
  <2> DEFINE res == UpdateOne(ServersTable, rows, {}, id, m)
  <2>1. \/ res.err # "ok" /\ res.rows = rows
        \/ /\ res.err = "ok" /\ id \in DOMAIN rows
           /\ res.rows = Put(rows, id, Over(m, rows[id]))
           /\ TableOK(ServersTable, res.rows, {})
    BY <1>1, UpdateIs
  <2>2. ServerUpdateOne(rows, id, m) = res
    BY <1>3 DEF ServerUpdateOne
  <2>3. ASSUME id \in DOMAIN rows
        PROVE  LET after == Put(rows, id, Over(m, rows[id])) IN
               /\ DOMAIN after = DOMAIN rows
               /\ \A i \in DOMAIN rows \ {id} : after[i] = rows[i]
               /\ \A f \in Settings :
                    after[id][f] = IF f \in DOMAIN in /\ in[f] # Null THEN in[f] ELSE rows[id][f]
    <3>1. Settings \subseteq DOMAIN rows[id]
      BY <2>3 DEF TableOK, Settings, ServersTable
    <3>2. \A f \in Settings : Over(m, rows[id])[f]
                 = IF f \in DOMAIN in /\ in[f] # Null THEN in[f] ELSE rows[id][f]
      BY <1>1, <3>1 DEF Over
    <3> QED
      BY <2>3, <3>2 DEF Put
  <2> HIDE DEF res
  <2> QED
    BY <2>1, <2>2, <2>3 DEF ServerAnswer, m
<1> QED
  BY <1>2, <1>3

(* An INSERT under a fresh id leaves the other rows as they are.             *)
LEMMA InsertedRow ==
  ASSUME NEW t, NEW rows, NEW parents, NEW id, NEW m, TableOK(t, rows, parents), id \notin DOMAIN rows
  PROVE  LET res == Insert(t, rows, parents, id, m) IN
         \/ res.err # "ok" /\ res.rows = rows
         \/ /\ res.err = "ok" /\ TableOK(t, res.rows, parents)
            /\ DOMAIN res.rows = DOMAIN rows \cup {id}
            /\ \A i \in DOMAIN rows : res.rows[i] = rows[i]
            /\ res.rows[id] = CreateSpec(t, m)
<1>1. LET after == Put(rows, id, CreateSpec(t, m)) IN
      /\ DOMAIN after = DOMAIN rows \cup {id}
      /\ \A i \in DOMAIN rows : after[i] = rows[i]
      /\ after[id] = CreateSpec(t, m)
  BY DEF Put
<1> QED
  BY <1>1, InsertIs

(* An UPDATE leaves the other rows and their number as they are.             *)
LEMMA UpdatedRow ==
  ASSUME NEW t, NEW rows, NEW parents, NEW id, NEW m, TableOK(t, rows, parents),
         DOMAIN m \subseteq t.columns
  PROVE  LET res == UpdateOne(t, rows, parents, id, m) IN
         \/ res.err # "ok" /\ res.rows = rows
         \/ /\ res.err = "ok" /\ TableOK(t, res.rows, parents)
            /\ id \in DOMAIN rows /\ DOMAIN res.rows = DOMAIN rows
            /\ \A i \in DOMAIN rows \ {id} : res.rows[i] = rows[i]
            /\ \A c \in t.columns : res.rows[id][c] = IF c \in DOMAIN m THEN m[c] ELSE rows[id][c]
<1>1. ASSUME id \in DOMAIN rows
      PROVE  LET after == Put(rows, id, Over(m, rows[id])) IN
             /\ DOMAIN after = DOMAIN rows
             /\ \A i \in DOMAIN rows \ {id} : after[i] = rows[i]
             /\ \A c \in t.columns : after[id][c] = IF c \in DOMAIN m THEN m[c] ELSE rows[id][c]
  <2>1. DOMAIN rows[id] = t.columns
    BY <1>1 DEF TableOK
  <2>2. \A c \in t.columns : Over(m, rows[id])[c] = IF c \in DOMAIN m THEN m[c] ELSE rows[id][c]
    BY <2>1 DEF Over
  <2> QED
    BY <1>1, <2>2 DEF Put
<1> QED
  BY <1>1, UpdateIs

(* The capture that a run hands over stands in the row it creates ...        *)
SnapshotAnswer(rows, parents, id, srv, payload, res) ==
  \/ res.err # "ok" /\ res.rows = rows
  \/ /\ res.err = "ok" /\ TableOK(SystemSnapshotsTable, res.rows, parents)
     /\ DOMAIN res.rows = DOMAIN rows \cup {id}
     /\ \A i \in DOMAIN rows : res.rows[i] = rows[i]
     /\ res.rows[id].server = srv /\ res.rows[id].payload = payload
     /\ payload # Null

LEMMA SnapshotCreated ==
  ASSUME NEW rows, NEW parents, NEW id, NEW srv, NEW payload, NEW err,
         TableOK(SystemSnapshotsTable, rows, parents), id \notin DOMAIN rows
  PROVE  SnapshotAnswer(rows, parents, id, srv, payload,
           SnapshotInsert(rows, parents, id, SnapshotDefaults(SnapshotSetServer(SnapshotSetError(
               SnapshotSetPayload(NewMutation, payload), err), srv), Now)))
<1> DEFINE m == SnapshotDefaults(SnapshotSetServer(SnapshotSetError(SnapshotSetPayload(
                  NewMutation, payload), err), srv), Now)
           row == CreateSpec(SystemSnapshotsTable, m)
<1>1. m.server = srv /\ m.payload = payload /\ {"server", "payload"} \subseteq DOMAIN m
  BY DEF SnapshotDefaults, SnapshotSetServer, SnapshotSetError, SnapshotSetPayload,
         NewMutation, Put, Over
<1> HIDE DEF m
<1>2. row.server = srv /\ row.payload = payload
  BY <1>1 DEF CreateSpec, SystemSnapshotsTable
<1>3. ASSUME NEW after, TableOK(SystemSnapshotsTable, after, parents),
             id \in DOMAIN after, after[id].payload = payload
      PROVE  payload # Null
  BY <1>3 DEF TableOK, SystemSnapshotsTable
<1> HIDE DEF row
<1> DEFINE res == Insert(SystemSnapshotsTable, rows, parents, id, m)
<1>4. \/ res.err # "ok" /\ res.rows = rows
      \/ /\ res.err = "ok" /\ TableOK(SystemSnapshotsTable, res.rows, parents)
         /\ DOMAIN res.rows = DOMAIN rows \cup {id}
         /\ \A i \in DOMAIN rows : res.rows[i] = rows[i]
         /\ res.rows[id] = row
  BY InsertedRow DEF row
<1> HIDE DEF res
<1>5. \/ SnapshotInsert(rows, parents, id, m) = res
      \/ SnapshotInsert(rows, parents, id, m) = [err |-> "invalid", rows |-> rows]
  BY DEF SnapshotInsert, res
<1> QED
  BY <1>2, <1>3, <1>4, <1>5 DEF SnapshotAnswer, m

(* ... and in the row it updates, where one without a payload changes none.  *)
SnapshotChange(rows, parents, id, in, res) ==
  \/ res.err # "ok" /\ res.rows = rows
  \/ /\ res.err = "ok" /\ TableOK(SystemSnapshotsTable, res.rows, parents)
     /\ id \in DOMAIN rows /\ DOMAIN res.rows = DOMAIN rows
     /\ \A i \in DOMAIN rows \ {id} : res.rows[i] = rows[i]
     /\ res.rows[id].server = rows[id].server
     /\ res.rows[id].payload = IF in.payload # Null /\ in.payload.kind # "empty"
                               THEN in.payload ELSE rows[id].payload

LEMMA SnapshotUpdated ==
  ASSUME NEW rows, NEW parents, NEW id, NEW in, TableOK(SystemSnapshotsTable, rows, parents)
  PROVE  SnapshotChange(rows, parents, id, in,
           SnapshotUpdateOne(rows, parents, id, SnapshotUpdateDefaults(SnapshotColumns(in), Now)))
<1> DEFINE m == SnapshotUpdateDefaults(SnapshotColumns(in), Now)
           new == in.payload # Null /\ in.payload.kind # "empty"
<1>1. /\ DOMAIN m \subseteq SystemSnapshotsTable.columns /\ "server" \notin DOMAIN m
      /\ "payload" \in DOMAIN m <=> new
      /\ new => m.payload = in.payload
  <2>1. CASE new
    BY <2>1 DEF SnapshotUpdateDefaults, SnapshotColumns, SnapshotSetError, SnapshotSetPayload,
                NewMutation, Put, Over, SystemSnapshotsTable
  <2>2. CASE ~ new
    BY <2>2 DEF SnapshotUpdateDefaults, SnapshotColumns, SnapshotSetError,
                NewMutation, Put, Over, SystemSnapshotsTable
  <2> QED
    BY <2>1, <2>2
<1> HIDE DEF m
<1> DEFINE res == UpdateOne(SystemSnapshotsTable, rows, parents, id, m)
<1>2. \/ res.err # "ok" /\ res.rows = rows
      \/ /\ res.err = "ok" /\ TableOK(SystemSnapshotsTable, res.rows, parents)
         /\ id \in DOMAIN rows /\ DOMAIN res.rows = DOMAIN rows
         /\ \A i \in DOMAIN rows \ {id} : res.rows[i] = rows[i]
         /\ \A c \in SystemSnapshotsTable.columns :
              res.rows[id][c] = IF c \in DOMAIN m THEN m[c] ELSE rows[id][c]
  BY <1>1, UpdatedRow
<1>3. SnapshotUpdateOne(rows, parents, id, m) = res
  BY DEF SnapshotUpdateOne
<1>4. {"server", "payload"} \subseteq SystemSnapshotsTable.columns
  BY DEF SystemSnapshotsTable
<1> HIDE DEF res
<1> QED
  BY <1>1, <1>2, <1>3, <1>4 DEF SnapshotChange, m

LEMMA ServerCreated ==
  ASSUME NEW rows, NEW id, NEW m, TableOK(ServersTable, rows, {}), id \notin DOMAIN rows
  PROVE  LET res == ServerInsert(rows, id, m) IN
         \/ res.err # "ok" /\ res.rows = rows
         \/ /\ res.err = "ok" /\ TableOK(ServersTable, res.rows, {})
            /\ DOMAIN res.rows = DOMAIN rows \cup {id}
            /\ \A i \in DOMAIN rows : res.rows[i] = rows[i]
<1> DEFINE res == Insert(ServersTable, rows, {}, id, m)
<1>1. \/ res.err # "ok" /\ res.rows = rows
      \/ /\ res.err = "ok" /\ TableOK(ServersTable, res.rows, {})
         /\ DOMAIN res.rows = DOMAIN rows \cup {id}
         /\ \A i \in DOMAIN rows : res.rows[i] = rows[i]
  BY InsertedRow
<1>2. \/ ServerInsert(rows, id, m) = res
      \/ ServerInsert(rows, id, m) = [err |-> "invalid", rows |-> rows]
  BY DEF ServerInsert
<1> HIDE DEF res
<1> QED
  BY <1>1, <1>2

(* What an answer leaves of the cursors, with new the ids it may have added. *)
CursorAnswer(rows, parents, new, res) ==
  \/ res.err # "ok" /\ res.rows = rows
  \/ /\ res.err = "ok" /\ TableOK(LogCursorsTable, res.rows, parents)
     /\ DOMAIN res.rows = DOMAIN rows \cup new

LEMMA CursorCreated ==
  ASSUME NEW rows, NEW parents, NEW id, NEW m, TableOK(LogCursorsTable, rows, parents),
         id \notin DOMAIN rows
  PROVE  CursorAnswer(rows, parents, {id}, CursorInsert(rows, parents, id, m))
<1> DEFINE res == Insert(LogCursorsTable, rows, parents, id, m)
<1>1. \/ res.err # "ok" /\ res.rows = rows
      \/ /\ res.err = "ok" /\ TableOK(LogCursorsTable, res.rows, parents)
         /\ DOMAIN res.rows = DOMAIN rows \cup {id}
  BY InsertedRow
<1>2. \/ CursorInsert(rows, parents, id, m) = res
      \/ CursorInsert(rows, parents, id, m) = [err |-> "invalid", rows |-> rows]
  BY DEF CursorInsert
<1> HIDE DEF res
<1> QED
  BY <1>1, <1>2 DEF CursorAnswer

LEMMA CursorUpdated ==
  ASSUME NEW rows, NEW parents, NEW id, NEW m, TableOK(LogCursorsTable, rows, parents),
         DOMAIN m \subseteq LogCursorsTable.columns
  PROVE  CursorAnswer(rows, parents, {}, CursorUpdateOne(rows, parents, id, m))
<1> DEFINE res == UpdateOne(LogCursorsTable, rows, parents, id, m)
<1>1. \/ res.err # "ok" /\ res.rows = rows
      \/ /\ res.err = "ok" /\ TableOK(LogCursorsTable, res.rows, parents)
         /\ DOMAIN res.rows = DOMAIN rows
  BY UpdatedRow
<1>2. \/ CursorUpdateOne(rows, parents, id, m) = res
      \/ CursorUpdateOne(rows, parents, id, m) = [err |-> "invalid", rows |-> rows]
  BY DEF CursorUpdateOne
<1> HIDE DEF res
<1> QED
  BY <1>1, <1>2 DEF CursorAnswer

(* What UpsertAlertState writes: the key and both times of a new row, and of *)
(* a known one no key and no first firing.                                   *)
AlertAnswer(rows, id, in, res) ==
  \/ res.err # "ok" /\ res.rows = rows
  \/ /\ res.err = "ok" /\ TableOK(AlertStatesTable, res.rows, {})
     /\ DOMAIN res.rows = DOMAIN rows \cup {id}
     /\ \A i \in DOMAIN rows \ {id} : res.rows[i] = rows[i]
     /\ res.rows[id].last_notified_at = in.last_notified_at
     /\ res.rows[id].rule_name = IF id \in DOMAIN rows THEN rows[id].rule_name ELSE in.rule_name
     /\ id \in DOMAIN rows => res.rows[id].first_fired_at = rows[id].first_fired_at

LEMMA AlertCreated ==
  ASSUME NEW rows, NEW id, NEW in, NEW now, TableOK(AlertStatesTable, rows, {}), id \notin DOMAIN rows,
         {"rule_name", "fingerprint", "status", "value", "last_notified_at"} \subseteq DOMAIN in,
         in.rule_name # Null, in.last_notified_at # Null
  PROVE  AlertAnswer(rows, id, in, AlertInsert(rows, id, AlertDefaults(AlertSetNotified(AlertSetState(
           AlertSetKey(NewMutation, in), in), in), now)))
<1> DEFINE m == AlertDefaults(AlertSetNotified(AlertSetState(
                  AlertSetKey(NewMutation, in), in), in), now)
           row == CreateSpec(AlertStatesTable, m)
<1>1. /\ {"rule_name", "last_notified_at"} \subseteq DOMAIN m
      /\ m.rule_name = in.rule_name /\ m.last_notified_at = in.last_notified_at
  BY DEF AlertDefaults, AlertSetNotified, AlertSetState, AlertSetKey, SetFields, NewMutation, Over
<1> HIDE DEF m
<1>2. row.rule_name = in.rule_name /\ row.last_notified_at = in.last_notified_at
  BY <1>1 DEF CreateSpec, AlertStatesTable
<1> HIDE DEF row
<1> DEFINE res == Insert(AlertStatesTable, rows, {}, id, m)
<1>3. \/ res.err # "ok" /\ res.rows = rows
      \/ /\ res.err = "ok" /\ TableOK(AlertStatesTable, res.rows, {})
         /\ DOMAIN res.rows = DOMAIN rows \cup {id}
         /\ \A i \in DOMAIN rows : res.rows[i] = rows[i]
         /\ res.rows[id] = row
  BY InsertedRow DEF row
<1> HIDE DEF res
<1>4. \/ AlertInsert(rows, id, m) = res
      \/ AlertInsert(rows, id, m) = [err |-> "invalid", rows |-> rows]
  BY DEF AlertInsert, res
<1> QED
  BY <1>2, <1>3, <1>4 DEF AlertAnswer, m

LEMMA AlertUpdated ==
  ASSUME NEW rows, NEW id, NEW in, NEW now, NEW labels, TableOK(AlertStatesTable, rows, {}),
         "last_notified_at" \in DOMAIN in, in.last_notified_at # Null
  PROVE  AlertAnswer(rows, id, in, AlertUpdateOne(rows, id, AlertUpdateDefaults(AlertSetNotified(
           AlertSetState(AlertSetKey(NewMutation, [labels |-> labels]), in), in), now)))
<1> DEFINE m == AlertUpdateDefaults(AlertSetNotified(AlertSetState(
                  AlertSetKey(NewMutation, [labels |-> labels]), in), in), now)
<1>1. /\ DOMAIN m \subseteq AlertStatesTable.columns \ {"rule_name", "first_fired_at"}
      /\ "last_notified_at" \in DOMAIN m /\ m.last_notified_at = in.last_notified_at
  BY DEF AlertUpdateDefaults, AlertSetNotified, AlertSetState, AlertSetKey, SetFields, NewMutation,
         Over, AlertStatesTable
<1> HIDE DEF m
<1> DEFINE res == UpdateOne(AlertStatesTable, rows, {}, id, m)
<1>2. \/ res.err # "ok" /\ res.rows = rows
      \/ /\ res.err = "ok" /\ TableOK(AlertStatesTable, res.rows, {})
         /\ id \in DOMAIN rows /\ DOMAIN res.rows = DOMAIN rows
         /\ \A i \in DOMAIN rows \ {id} : res.rows[i] = rows[i]
         /\ \A c \in AlertStatesTable.columns :
              res.rows[id][c] = IF c \in DOMAIN m THEN m[c] ELSE rows[id][c]
  BY <1>1, UpdatedRow
<1> HIDE DEF res
<1>3. \/ AlertUpdateOne(rows, id, m) = res
      \/ AlertUpdateOne(rows, id, m) = [err |-> "invalid", rows |-> rows]
  BY DEF AlertUpdateOne, res
<1>4. {"rule_name", "first_fired_at", "last_notified_at"} \subseteq AlertStatesTable.columns
  BY DEF AlertStatesTable
<1> QED
  BY <1>1, <1>2, <1>3, <1>4 DEF AlertAnswer, m

(* A list that is NULL is shown as an empty one, all else as it stands.      *)
LEMMA ShownIs ==
  ASSUME NEW rows, NEW id \in DOMAIN rows, TableOK(ServersTable, rows, {})
  PROVE  \A f \in Settings : EntToServer(ServerNode(rows, id))[f] = Shown(rows[id][f])
<1>1. \A f \in Settings \ {"bench_paths", "labels"} : rows[id][f] # Null
  BY DEF TableOK, ServersTable, Settings
<1> DEFINE node == ServerNode(rows, id)
<1>2. Settings \subseteq ServersTable.columns
  BY DEF Settings, ServersTable
<1>3. ServerZero["bench_paths"] = Null /\ ServerZero["labels"] = Null
  BY DEF ServerZero
<1>4. /\ DOMAIN node = ServersTable.columns
      /\ \A f \in Settings : node[f] = rows[id][f]
  BY <1>1, <1>2, <1>3 DEF ServerNode
<1> HIDE DEF node
<1>5. ASSUME NEW f \in Settings
      PROVE  EntToServer(node)[f] = IF f \in {"bench_paths", "labels"} THEN Shown(node[f]) ELSE node[f]
  BY <1>4, <1>2 DEF EntToServer, Shown
<1> QED
  BY <1>1, <1>4, <1>5 DEF Shown, node

(* A parent that came, or a parent that went and had no children, leaves a   *)
(* child table as it is.                                                     *)
LEMMA MoreParents ==
  ASSUME NEW t, NEW rows, NEW P, NEW Q, TableOK(t, rows, P), P \subseteq Q
  PROVE  TableOK(t, rows, Q)
  BY DEF TableOK

LEMMA ChildlessGone ==
  ASSUME NEW t, NEW rows, NEW P, NEW id, TableOK(t, rows, P), t.refs \subseteq {"server"},
         id \notin Referenced(rows)
  PROVE  TableOK(t, rows, P \ {id})
  BY DEF TableOK, Referenced

-----------------------------------------------------------------------------
(* What the others do between two statements takes back nothing that a       *)
(* goroutine learnt from the first: rows of captures stay, with their server *)
(* and with a payload once they have one.                                    *)
KeepsCaptures(old, new) ==
  \A i \in DOMAIN old :
    /\ i \in DOMAIN new /\ new[i].server = old[i].server
    /\ old[i].payload.kind # "empty" => new[i].payload.kind # "empty"

LEMMA TaskStays ==
  ASSUME NEW m \in Nat, NEW n \in Nat, m <= n, NEW old, NEW new, KeepsCaptures(old, new),
         NEW a, NEW t, TaskOK(m, old, a, t)
  PROVE  TaskOK(n, new, a, t)
<1>1. CASE t = Idle
  BY <1>1 DEF TaskOK
<1>2. CASE t # Idle
  <2>1. t.id \in 1..m => t.id \in 1..n
    OBVIOUS
  <2>2. t.id \in 1..n
    BY <1>2, <2>1 DEF TaskOK
  <2>3. RowOK(old, t.id, t.row) => RowOK(new, t.id, t.row)
    BY DEF RowOK, KeepsCaptures
  <2>4. HasCapture(old, t.id) => HasCapture(new, t.id)
    BY DEF HasCapture, KeepsCaptures
  <2> QED
    BY <1>2, <2>2, <2>3, <2>4 DEF TaskOK
<1> QED
  BY <1>1, <1>2

(* The goroutines whose task changes know what they say they know.           *)
LEMMA TasksStep ==
  ASSUME IdsOK, IdsOK', issued["servers"] <= issued'["servers"], TasksOK,
         KeepsCaptures(snapshots, snapshots'), DOMAIN task' = Actors,
         \A a \in Actors :
           \/ task'[a] = task[a]
           \/ TaskOK(issued'["servers"], snapshots', a, task'[a])
  PROVE  TasksOK'
<1>1. issued["servers"] \in Nat /\ issued'["servers"] \in Nat
  BY DEF IdsOK, Tables
<1>2. ASSUME NEW a \in Actors
      PROVE  TaskOK(issued'["servers"], snapshots', a, task'[a])
  <2>1. TaskOK(issued["servers"], snapshots, a, task[a])
    BY DEF TasksOK
  <2>2. TaskOK(issued'["servers"], snapshots', a, task[a])
    BY <1>1, <2>1, TaskStays
  <2> QED
    BY <2>2
<1> QED
  BY <1>2 DEF TasksOK

LEMMA KeptCaptures ==
  ASSUME snapshots' = snapshots
  PROVE  KeepsCaptures(snapshots, snapshots')
  BY DEF KeepsCaptures

(* A step that only moves goroutines.                                        *)
LEMMA QuietStep ==
  ASSUME IInv, UNCHANGED <<servers, snapshots, cursors, alerts, issued, acked, ticks>>,
         captures' \in Nat, DOMAIN task' = Actors,
         \A a \in Actors :
           \/ task'[a] = task[a]
           \/ TaskOK(issued["servers"], snapshots, a, task'[a])
  PROVE  IInv'
<1>1. TablesOK'
  BY DEF IInv, TablesOK
<1>2. IdsOK'
  BY DEF IInv, IdsOK
<1>3. TasksOK'
  <2>1. issued["servers"] <= issued'["servers"]
    BY DEF IInv, IdsOK, Tables
  <2> QED
    BY <1>2, <2>1, KeptCaptures, TasksStep DEF IInv
<1>4. SettingsOK' /\ AlertsOK'
  BY DEF IInv, SettingsOK, AlertsOK
<1> QED
  BY <1>1, <1>2, <1>3, <1>4 DEF IInv

(* One goroutine goes on.                                                    *)
LEMMA GotoStep ==
  ASSUME IInv, UNCHANGED <<servers, snapshots, cursors, alerts, issued, acked, ticks>>,
         captures' \in Nat, NEW a \in Actors, NEW t, Goto(a, t),
         TaskOK(issued["servers"], snapshots, a, t)
  PROVE  IInv'
<1>1. DOMAIN task = Actors
  BY DEF IInv, TasksOK
<1>2. /\ DOMAIN task' = Actors /\ task'[a] = t
      /\ \A b \in Actors \ {a} : task'[b] = task[b]
  BY <1>1 DEF Goto
<1> QED
  BY <1>2, QuietStep

LEMMA IdleIsFine ==
  ASSUME NEW n, NEW snaps, NEW a
  PROVE  TaskOK(n, snaps, a, Idle)
  BY DEF TaskOK

-----------------------------------------------------------------------------
LEMMA InitInv == Init => IInv
<1> SUFFICES ASSUME Init PROVE IInv
  OBVIOUS
<1>1. /\ DOMAIN servers = {} /\ DOMAIN snapshots = {} /\ DOMAIN cursors = {}
      /\ DOMAIN alerts = {} /\ DOMAIN acked = {}
  BY DEF Init
<1>2. TablesOK
  BY <1>1 DEF TablesOK, TableOK
<1>3. IdsOK
  BY <1>1, InventoryAssumption DEF Init, IdsOK, Tables
<1>4. TasksOK
  BY DEF Init, TasksOK, TaskOK
<1>5. SettingsOK /\ AlertsOK
  BY <1>1 DEF SettingsOK, AlertsOK
<1> QED
  BY <1>2, <1>3, <1>4, <1>5 DEF IInv

(* The steps that read, or only move a goroutine.                            *)
LEMMA TestStartInv ==
  ASSUME IInv, NEW w \in Workers, TestStart(w)
  PROVE  IInv'
<1>1. PICK id \in 1..issued["servers"] :
        Goto(w, IF GetServer(id).err = "ok" THEN [at |-> "ping", id |-> id, seen |-> GetServer(id).server]
                ELSE Idle)
  BY DEF TestStart
<1>2. UNCHANGED <<servers, snapshots, cursors, alerts, issued, acked, captures, ticks>> /\ w \in Actors
  BY DEF TestStart, Actors
<1>3. TaskOK(issued["servers"], snapshots, w, [at |-> "ping", id |-> id, seen |-> GetServer(id).server])
  BY DEF TaskOK
<1>4. captures' \in Nat
  BY <1>2 DEF IInv, IdsOK
<1> QED
  BY <1>1, <1>2, <1>3, <1>4, IdleIsFine, GotoStep

LEMMA RefreshStartInv ==
  ASSUME IInv, NEW w \in Workers, RefreshStart(w)
  PROVE  IInv'
<1>1. PICK id \in 1..issued["servers"] :
        Goto(w, IF GetServer(id).err = "ok" THEN [at |-> "ssh", id |-> id, by |-> "refresh"] ELSE Idle)
  BY DEF RefreshStart
<1>2. UNCHANGED <<servers, snapshots, cursors, alerts, issued, acked, captures, ticks>> /\ w \in Actors
  BY DEF RefreshStart, Actors
<1>3. TaskOK(issued["servers"], snapshots, w, [at |-> "ssh", id |-> id, by |-> "refresh"])
  BY DEF TaskOK, CaptureOf
<1>4. captures' \in Nat
  BY <1>2 DEF IInv, IdsOK
<1> QED
  BY <1>1, <1>2, <1>3, <1>4, IdleIsFine, GotoStep

LEMMA BootStartInv ==
  ASSUME IInv, NEW b \in Boots, BootStart(b)
  PROVE  IInv'
<1>1. /\ task[b].at = "get" /\ b \in Actors
      /\ Goto(b, IF GetServer(b).err = "ok" THEN [at |-> "ssh", id |-> b, by |-> "boot"] ELSE Idle)
      /\ UNCHANGED <<servers, snapshots, cursors, alerts, issued, acked, captures, ticks>>
  BY DEF BootStart, Actors
<1>2. task[b].id = b /\ b \in 1..issued["servers"]
  BY <1>1 DEF IInv, TasksOK, TaskOK, Idle
<1>3. TaskOK(issued["servers"], snapshots, b, [at |-> "ssh", id |-> b, by |-> "boot"])
  BY <1>2 DEF TaskOK, CaptureOf
<1>4. captures' \in Nat
  BY <1>1 DEF IInv, IdsOK
<1> QED
  BY <1>1, <1>3, <1>4, IdleIsFine, GotoStep

LEMMA CapturedOK ==
  ASSUME captures \in Nat, NEW by, NEW outcome \in {"json", "garbage", "empty", "failed"}
  PROVE  OutcomeOK(by, Captured(by, outcome))
<1>1. Capture(outcome) \in Captures \/ outcome = "failed"
  BY DEF Capture, Captures
<1>2. CASE outcome = "failed"
  BY <1>2 DEF Captured, OutcomeOK
<1>3. CASE outcome # "failed" /\ by = "refresh" /\ outcome # "json"
  BY <1>3 DEF Captured, OutcomeOK
<1>4. CASE outcome # "failed" /\ ~(by = "refresh" /\ outcome # "json")
  <2>1. Captured(by, outcome) = [payload |-> Capture(outcome), last_error |-> ""]
    BY <1>4 DEF Captured
  <2>2. Capture(outcome) # Null /\ Capture(outcome).kind = outcome
    BY <1>1, <1>4, InventoryAssumption DEF Capture
  <2>3. by = "refresh" => outcome = "json"
    BY <1>4
  <2> DEFINE in == Captured(by, outcome)
  <2>4. in = [payload |-> Capture(outcome), last_error |-> ""]
    BY <2>1
  <2> HIDE DEF in
  <2>5. in.payload = Capture(outcome) /\ in.last_error = ""
    BY <2>4
  <2>6. OutcomeOK(by, in)
    BY <1>1, <1>4, <2>2, <2>3, <2>5 DEF OutcomeOK
  <2> QED
    BY <2>6 DEF in
<1> QED
  BY <1>2, <1>3, <1>4

LEMMA RunInv ==
  ASSUME IInv, NEW a \in Actors, Run(a)
  PROVE  IInv'
<1> DEFINE next(outcome) == [at |-> "query", id |-> task[a].id, by |-> task[a].by,
                             in |-> Captured(task[a].by, outcome)]
<1>1. PICK outcome \in {"json", "garbage", "empty", "failed"} : Goto(a, next(outcome))
  BY DEF Run
<1>2. /\ task[a].at = "ssh" /\ captures' = captures + 1
      /\ UNCHANGED <<servers, snapshots, cursors, alerts, issued, acked, ticks>>
  BY DEF Run
<1>3. captures \in Nat /\ captures' \in Nat
  BY <1>2 DEF IInv, IdsOK
<1>4. task[a].id \in 1..issued["servers"] /\ CaptureOf(a, task[a].id, task[a].by)
  BY <1>2 DEF IInv, TasksOK, TaskOK, Idle
<1>5. OutcomeOK(task[a].by, Captured(task[a].by, outcome))
  BY <1>3, CapturedOK
<1>6. TaskOK(issued["servers"], snapshots, a, next(outcome))
  BY <1>4, <1>5 DEF TaskOK
<1> HIDE DEF next
<1> QED
  BY <1>1, <1>2, <1>3, <1>6, GotoStep

(* The row the query found is the server's.                                  *)
LEMMA SnapshotQueryInv ==
  ASSUME IInv, NEW a \in Actors, SnapshotQuery(a)
  PROVE  IInv'
<1> DEFINE found == SnapshotOnly(snapshots, task[a].id)
           next == [at |-> "write", id |-> task[a].id, by |-> task[a].by, in |-> task[a].in, row |-> found.id]
<1>1. /\ task[a].at = "query"
      /\ Goto(a, IF found.err = "not singular" THEN Idle ELSE next)
      /\ UNCHANGED <<servers, snapshots, cursors, alerts, issued, acked, captures, ticks>>
  BY DEF SnapshotQuery
<1>2. /\ task[a].id \in 1..issued["servers"] /\ CaptureOf(a, task[a].id, task[a].by)
      /\ OutcomeOK(task[a].by, task[a].in)
  <2>1. TaskOK(issued["servers"], snapshots, a, task[a]) /\ task[a].at = "query"
    BY <1>1 DEF IInv, TasksOK
  <2> QED
    BY <2>1 DEF TaskOK, Idle
<1>3. RowOK(snapshots, task[a].id, found.id)
  BY OnlyIs DEF SnapshotOnly, SnapshotHasServer, RowOK
<1>4. TaskOK(issued["servers"], snapshots, a, next)
  <2> HIDE DEF found
  <2> QED
    BY <1>2, <1>3 DEF TaskOK
<1>5. captures' \in Nat
  BY <1>1 DEF IInv, IdsOK
<1> HIDE DEF found, next
<1> QED
  BY <1>1, <1>4, <1>5, IdleIsFine, GotoStep

LEMMA CursorQueryInv ==
  ASSUME IInv, NEW w \in Workers, CursorQuery(w)
  PROVE  IInv'
<1> DEFINE next(id, path) == [at |-> "cursor", id |-> id, path |-> path, row |-> CursorOnly(cursors, id, path).id]
<1>1. PICK id \in 1..issued["servers"], path \in LogPaths : Goto(w, Idle) \/ Goto(w, next(id, path))
  BY DEF CursorQuery
<1>2. UNCHANGED <<servers, snapshots, cursors, alerts, issued, acked, captures, ticks>> /\ w \in Actors
  BY DEF CursorQuery, Actors
<1>3. TaskOK(issued["servers"], snapshots, w, next(id, path))
  BY DEF TaskOK
<1>4. captures' \in Nat
  BY <1>2 DEF IInv, IdsOK
<1> HIDE DEF next
<1> QED
  BY <1>1, <1>2, <1>3, <1>4, IdleIsFine, GotoStep

LEMMA EndsInv ==
  ASSUME IInv, NEW a \in Actors, Readback(a) \/ StatementFails(a)
  PROVE  IInv'
<1>1. Goto(a, Idle) /\ UNCHANGED <<servers, snapshots, cursors, alerts, issued, acked, captures, ticks>>
  BY DEF Readback, StatementFails
<1>2. captures' \in Nat
  BY <1>1 DEF IInv, IdsOK
<1> QED
  BY <1>1, <1>2, IdleIsFine, GotoStep

LEMMA CrashInv ==
  ASSUME IInv, Crash
  PROVE  IInv'
<1>1. DOMAIN task' = Actors /\ \A a \in Actors : task'[a] = Idle
  BY DEF Crash
<1>2. UNCHANGED <<servers, snapshots, cursors, alerts, issued, acked, captures, ticks>>
  BY DEF Crash
<1>3. captures' \in Nat
  BY <1>2 DEF IInv, IdsOK
<1> QED
  BY <1>1, <1>2, <1>3, IdleIsFine, QuietStep

(* The steps that write a server.                                            *)
LEMMA CreateInv ==
  ASSUME IInv, NEW w \in Workers, Create(w)
  PROVE  IInv'
<1> DEFINE id == Fresh("servers")
           made(m) == ServerInsert(servers, id, m)
<1>1. \/ /\ UNCHANGED <<servers, acked, task>> /\ issued' = [issued EXCEPT !["servers"] = @ + 0]
      \/ \E m : /\ made(m).err = "ok" /\ servers' = made(m).rows
                /\ issued' = [issued EXCEPT !["servers"] = @ + 1]
                /\ acked' = Put(acked, id, [f \in Settings |-> EntToServer(ServerNode(made(m).rows, id))[f]])
                /\ task' = [task EXCEPT ![id] = [at |-> "get", id |-> id]]
  <2> DEFINE in(h, port) == [name |-> "name", hostname |-> h, ssh_user |-> "monitor",
                             ssh_port |-> IF port = 0 THEN 22 ELSE port, ssh_key_path |-> "key",
                             bench_paths |-> Null, labels |-> Null]
             m(h, port) == ServerDefaults(ServerCreateBuilder(in(h, port)), Now)
             res(h, port) == made(m(h, port))
             created(h, port) == h # "" /\ res(h, port).err = "ok"
  <2>1. PICK h \in Hosts \cup {""}, port \in {0, -1} :
          /\ servers' = IF created(h, port) THEN res(h, port).rows ELSE servers
          /\ issued' = [issued EXCEPT !["servers"] = @ + IF created(h, port) THEN 1 ELSE 0]
          /\ acked' = IF created(h, port)
                      THEN Put(acked, id, [f \in Settings |-> EntToServer(ServerNode(res(h, port).rows, id))[f]])
                      ELSE acked
          /\ task' = IF created(h, port) THEN [task EXCEPT ![id] = [at |-> "get", id |-> id]] ELSE task
    BY DEF Create, CreateServer, Issue
  <2> HIDE DEF m, made
  <2>2. CASE ~ created(h, port)
    BY <2>1, <2>2
  <2>3. CASE created(h, port)
    BY <2>1, <2>3
  <2> QED
    BY <2>2, <2>3
<1>2. UNCHANGED <<snapshots, cursors, alerts, captures, ticks>> /\ issued["servers"] < MaxServers
  BY DEF Create
<1>3. issued \in [Tables -> Nat] /\ captures \in Nat /\ DOMAIN task = Actors /\ DOMAIN acked = DOMAIN servers
  BY DEF IInv, IdsOK, TasksOK, SettingsOK
<1>4. CASE UNCHANGED <<servers, acked, task>> /\ issued' = [issued EXCEPT !["servers"] = @ + 0]
  <2>1. issued' = issued
    BY <1>3, <1>4 DEF Tables
  <2> QED
    BY <1>2, <1>3, <1>4, <2>1, QuietStep
<1>5. ASSUME NEW m,
             made(m).err = "ok", servers' = made(m).rows,
             issued' = [issued EXCEPT !["servers"] = @ + 1],
             acked' = Put(acked, id, [f \in Settings |-> EntToServer(ServerNode(made(m).rows, id))[f]]),
             task' = [task EXCEPT ![id] = [at |-> "get", id |-> id]]
      PROVE  IInv'
  <2>1. /\ issued' \in [Tables -> Nat] /\ issued'["servers"] = issued["servers"] + 1
        /\ \A t \in Tables \ {"servers"} : issued'[t] = issued[t]
    BY <1>3, <1>5 DEF Tables
  <2>2. id = issued["servers"] + 1 /\ id \in Boots /\ id \notin DOMAIN servers
    BY <1>2, <1>3, InventoryAssumption DEF Fresh, Boots, IInv, IdsOK, Tables
  <2> HIDE DEF id
  <2>3. /\ TableOK(ServersTable, servers', {}) /\ DOMAIN servers' = DOMAIN servers \cup {id}
        /\ \A i \in DOMAIN servers : servers'[i] = servers[i]
    BY <1>5, <2>2, ServerCreated DEF IInv, TablesOK
  <2>4. TablesOK'
    BY <1>2, <2>3, MoreParents DEF IInv, TablesOK
  <2>5. IdsOK'
    <3>1. /\ issued["servers"] \in Nat /\ issued'["servers"] <= MaxServers
          /\ DOMAIN servers' \subseteq 1..issued'["servers"]
      BY <1>2, <1>3, <2>1, <2>2, <2>3, InventoryAssumption DEF IInv, IdsOK, Tables
    <3> QED
      BY <1>2, <2>1, <3>1 DEF IInv, IdsOK, Tables
  <2>6. TasksOK'
    <3>1. /\ DOMAIN task' = Actors /\ task'[id] = [at |-> "get", id |-> id]
          /\ \A a \in Actors \ {id} : task'[a] = task[a]
      BY <1>3, <1>5, <2>2 DEF Actors
    <3>2. id \in 1..issued'["servers"] /\ issued["servers"] <= issued'["servers"]
      BY <1>3, <2>1, <2>2 DEF Tables
    <3>3. TaskOK(issued'["servers"], snapshots', id, [at |-> "get", id |-> id])
      BY <3>2 DEF TaskOK
    <3> QED
      BY <1>2, <2>5, <3>1, <3>2, <3>3, KeptCaptures, TasksStep DEF IInv
  <2>7. SettingsOK'
    <3>1. \A f \in Settings : EntToServer(ServerNode(servers', id))[f] = Shown(servers'[id][f])
      BY <2>3, ShownIs
    <3>2. /\ DOMAIN acked' = DOMAIN servers \cup {id}
          /\ \A i \in DOMAIN servers : acked'[i] = acked[i]
          /\ \A f \in Settings : acked'[id][f] = EntToServer(ServerNode(servers', id))[f]
      BY <1>3, <1>5, <2>2 DEF Put
    <3> QED
      BY <2>3, <3>1, <3>2 DEF IInv, SettingsOK
  <2> QED
    BY <1>2, <2>4, <2>5, <2>6, <2>7 DEF IInv, AlertsOK
<1> HIDE DEF made, id
<1> QED
  BY <1>1, <1>4, <1>5

(* The server's row changes, its settings only with what was answered.       *)
LEMMA ServerUpdateInv ==
  ASSUME IInv, UNCHANGED <<snapshots, cursors, alerts, issued, captures, ticks>>,
         DOMAIN servers' = DOMAIN servers, TableOK(ServersTable, servers', {}), DOMAIN task' = Actors,
         \A a \in Actors : task'[a] = task[a] \/ task'[a] = Idle,
         SettingsOK'
  PROVE  IInv'
<1>1. TablesOK'
  BY DEF IInv, TablesOK
<1>2. IdsOK'
  BY DEF IInv, IdsOK
<1>3. TasksOK'
  <2>1. issued["servers"] <= issued'["servers"]
    BY DEF IInv, IdsOK, Tables
  <2> QED
    BY <1>2, <2>1, IdleIsFine, KeptCaptures, TasksStep DEF IInv
<1> QED
  BY <1>1, <1>2, <1>3 DEF IInv, AlertsOK

LEMMA PatchInv ==
  ASSUME IInv, NEW w \in Workers, Patch(w)
  PROVE  IInv'
<1> DEFINE in(body) == [f \in DOMAIN body |-> Given(body, f)]
           res(id, body) == UpdateServer(id, in(body))
<1>1. PICK id \in 1..issued["servers"], body \in Patches :
        \/ UNCHANGED <<servers, acked>>
        \/ /\ res(id, body).err = "ok" /\ servers' = res(id, body).rows
           /\ acked' = [acked EXCEPT ![id] =
                          [f \in Settings |-> IF f \in DOMAIN in(body) THEN in(body)[f] ELSE @[f]]]
  BY DEF Patch
<1>2. UNCHANGED <<snapshots, cursors, alerts, issued, task, captures, ticks>>
  BY DEF Patch
<1>3. DOMAIN task = Actors /\ DOMAIN acked = DOMAIN servers
  BY DEF IInv, TasksOK, SettingsOK
<1>4. CASE UNCHANGED <<servers, acked>>
  <2>1. captures' \in Nat
    BY <1>2 DEF IInv, IdsOK
  <2> QED
    BY <1>2, <1>3, <1>4, <2>1, QuietStep
<1>5. ASSUME res(id, body).err = "ok", servers' = res(id, body).rows,
             acked' = [acked EXCEPT ![id] =
                         [f \in Settings |-> IF f \in DOMAIN in(body) THEN in(body)[f] ELSE @[f]]]
      PROVE  IInv'
  <2> DEFINE i == in(body)
  <2>1. DOMAIN i \subseteq Settings /\ \A f \in DOMAIN i : i[f] # Null
    BY InventoryAssumption
  <2>2. acked' = [acked EXCEPT ![id] = [f \in Settings |-> IF f \in DOMAIN i THEN i[f] ELSE @[f]]]
    BY <1>5
  <2>3. /\ servers' = ServerUpdateOne(servers, id, ServerUpdateDefaults(ServerUpdateBuilder(i), Now)).rows
        /\ ServerUpdateOne(servers, id, ServerUpdateDefaults(ServerUpdateBuilder(i), Now)).err = "ok"
    BY <1>5 DEF UpdateServer
  <2> HIDE DEF i
  <2>4. /\ id \in DOMAIN servers /\ DOMAIN servers' = DOMAIN servers /\ TableOK(ServersTable, servers', {})
        /\ \A j \in DOMAIN servers \ {id} : servers'[j] = servers[j]
        /\ \A f \in Settings :
             servers'[id][f] = IF f \in DOMAIN i /\ i[f] # Null THEN i[f] ELSE servers[id][f]
    BY <2>1, <2>3, UpdatedServer DEF IInv, TablesOK, ServerAnswer
  <2>5. /\ DOMAIN acked' = DOMAIN servers'
        /\ \A j \in DOMAIN servers \ {id} : acked'[j] = acked[j]
        /\ \A f \in Settings : acked'[id][f] = IF f \in DOMAIN i THEN i[f] ELSE acked[id][f]
    BY <1>3, <2>2, <2>4
  <2>6. \A f \in Settings : acked'[id][f] = Shown(servers'[id][f])
    <3>1. \A f \in Settings : acked[id][f] = Shown(servers[id][f])
      BY <2>4 DEF IInv, SettingsOK
    <3> QED
      BY <2>1, <2>4, <2>5, <3>1 DEF Shown
  <2>7. SettingsOK'
    BY <2>4, <2>5, <2>6 DEF IInv, SettingsOK
  <2> QED
    BY <1>2, <1>3, <2>4, <2>7, ServerUpdateInv
<1> HIDE DEF res, in
<1> QED
  BY <1>1, <1>4, <1>5

(* The outcome of a probe touches no setting, whatever the caller had read.  *)
LEMMA TestReportInv ==
  ASSUME IInv, NEW w \in Workers, TestReport(w)
  PROVE  IInv'
<1> DEFINE in(status, err) == [status |-> status, last_pinged_at |-> Now, last_error |-> err]
           id == task[w].id
<1>1. PICK status \in {"reachable", "unreachable"}, err \in {"", "error"} :
        servers' = SetServerStatus(id, task[w].seen, status, err).rows
  <2>1. PICK reachable \in BOOLEAN :
          servers' = SetServerStatus(id, task[w].seen, IF reachable THEN "reachable" ELSE "unreachable",
                                     IF reachable THEN "" ELSE "error").rows
    BY DEF TestReport
  <2>2. CASE reachable
    BY <2>1, <2>2
  <2>3. CASE ~ reachable
    BY <2>1, <2>3
  <2> QED
    BY <2>2, <2>3
<1>2. Goto(w, Idle) /\ UNCHANGED <<snapshots, cursors, alerts, issued, acked, captures, ticks>>
  BY DEF TestReport
<1>3. /\ DOMAIN task' = Actors
      /\ \A a \in Actors : task'[a] = task[a] \/ task'[a] = Idle
  BY <1>2 DEF IInv, TasksOK, Goto
<1> DEFINE i == in(status, err)
<1>4. \A f \in Settings : f \notin DOMAIN i
  BY DEF Settings
<1>8. DOMAIN i \subseteq Settings \cup {"status", "last_pinged_at", "last_error"}
  OBVIOUS
<1>5. servers' = ServerUpdateOne(servers, id, ServerUpdateDefaults(ServerUpdateBuilder(i), Now)).rows
  BY <1>1 DEF SetServerStatus, StatusColumns
<1> HIDE DEF i, id
<1>6. /\ DOMAIN servers' = DOMAIN servers /\ TableOK(ServersTable, servers', {})
      /\ \A j \in DOMAIN servers : \A f \in Settings : servers'[j][f] = servers[j][f]
  <2> DEFINE res == ServerUpdateOne(servers, id, ServerUpdateDefaults(ServerUpdateBuilder(i), Now))
  <2>1. TableOK(ServersTable, servers, {})
    BY DEF IInv, TablesOK
  <2>2. ServerAnswer(servers, id, i, res)
    BY <1>8, <2>1, UpdatedServer
  <2>3. servers' = res.rows
    BY <1>5
  <2> HIDE DEF res
  <2>4. CASE servers' = servers
    BY <2>1, <2>4
  <2> QED
    BY <1>4, <2>2, <2>3, <2>4 DEF ServerAnswer
<1>7. SettingsOK'
  BY <1>2, <1>6 DEF IInv, SettingsOK
<1> QED
  BY <1>2, <1>3, <1>6, <1>7, ServerUpdateInv

(* Only a server without children leaves.                                    *)
LEMMA DeleteInv ==
  ASSUME IInv, NEW w \in Workers, Delete(w)
  PROVE  IInv'
<1>1. PICK id \in 1..issued["servers"] :
        /\ servers' = DeleteServer(id).rows
        /\ acked' = [i \in DOMAIN DeleteServer(id).rows |-> acked[i]]
  BY DEF Delete
<1>2. UNCHANGED <<snapshots, cursors, alerts, issued, task, captures, ticks>>
  BY DEF Delete
<1>3. /\ issued["servers"] \in Nat /\ captures' \in Nat
      /\ DOMAIN task = Actors /\ DOMAIN acked = DOMAIN servers
  BY <1>2 DEF IInv, IdsOK, Tables, TasksOK, SettingsOK
<1>4. \/ servers' = servers
      \/ /\ id \notin Referenced(snapshots) \cup Referenced(cursors)
         /\ servers' = [i \in DOMAIN servers \ {id} |-> servers[i]]
         /\ TableOK(ServersTable, servers', {})
  <2> DEFINE referenced == Referenced(snapshots) \cup Referenced(cursors)
             after == DeleteOne(servers, referenced, id).rows
  <2>1. TableOK(ServersTable, servers, {})
    BY DEF IInv, TablesOK
  <2>2. \/ after = servers
        \/ /\ id \in DOMAIN servers \ referenced
           /\ after = [i \in DOMAIN servers \ {id} |-> servers[i]]
           /\ TableOK(ServersTable, after, {})
    <3> HIDE DEF referenced
    <3> QED
      BY <2>1, DeleteIs
  <2>3. servers' = after
    BY <1>1 DEF DeleteServer
  <2> HIDE DEF after
  <2> QED
    BY <2>2, <2>3
<1>5. acked' = [i \in DOMAIN servers' |-> acked[i]]
  BY <1>1
<1>6. TablesOK'
  <2>1. CASE servers' = servers
    BY <1>2, <2>1 DEF IInv, TablesOK
  <2>2. CASE servers' # servers
    <3>1. DOMAIN servers' = DOMAIN servers \ {id}
      BY <1>4, <2>2
    <3>2. /\ TableOK(SystemSnapshotsTable, snapshots, DOMAIN servers \ {id})
          /\ TableOK(LogCursorsTable, cursors, DOMAIN servers \ {id})
      <4>1. SystemSnapshotsTable.refs \subseteq {"server"} /\ LogCursorsTable.refs \subseteq {"server"}
        BY DEF SystemSnapshotsTable, LogCursorsTable
      <4> QED
        BY <1>4, <2>2, <4>1, ChildlessGone DEF IInv, TablesOK
    <3> QED
      BY <1>2, <1>4, <2>2, <3>1, <3>2 DEF IInv, TablesOK
  <2> QED
    BY <2>1, <2>2
<1>7. DOMAIN servers' \subseteq DOMAIN servers /\ \A i \in DOMAIN servers' : servers'[i] = servers[i]
  BY <1>4
<1>8. IdsOK'
  BY <1>2, <1>7 DEF IInv, IdsOK
<1>9. TasksOK'
  BY <1>2, <1>3, <1>8, KeptCaptures, TasksStep DEF IInv
<1>10. SettingsOK'
  BY <1>3, <1>5, <1>7 DEF IInv, SettingsOK
<1> QED
  BY <1>2, <1>6, <1>8, <1>9, <1>10 DEF IInv, AlertsOK

(* The steps that write a capture.                                           *)
(* What the write of in by goroutine t leaves of the rows of captures.       *)
SnapshotEffect(t, res, id) ==
  \/ res.err # "ok" /\ res.rows = snapshots
  \/ /\ res.err = "ok" /\ TableOK(SystemSnapshotsTable, res.rows, DOMAIN servers)
     /\ id = (IF t.row = Null THEN Fresh("snapshots") ELSE t.row)
     /\ t.row # Null => id \in DOMAIN snapshots /\ snapshots[id].server = t.id
     /\ DOMAIN res.rows = DOMAIN snapshots \cup {id}
     /\ \A i \in DOMAIN snapshots \ {id} : res.rows[i] = snapshots[i]
     /\ res.rows[id].server = t.id
     /\ IF t.in.payload # Null /\ (t.row = Null \/ t.in.payload.kind # "empty")
        THEN res.rows[id].payload = t.in.payload
        ELSE t.row # Null => res.rows[id].payload = snapshots[id].payload

LEMMA SnapshotWriteIs ==
  ASSUME IInv, NEW a \in Actors, SnapshotWrite(a)
  PROVE  \E res, id :
           /\ SnapshotEffect(task[a], res, id)
           /\ snapshots' = res.rows
           /\ issued' = [issued EXCEPT !["snapshots"] =
                           @ + IF task[a].row = Null /\ res.err = "ok" THEN 1 ELSE 0]
           /\ Goto(a, IF task[a].by = "refresh" /\ task[a].in.last_error = "" /\ res.err = "ok"
                      THEN [at |-> "readback", id |-> task[a].id] ELSE Idle)
<1> DEFINE in == task[a].in
           id == IF task[a].row = Null THEN Fresh("snapshots") ELSE task[a].row
           create(payload) == SnapshotInsert(snapshots, DOMAIN servers, id,
               SnapshotDefaults(SnapshotSetServer(SnapshotSetError(SnapshotSetPayload(
                   NewMutation, payload), in.last_error), task[a].id), Now))
           update == SnapshotUpdateOne(snapshots, DOMAIN servers, id,
                                       SnapshotUpdateDefaults(SnapshotColumns(in), Now))
           blobs == IF in.payload = Null THEN {Null, [kind |-> "empty", n |-> 0]} ELSE {in.payload}
<1>1. PICK res \in IF task[a].row = Null THEN {create(p) : p \in blobs} ELSE {update} :
        /\ snapshots' = res.rows
        /\ issued' = [issued EXCEPT !["snapshots"] = @ + IF task[a].row = Null /\ res.err = "ok" THEN 1 ELSE 0]
        /\ Goto(a, IF task[a].by = "refresh" /\ in.last_error = "" /\ res.err = "ok"
                   THEN [at |-> "readback", id |-> task[a].id] ELSE Idle)
  BY DEF SnapshotWrite, Issue
<1>2. TableOK(SystemSnapshotsTable, snapshots, DOMAIN servers)
  BY DEF IInv, TablesOK
<1>3. Fresh("snapshots") \notin DOMAIN snapshots
  BY DEF IInv, IdsOK, Fresh, Tables
<1>4. RowOK(snapshots, task[a].id, task[a].row)
  <2>1. TaskOK(issued["servers"], snapshots, a, task[a]) /\ task[a].at = "write"
    BY DEF IInv, TasksOK, SnapshotWrite
  <2> QED
    BY <2>1 DEF TaskOK, Idle
<1>5. CASE task[a].row = Null
  <2>1. PICK p \in blobs : res = create(p)
    BY <1>1, <1>5
  <2>2. in.payload = Null \/ p = in.payload
    OBVIOUS
  <2>3. id = Fresh("snapshots") /\ id \notin DOMAIN snapshots
    BY <1>3, <1>5
  <2> HIDE DEF id, in
  <2>4. SnapshotAnswer(snapshots, DOMAIN servers, id, task[a].id, p, create(p))
    BY <1>2, <2>3, SnapshotCreated
  <2>5. SnapshotAnswer(snapshots, DOMAIN servers, id, task[a].id, p, res)
    BY <2>1, <2>4
  <2> HIDE DEF create
  <2>6. SnapshotEffect(task[a], res, id)
    BY <1>5, <2>2, <2>3, <2>5 DEF SnapshotAnswer, SnapshotEffect, in
  <2> QED
    BY <1>1, <2>6 DEF in
<1>6. CASE task[a].row # Null
  <2>1. res = update
    BY <1>1, <1>6
  <2>2. id = task[a].row /\ id \in DOMAIN snapshots /\ snapshots[id].server = task[a].id
    BY <1>4, <1>6 DEF RowOK
  <2> HIDE DEF id, in
  <2>3. SnapshotChange(snapshots, DOMAIN servers, id, in, update)
    BY <1>2, SnapshotUpdated
  <2>4. SnapshotChange(snapshots, DOMAIN servers, id, in, res)
    BY <2>1, <2>3
  <2> HIDE DEF update
  <2>5. SnapshotEffect(task[a], res, id)
    BY <1>6, <2>2, <2>4 DEF SnapshotChange, SnapshotEffect, in
  <2> QED
    BY <1>1, <2>5 DEF in
<1> QED
  BY <1>5, <1>6

LEMMA SnapshotWriteInv ==
  ASSUME IInv, NEW a \in Actors, SnapshotWrite(a)
  PROVE  IInv'
<1> DEFINE t == task[a]
<1>1. PICK res, id :
        /\ SnapshotEffect(t, res, id)
        /\ snapshots' = res.rows
        /\ issued' = [issued EXCEPT !["snapshots"] = @ + IF t.row = Null /\ res.err = "ok" THEN 1 ELSE 0]
        /\ Goto(a, IF t.by = "refresh" /\ t.in.last_error = "" /\ res.err = "ok"
                   THEN [at |-> "readback", id |-> t.id] ELSE Idle)
  BY SnapshotWriteIs
<1>2. UNCHANGED <<servers, cursors, alerts, acked, captures, ticks>>
  BY DEF SnapshotWrite
<1>3. /\ t.id \in 1..issued["servers"] /\ OutcomeOK(t.by, t.in) /\ RowOK(snapshots, t.id, t.row)
  <2>1. TaskOK(issued["servers"], snapshots, a, t) /\ t.at = "write"
    BY DEF IInv, TasksOK, SnapshotWrite
  <2> QED
    BY <2>1 DEF TaskOK, Idle
<1>4. /\ issued \in [Tables -> Nat] /\ DOMAIN snapshots \subseteq 1..issued["snapshots"]
      /\ DOMAIN task = Actors
  BY DEF IInv, IdsOK, TasksOK
<1> HIDE DEF t
<1>5. TableOK(SystemSnapshotsTable, snapshots', DOMAIN servers)
  BY <1>1 DEF SnapshotEffect, IInv, TablesOK
<1>6. TablesOK'
  BY <1>2, <1>5 DEF IInv, TablesOK
<1> DEFINE new == t.row = Null /\ res.err = "ok"
<1>7. /\ issued' \in [Tables -> Nat]
      /\ \A u \in Tables \ {"snapshots"} : issued'[u] = issued[u]
      /\ issued'["snapshots"] = issued["snapshots"] + IF new THEN 1 ELSE 0
  <2>1. issued' = [issued EXCEPT !["snapshots"] = @ + IF new THEN 1 ELSE 0]
    BY <1>1
  <2> HIDE DEF new
  <2> QED
    BY <1>4, <2>1 DEF Tables
<1>8. DOMAIN snapshots' \subseteq 1..issued'["snapshots"]
  <2>1. issued["snapshots"] \in Nat
    BY <1>4 DEF Tables
  <2>2. CASE new
    <3>1. DOMAIN snapshots' = DOMAIN snapshots \cup {issued["snapshots"] + 1}
      BY <1>1, <2>2 DEF SnapshotEffect, Fresh
    <3>2. issued'["snapshots"] = issued["snapshots"] + 1
      BY <1>7, <2>2
    <3> QED
      BY <1>4, <2>1, <3>1, <3>2
  <2>3. CASE ~ new
    <3>1. DOMAIN snapshots' = DOMAIN snapshots
      BY <1>1, <2>3 DEF SnapshotEffect
    <3>2. issued'["snapshots"] = issued["snapshots"]
      BY <1>7, <2>1, <2>3
    <3> QED
      BY <1>4, <3>1, <3>2
  <2> QED
    BY <2>2, <2>3
<1>9. IdsOK'
  BY <1>2, <1>7, <1>8 DEF IInv, IdsOK, Tables
<1>10. KeepsCaptures(snapshots, snapshots')
  <2>1. t.row = Null => Fresh("snapshots") \notin DOMAIN snapshots
    BY <1>4 DEF Fresh, Tables
  <2> QED
    BY <1>1, <2>1 DEF SnapshotEffect, KeepsCaptures
<1>11. ASSUME t.by = "refresh", t.in.last_error = "", res.err = "ok"
       PROVE  HasCapture(snapshots', t.id)
  <2>1. t.in.payload # Null /\ t.in.payload.kind = "json"
    BY <1>3, <1>11 DEF OutcomeOK
  <2>2. /\ id \in DOMAIN snapshots' /\ snapshots'[id].server = t.id
        /\ snapshots'[id].payload = t.in.payload
    BY <1>1, <1>11, <2>1 DEF SnapshotEffect
  <2> QED
    BY <2>1, <2>2 DEF HasCapture
<1>12. TasksOK'
  <2>1. /\ DOMAIN task' = Actors /\ \A b \in Actors \ {a} : task'[b] = task[b]
        /\ task'[a] = IF t.by = "refresh" /\ t.in.last_error = "" /\ res.err = "ok"
                      THEN [at |-> "readback", id |-> t.id] ELSE Idle
    BY <1>1, <1>4 DEF Goto
  <2>2. issued'["servers"] = issued["servers"] /\ issued["servers"] <= issued'["servers"]
    BY <1>4, <1>7 DEF Tables
  <2>3. HasCapture(snapshots', t.id) =>
          TaskOK(issued'["servers"], snapshots', a, [at |-> "readback", id |-> t.id])
    BY <1>3, <2>2 DEF TaskOK
  <2>4. TaskOK(issued'["servers"], snapshots', a, task'[a])
    BY <1>11, <2>1, <2>3, IdleIsFine
  <2> QED
    BY <1>9, <1>10, <2>1, <2>2, <2>4, TasksStep DEF IInv
<1> QED
  BY <1>2, <1>6, <1>9, <1>12 DEF IInv, SettingsOK, AlertsOK

LEMMA CursorWriteInv ==
  ASSUME IInv, NEW w \in Workers, CursorWrite(w)
  PROVE  IInv'
<1> DEFINE new == task[w].row = Null
           place == [log_path |-> IF new THEN task[w].path ELSE Null, byte_offset |-> 1,
                     last_seen_at |-> IF new THEN Null ELSE Now]
           m == CursorSetPlace(NewMutation, place)
           made == CursorInsert(cursors, DOMAIN servers, Fresh("cursors"),
                                CursorDefaults(CursorSetServer(m, task[w].id), Now))
           moved == CursorUpdateOne(cursors, DOMAIN servers, task[w].row, CursorUpdateDefaults(m, Now))
           res == IF new THEN made ELSE moved
<1>1. /\ cursors' = res.rows
      /\ issued' = [issued EXCEPT !["cursors"] = @ + IF new /\ res.err = "ok" THEN 1 ELSE 0]
      /\ Goto(w, Idle)
      /\ UNCHANGED <<servers, snapshots, alerts, acked, captures, ticks>>
  BY DEF CursorWrite, Issue
<1>2. /\ issued \in [Tables -> Nat] /\ DOMAIN cursors \subseteq 1..issued["cursors"]
      /\ DOMAIN task = Actors
  BY DEF IInv, IdsOK, TasksOK
<1>3. TableOK(LogCursorsTable, cursors, DOMAIN servers)
  BY DEF IInv, TablesOK
<1>4. Fresh("cursors") = issued["cursors"] + 1 /\ Fresh("cursors") \notin DOMAIN cursors
  BY <1>2 DEF Fresh, Tables
<1>5. DOMAIN CursorUpdateDefaults(m, Now) \subseteq LogCursorsTable.columns
  BY DEF CursorUpdateDefaults, CursorSetPlace, SetFields, NewMutation, Over, LogCursorsTable
<1> HIDE DEF m
<1>6. CursorAnswer(cursors, DOMAIN servers, {Fresh("cursors")}, made)
  BY <1>3, <1>4, CursorCreated
<1>7. CursorAnswer(cursors, DOMAIN servers, {}, moved)
  BY <1>3, <1>5, CursorUpdated
<1> HIDE DEF made, moved
<1>8. CursorAnswer(cursors, DOMAIN servers, IF new THEN {Fresh("cursors")} ELSE {}, res)
  BY <1>6, <1>7
<1> HIDE DEF new, res
<1>9. TablesOK'
  BY <1>1, <1>8 DEF CursorAnswer, IInv, TablesOK
<1>10. /\ issued' \in [Tables -> Nat]
       /\ \A u \in Tables \ {"cursors"} : issued'[u] = issued[u]
       /\ issued'["cursors"] = issued["cursors"] + IF new /\ res.err = "ok" THEN 1 ELSE 0
  BY <1>1, <1>2 DEF Tables
<1>11. DOMAIN cursors' \subseteq 1..issued'["cursors"]
  <2>1. issued["cursors"] \in Nat
    BY <1>2 DEF Tables
  <2>2. CASE new /\ res.err = "ok"
    BY <1>1, <1>2, <1>4, <1>8, <1>10, <2>1, <2>2 DEF CursorAnswer
  <2>3. CASE ~(new /\ res.err = "ok")
    <3>1. DOMAIN cursors' = DOMAIN cursors
      BY <1>1, <1>8, <2>3 DEF CursorAnswer
    <3> QED
      BY <1>2, <1>10, <2>1, <2>3, <3>1
  <2> QED
    BY <2>2, <2>3
<1>12. IdsOK'
  BY <1>1, <1>10, <1>11 DEF IInv, IdsOK, Tables
<1>13. TasksOK'
  <2>1. /\ DOMAIN task' = Actors /\ \A b \in Actors : task'[b] = task[b] \/ task'[b] = Idle
        /\ issued["servers"] <= issued'["servers"]
    BY <1>1, <1>2, <1>10 DEF Goto, Tables
  <2> QED
    BY <1>1, <1>12, <2>1, IdleIsFine, KeptCaptures, TasksStep DEF IInv
<1> QED
  BY <1>1, <1>9, <1>12, <1>13 DEF IInv, SettingsOK, AlertsOK

(* The steps that write an alert.                                            *)
(* The query for a series and the list of the rule agree on its one row.     *)
LEMMA LastNotifiedIs ==
  ASSUME IInv, NEW fp
  PROVE  LET found == AlertOnly(alerts, Rule, fp) IN
         \/ /\ found.err = "ok" /\ found.id \in DOMAIN alerts
            /\ LastNotified(fp) = alerts[found.id].last_notified_at /\ LastNotified(fp) \in 1..ticks
         \/ found.err # "ok" /\ LastNotified(fp) = 0
<1> DEFINE known == {i \in AlertAll(alerts, Rule) : alerts[i].fingerprint = fp}
<1>1. AlertOnly(alerts, Rule, fp) = Only(known)
  <2>1. {i \in DOMAIN alerts : alerts[i].rule_name = Rule /\ alerts[i].fingerprint = fp} = known
    BY DEF AlertAll, AlertHasRule
  <2> HIDE DEF known
  <2> QED
    BY <2>1 DEF AlertOnly, AlertHasRule, AlertHasFingerprint
<1>2. LastNotified(fp) = IF known = {} THEN 0 ELSE alerts[CHOOSE i \in known : TRUE].last_notified_at
  BY DEF LastNotified
<1>3. ASSUME NEW i \in known, NEW j \in known
      PROVE  i = j
  BY UniqueKeys DEF IInv, TablesOK, AlertAll, AlertHasRule
<1>4. known \subseteq DOMAIN alerts
  BY DEF AlertAll
<1> HIDE DEF known
<1>5. CASE known = {}
  BY <1>1, <1>2, <1>5, OnlyIs
<1>6. CASE known # {}
  <2>1. PICK i \in known : TRUE
    BY <1>6
  <2>2. known = {i} /\ (CHOOSE j \in known : TRUE) = i
    BY <1>3, <2>1
  <2>3. Only(known).err = "ok" /\ Only(known).id = i
    BY <2>2, OnlyIs
  <2>4. alerts[i].last_notified_at \in 1..ticks
    BY <1>4, <2>1 DEF IInv, AlertsOK
  <2> QED
    BY <1>1, <1>2, <1>4, <1>6, <2>1, <2>2, <2>3, <2>4
<1> QED
  BY <1>5, <1>6

(* An evaluation writes one row: the one of its series, or a new one.        *)
LEMMA AlertFiresIs ==
  ASSUME IInv, AlertFires
  PROVE  /\ TableOK(AlertStatesTable, alerts', {})
         /\ issued' \in [Tables -> Nat] /\ DOMAIN alerts' \subseteq 1..issued'["alerts"]
         /\ \A u \in Tables \ {"alerts"} : issued'[u] = issued[u]
         /\ \A i \in DOMAIN alerts :
              /\ alerts'[i].first_fired_at = alerts[i].first_fired_at
              /\ alerts'[i].last_notified_at >= alerts[i].last_notified_at
         /\ \A i \in DOMAIN alerts' :
              alerts'[i].rule_name = Rule /\ alerts'[i].last_notified_at \in 1..ticks'
<1> DEFINE prev(fp) == LastNotified(fp)
           in(fp, due) == [rule_name |-> Rule, fingerprint |-> fp, labels |-> "labels",
                           status |-> "firing", value |-> 1,
                           last_notified_at |-> IF due \/ prev(fp) = 0 THEN ticks' ELSE prev(fp)]
           answer(fp, due) == UpsertAlertState(in(fp, due), ticks')
<1>1. PICK fp \in Fingerprints, due \in BOOLEAN :
        /\ alerts' = answer(fp, due).rows
        /\ issued' = [issued EXCEPT !["alerts"] =
              @ + IF answer(fp, due).err = "ok" /\ AlertOnly(alerts, Rule, fp).err # "ok" THEN 1 ELSE 0]
  BY DEF AlertFires, Issue
<1>2. /\ ticks' = ticks + 1 /\ ticks \in Nat
      /\ issued \in [Tables -> Nat] /\ DOMAIN alerts \subseteq 1..issued["alerts"]
      /\ TableOK(AlertStatesTable, alerts, {})
  BY DEF AlertFires, IInv, IdsOK, TablesOK
<1> DEFINE found == AlertOnly(alerts, Rule, fp)
           i == in(fp, due)
           id == IF found.err = "ok" THEN found.id ELSE Fresh("alerts")
           new == answer(fp, due).err = "ok" /\ found.err # "ok"
           told == i.last_notified_at
<1>3. /\ found.err = "ok" => /\ found.id \in DOMAIN alerts
                             /\ prev(fp) = alerts[found.id].last_notified_at /\ prev(fp) \in 1..ticks
      /\ found.err # "ok" => prev(fp) = 0
  BY LastNotifiedIs
<1>4. told \in 1..ticks' /\ (found.err = "ok" => told >= alerts[found.id].last_notified_at)
  <2> HIDE DEF found, prev
  <2>1. told = IF due \/ prev(fp) = 0 THEN ticks' ELSE prev(fp)
    OBVIOUS
  <2> HIDE DEF told
  <2> QED
    BY <1>2, <1>3, <2>1
<1>5. /\ i.rule_name = Rule /\ i.fingerprint = fp /\ told # Null /\ Rule # Null
      /\ {"rule_name", "fingerprint", "status", "value", "last_notified_at"} \subseteq DOMAIN i
  <2>1. told # Null
    BY <1>2, <1>4, InventoryAssumption
  <2>2. Rule # Null
    BY InventoryAssumption
  <2>3. i.rule_name = Rule /\ i.fingerprint = fp
    OBVIOUS
  <2>4. {"rule_name", "fingerprint", "status", "value", "last_notified_at"} \subseteq DOMAIN i
    OBVIOUS
  <2> HIDE DEF i
  <2> QED
    BY <2>1, <2>2, <2>3, <2>4
<1>6. Fresh("alerts") = issued["alerts"] + 1 /\ Fresh("alerts") \notin DOMAIN alerts
  BY <1>2 DEF Fresh, Tables
<1> HIDE DEF i
<1>7. AlertAnswer(alerts, id, i, UpsertAlertState(i, ticks'))
  <2>1. CASE found.err = "ok"
    BY <1>2, <1>5, <2>1, AlertUpdated DEF UpsertAlertState
  <2>2. CASE found.err # "ok"
    BY <1>2, <1>5, <1>6, <2>2, AlertCreated DEF UpsertAlertState
  <2> QED
    BY <2>1, <2>2
<1> DEFINE res == UpsertAlertState(i, ticks')
<1>8. /\ alerts' = res.rows /\ new = (res.err = "ok" /\ found.err # "ok")
      /\ issued' = [issued EXCEPT !["alerts"] = @ + IF new THEN 1 ELSE 0]
  BY <1>1 DEF i
<1>9. found.err = "ok" => id = found.id /\ id \in DOMAIN alerts
  BY <1>3
<1>10. found.err # "ok" => id = issued["alerts"] + 1 /\ id \notin DOMAIN alerts
  BY <1>6
<1> HIDE DEF res, answer, found, prev, in, id, told, new
<1>11. /\ issued' \in [Tables -> Nat]
       /\ \A u \in Tables \ {"alerts"} : issued'[u] = issued[u]
       /\ issued'["alerts"] = issued["alerts"] + IF new THEN 1 ELSE 0
  BY <1>2, <1>8 DEF Tables
<1>12. /\ res.err # "ok" => alerts' = alerts
       /\ res.err = "ok" =>
            /\ TableOK(AlertStatesTable, alerts', {})
            /\ DOMAIN alerts' = DOMAIN alerts \cup {id}
            /\ \A j \in DOMAIN alerts \ {id} : alerts'[j] = alerts[j]
            /\ alerts'[id].last_notified_at = told
            /\ alerts'[id].rule_name = IF id \in DOMAIN alerts THEN alerts[id].rule_name ELSE Rule
            /\ id \in DOMAIN alerts => alerts'[id].first_fired_at = alerts[id].first_fired_at
  BY <1>5, <1>7, <1>8 DEF AlertAnswer, res, told
<1>13. TableOK(AlertStatesTable, alerts', {})
  BY <1>2, <1>12
<1>14. \A j \in DOMAIN alerts :
         alerts[j].rule_name = Rule /\ alerts[j].last_notified_at \in 1..ticks
  BY DEF IInv, AlertsOK
<1>15. DOMAIN alerts' \subseteq 1..issued'["alerts"]
  <2>1. issued["alerts"] \in Nat
    BY <1>2 DEF Tables
  <2>2. CASE new
    <3>1. id = issued["alerts"] + 1 /\ DOMAIN alerts' = DOMAIN alerts \cup {id}
      BY <1>8, <1>10, <1>12, <2>2
    <3>2. issued'["alerts"] = issued["alerts"] + 1
      BY <1>11, <2>2
    <3> QED
      BY <1>2, <2>1, <3>1, <3>2
  <2>3. CASE ~ new
    <3>1. DOMAIN alerts' = DOMAIN alerts
      BY <1>8, <1>9, <1>12, <2>3
    <3>2. issued'["alerts"] = issued["alerts"]
      BY <1>11, <2>1, <2>3
    <3> QED
      BY <1>2, <3>1, <3>2
  <2> QED
    BY <2>2, <2>3
<1>16. ASSUME NEW j \in DOMAIN alerts
       PROVE  /\ alerts'[j].first_fired_at = alerts[j].first_fired_at
              /\ alerts'[j].last_notified_at >= alerts[j].last_notified_at
  <2>1. alerts[j].last_notified_at \in Nat
    BY <1>2, <1>14
  <2>2. CASE res.err = "ok" /\ j = id
    BY <1>4, <1>9, <1>10, <1>12, <2>2
  <2>3. CASE ~(res.err = "ok" /\ j = id)
    <3>1. alerts'[j] = alerts[j]
      BY <1>12, <2>3
    <3> QED
      BY <2>1, <3>1
  <2> QED
    BY <2>2, <2>3
<1>17. ASSUME NEW j \in DOMAIN alerts'
       PROVE  alerts'[j].rule_name = Rule /\ alerts'[j].last_notified_at \in 1..ticks'
  <2>1. CASE res.err = "ok" /\ j = id
    BY <1>4, <1>12, <1>14, <2>1
  <2>2. CASE ~(res.err = "ok" /\ j = id)
    <3>1. j \in DOMAIN alerts /\ alerts'[j] = alerts[j]
      BY <1>12, <2>2
    <3> QED
      BY <1>2, <1>14, <3>1
  <2> QED
    BY <2>1, <2>2
<1> QED
  BY <1>11, <1>13, <1>15, <1>16, <1>17

LEMMA AlertFiresInv ==
  ASSUME IInv, AlertFires
  PROVE  IInv'
<1>1. UNCHANGED <<servers, snapshots, cursors, task, acked, captures>> /\ ticks' = ticks + 1
  BY DEF AlertFires
<1>2. TablesOK'
  BY <1>1, AlertFiresIs DEF IInv, TablesOK
<1>3. IdsOK'
  BY <1>1, AlertFiresIs DEF IInv, IdsOK, Tables
<1>4. TasksOK'
  <2>1. DOMAIN task = Actors /\ issued["servers"] <= issued'["servers"]
    BY AlertFiresIs DEF IInv, IdsOK, TasksOK, Tables
  <2> QED
    BY <1>1, <1>3, <2>1, KeptCaptures, TasksStep DEF IInv
<1>5. AlertsOK'
  BY AlertFiresIs DEF AlertsOK
<1> QED
  BY <1>1, <1>2, <1>3, <1>4, <1>5 DEF IInv, SettingsOK

(* A row that is left stays as it was.                                       *)
LEMMA AlertClearsIs ==
  ASSUME IInv, AlertClears
  PROVE  /\ TableOK(AlertStatesTable, alerts', {}) /\ DOMAIN alerts' \subseteq DOMAIN alerts
         /\ \A i \in DOMAIN alerts' : alerts'[i] = alerts[i]
<1>1. PICK i : alerts' = DeleteOne(alerts, {}, i).rows
  BY DEF AlertClears
<1>2. TableOK(AlertStatesTable, alerts, {})
  BY DEF IInv, TablesOK
<1> DEFINE after == DeleteOne(alerts, {}, i).rows
<1>3. \/ after = alerts
      \/ /\ i \in DOMAIN alerts \ {}
         /\ after = [j \in DOMAIN alerts \ {i} |-> alerts[j]]
         /\ TableOK(AlertStatesTable, after, {})
  BY <1>2, DeleteIs
<1>4. alerts' = after
  BY <1>1
<1> HIDE DEF after
<1> QED
  BY <1>2, <1>3, <1>4

LEMMA AlertClearsInv ==
  ASSUME IInv, AlertClears
  PROVE  IInv'
<1>1. UNCHANGED <<servers, snapshots, cursors, issued, task, acked, captures, ticks>>
  BY DEF AlertClears
<1>2. TablesOK'
  BY <1>1, AlertClearsIs DEF IInv, TablesOK
<1>3. IdsOK'
  BY <1>1, AlertClearsIs DEF IInv, IdsOK
<1>4. TasksOK'
  <2>1. DOMAIN task = Actors /\ issued["servers"] <= issued'["servers"]
    BY <1>1 DEF IInv, IdsOK, TasksOK, Tables
  <2> QED
    BY <1>1, <1>3, <2>1, KeptCaptures, TasksStep DEF IInv
<1>5. AlertsOK'
  BY <1>1, AlertClearsIs DEF IInv, AlertsOK
<1> QED
  BY <1>1, <1>2, <1>3, <1>4, <1>5 DEF IInv, SettingsOK

-----------------------------------------------------------------------------
LEMMA NextInv ==
  ASSUME IInv, [Next]_vars
  PROVE  IInv'
<1>1. CASE UNCHANGED vars
  <2>1. DOMAIN task' = Actors /\ captures' \in Nat
    BY <1>1 DEF vars, IInv, IdsOK, TasksOK
  <2> QED
    BY <1>1, <2>1, QuietStep DEF vars
<1>2. ASSUME NEW w \in Workers,
             \/ Create(w) \/ Patch(w) \/ Delete(w) \/ TestStart(w) \/ TestReport(w)
             \/ RefreshStart(w) \/ Readback(w) \/ CursorQuery(w) \/ CursorWrite(w)
      PROVE  IInv'
  <2>1. w \in Actors
    BY DEF Actors
  <2> QED
    BY <1>2, <2>1, CreateInv, PatchInv, DeleteInv, TestStartInv, TestReportInv, RefreshStartInv,
       EndsInv, CursorQueryInv, CursorWriteInv
<1>3. ASSUME NEW a \in Actors, Run(a) \/ SnapshotQuery(a) \/ SnapshotWrite(a) \/ StatementFails(a)
      PROVE  IInv'
  BY <1>3, RunInv, SnapshotQueryInv, SnapshotWriteInv, EndsInv
<1> QED
  BY <1>1, <1>2, <1>3, BootStartInv, AlertFiresInv, AlertClearsInv, CrashInv DEF Next

LEMMA InvAlways == Spec => []IInv
<1>1. Init => IInv
  BY InitInv
<1>2. IInv /\ [Next]_vars => IInv'
  BY NextInv
<1> QED
  BY <1>1, <1>2, PTL DEF Spec

-----------------------------------------------------------------------------
(***************************************************************************)
(* What the invariant says.                                                *)
(***************************************************************************)
(* Rows are complete and stand under ids that were given out, whichever      *)
(* statements of ent_store.go overlap, and no goroutine works for a server   *)
(* that was never created.                                                   *)
THEOREM TypeCorrect == Spec => []TypeOK
<1>1. IInv => TypeOK
  <2> SUFFICES ASSUME IInv PROVE TypeOK
    OBVIOUS
  <2>1. /\ \A i \in DOMAIN servers : DOMAIN servers[i] = ServersTable.columns
        /\ \A i \in DOMAIN snapshots : DOMAIN snapshots[i] = SystemSnapshotsTable.columns
        /\ \A i \in DOMAIN cursors : DOMAIN cursors[i] = LogCursorsTable.columns
        /\ \A i \in DOMAIN alerts : DOMAIN alerts[i] = AlertStatesTable.columns
    BY DEF IInv, TablesOK, TableOK
  <2>2. \A a \in Actors : task[a] = Idle \/ task[a].id \in 1..issued["servers"]
    BY DEF IInv, TasksOK, TaskOK
  <2> QED
    BY <2>1, <2>2 DEF TypeOK, IInv, IdsOK
<1> QED
  BY <1>1, InvAlways, PTL

(* The keys of the four tables and the parents of snapshots and cursors      *)
(* survive upserts that query first and write later (ent_store.go), for any  *)
(* number of requests that overlap with them and with deletes.               *)
THEOREM KeysAndParentsAlways == Spec => []KeysAndParents
<1>1. IInv => KeysAndParents
  <2> SUFFICES ASSUME IInv PROVE KeysAndParents
    OBVIOUS
  <2>1. /\ \A i, j \in DOMAIN servers : servers[i].hostname = servers[j].hostname => i = j
        /\ \A i, j \in DOMAIN snapshots : snapshots[i].server = snapshots[j].server => i = j
    BY UniqueKeys DEF IInv, TablesOK
  <2>2. ASSUME NEW i \in DOMAIN cursors, NEW j \in DOMAIN cursors,
               <<cursors[i].server, cursors[i].log_path>> = <<cursors[j].server, cursors[j].log_path>>
        PROVE  i = j
    BY <2>2, UniqueKeys DEF IInv, TablesOK
  <2>3. \A i, j \in DOMAIN alerts : alerts[i].fingerprint = alerts[j].fingerprint => i = j
    BY UniqueKeys DEF IInv, TablesOK, AlertsOK
  <2>4. /\ \A i \in DOMAIN snapshots : snapshots[i].server \in DOMAIN servers
        /\ \A i \in DOMAIN cursors : cursors[i].server \in DOMAIN servers
    BY DEF IInv, TablesOK, TableOK, SystemSnapshotsTable, LogCursorsTable
  <2> QED
    BY <2>1, <2>2, <2>3, <2>4 DEF KeysAndParents, Referenced
<1> QED
  BY <1>1, InvAlways, PTL

(* A probe that read a whole record before its SSH round trip and writes to  *)
(* the same row after it (handlers.go testConnection) undoes no PATCH.       *)
THEOREM SettingsStayAlways == Spec => []SettingsStay
<1>1. IInv => SettingsStay
  <2> SUFFICES ASSUME IInv, NEW id \in DOMAIN servers
               PROVE  Get(id).code = 200 /\ \A f \in Settings : Get(id).body[f] = acked[id][f]
    BY DEF SettingsStay
  <2>1. ServerGet(servers, id).err = "ok"
    <3>1. {i \in DOMAIN servers : i = id} = {id}
      OBVIOUS
    <3> QED
      BY <3>1, OnlyIs DEF ServerGet
  <2>2. Get(id) = [code |-> 200, body |-> EntToServer(ServerNode(servers, id))]
    BY <2>1 DEF Get, GetServer, ToDTO
  <2>3. \A f \in Settings : EntToServer(ServerNode(servers, id))[f] = acked[id][f]
    BY ShownIs DEF IInv, TablesOK, SettingsOK
  <2> QED
    BY <2>2, <2>3
<1> QED
  BY <1>1, InvAlways, PTL

(* A refresh that stored its capture never answers 404 when it reads back,   *)
(* nor shows the payload of nobody (handlers.go refreshSystem).              *)
THEOREM RefreshFindsACaptureAlways == Spec => []RefreshFindsACapture
<1>1. IInv => RefreshFindsACapture
  <2> SUFFICES ASSUME IInv, NEW w \in Workers, task[w].at = "readback"
               PROVE  LET found == GetSystemSnapshot(task[w].id)
                      IN  found.err = "ok" /\ found.snap.payload.kind # "empty"
    BY DEF RefreshFindsACapture
  <2> DEFINE srv == task[w].id
             of == {i \in DOMAIN snapshots : snapshots[i].server = srv}
  <2>1. PICK i \in DOMAIN snapshots : snapshots[i].server = srv /\ snapshots[i].payload.kind # "empty"
    <3>1. TaskOK(issued["servers"], snapshots, w, task[w])
      BY DEF IInv, TasksOK, Actors
    <3>2. HasCapture(snapshots, srv)
      BY <3>1 DEF TaskOK, Idle
    <3> QED
      BY <3>2 DEF HasCapture
  <2>2. of = {i}
    BY <2>1, UniqueKeys DEF IInv, TablesOK
  <2> HIDE DEF srv
  <2>3. SnapshotOnly(snapshots, srv) = Only(of)
    BY DEF SnapshotOnly, SnapshotHasServer
  <2> HIDE DEF of
  <2>4. SnapshotOnly(snapshots, srv).err = "ok" /\ SnapshotOnly(snapshots, srv).id = i
    BY <2>2, <2>3, OnlyIs
  <2>5. SnapshotNode(snapshots, i).payload = snapshots[i].payload
    <3>1. "payload" \in DOMAIN snapshots[i]
      BY DEF IInv, TablesOK, TableOK, SystemSnapshotsTable
    <3> QED
      BY <3>1 DEF SnapshotNode
  <2>6. GetSystemSnapshot(srv) = [err |-> "ok", snap |-> SnapshotNode(snapshots, i)]
    BY <2>4 DEF GetSystemSnapshot
  <2> QED
    BY <2>1, <2>5, <2>6 DEF srv
<1> QED
  BY <1>1, InvAlways, PTL

-----------------------------------------------------------------------------
(* "a transient failure doesn't wipe the last good snapshot"                 *)
(* (ent_store.go:250-254), whatever captures fail, race or are cut short;    *)
(* only the goroutine of main.go puts there what does not parse.             *)
THEOREM PayloadStaysAlways == Spec => PayloadStays
<1> DEFINE A == \A i \in DOMAIN snapshots \cap DOMAIN snapshots' :
                  snapshots[i].payload.kind # "empty" =>
                    /\ snapshots'[i].payload.kind # "empty"
                    /\ snapshots[i].payload.kind = "json" /\ snapshots'[i].payload.kind = "garbage" =>
                         \E b \in Boots : task[b].at = "write" /\ b = snapshots[i].server
<1>1. IInv /\ [Next]_vars => [A]_vars
  <2> SUFFICES ASSUME IInv, Next PROVE A
    OBVIOUS
  <2>1. CASE snapshots' = snapshots
    BY <2>1
  <2>2. ASSUME NEW a \in Actors, SnapshotWrite(a)
        PROVE  A
    <3> DEFINE t == task[a]
    <3>1. PICK res, id : SnapshotEffect(t, res, id) /\ snapshots' = res.rows
      BY <2>2, SnapshotWriteIs
    <3>2. t.at = "write" /\ OutcomeOK(t.by, t.in) /\ CaptureOf(a, t.id, t.by)
      <4>1. TaskOK(issued["servers"], snapshots, a, t) /\ t.at = "write"
        BY <2>2 DEF IInv, TasksOK, SnapshotWrite
      <4> QED
        BY <4>1 DEF TaskOK, Idle
    <3>3. Fresh("snapshots") \notin DOMAIN snapshots
      BY DEF IInv, IdsOK, Fresh, Tables
    <3> HIDE DEF t
    <3> SUFFICES ASSUME NEW i \in DOMAIN snapshots \cap DOMAIN snapshots',
                        snapshots[i].payload.kind # "empty"
                 PROVE  /\ snapshots'[i].payload.kind # "empty"
                        /\ snapshots[i].payload.kind = "json" /\ snapshots'[i].payload.kind = "garbage" =>
                             \E b \in Boots : task[b].at = "write" /\ b = snapshots[i].server
      OBVIOUS
    <3>4. \/ snapshots'[i] = snapshots[i]
          \/ snapshots'[i].payload = snapshots[i].payload
          \/ /\ i = id /\ snapshots[i].server = t.id
             /\ t.in.payload # Null /\ t.in.payload.kind # "empty"
             /\ snapshots'[i].payload = t.in.payload
      BY <3>1, <3>3 DEF SnapshotEffect
    <3>5. ASSUME snapshots[i].server = t.id, t.in.payload # Null, t.in.payload.kind = "garbage"
          PROVE  \E b \in Boots : task[b].at = "write" /\ b = snapshots[i].server
      <4>1. t.by = "boot" /\ a \in Boots /\ t.id = a
        BY <3>2, <3>5 DEF OutcomeOK, CaptureOf
      <4> QED
        BY <3>2, <3>5, <4>1 DEF t
    <3> QED
      BY <3>4, <3>5
  <2>3. \/ snapshots' = snapshots
        \/ \E a \in Actors : SnapshotWrite(a)
    BY DEF Next, Create, Patch, Delete, TestStart, TestReport, RefreshStart, Readback, CursorQuery,
           CursorWrite, BootStart, Run, SnapshotQuery, StatementFails, AlertFires, AlertClears, Crash
  <2> QED
    BY <2>1, <2>2, <2>3
<1>2. PayloadStays <=> [][A]_vars
  BY DEF PayloadStays
<1> HIDE DEF A
<1> QED
  BY <1>1, <1>2, InvAlways, PTL DEF Spec

(* The cooldown of the evaluator rests on the times in its rows: a row keeps *)
(* its first firing and its last page only moves forward.                    *)
THEOREM AlertRowKeepsItsPastAlways == Spec => AlertRowKeepsItsPast
<1> DEFINE A == \A i \in DOMAIN alerts \cap DOMAIN alerts' :
                  /\ alerts'[i].first_fired_at = alerts[i].first_fired_at
                  /\ alerts'[i].last_notified_at >= alerts[i].last_notified_at
<1>1. IInv /\ [Next]_vars => [A]_vars
  <2> SUFFICES ASSUME IInv, Next PROVE A
    OBVIOUS
  <2>1. \A i \in DOMAIN alerts : alerts[i].last_notified_at \in Nat
    BY DEF IInv, IdsOK, AlertsOK
  <2>2. CASE alerts' = alerts
    BY <2>1, <2>2
  <2>3. CASE AlertFires
    BY <2>3, AlertFiresIs
  <2>4. CASE AlertClears
    BY <2>1, <2>4, AlertClearsIs
  <2>5. alerts' = alerts \/ AlertFires \/ AlertClears
    BY DEF Next, Create, Patch, Delete, TestStart, TestReport, RefreshStart, Readback, CursorQuery,
           CursorWrite, BootStart, Run, SnapshotQuery, SnapshotWrite, StatementFails, Crash
  <2> QED
    BY <2>2, <2>3, <2>4, <2>5
<1>2. AlertRowKeepsItsPast <=> [][A]_vars
  BY DEF AlertRowKeepsItsPast
<1> HIDE DEF A
<1> QED
  BY <1>1, <1>2, InvAlways, PTL DEF Spec
=============================================================================
