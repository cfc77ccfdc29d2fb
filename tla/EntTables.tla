------------------------------ MODULE EntTables ------------------------------
(***************************************************************************)
(* The storage layer under the Store interface: the four SQLite tables     *)
(* (src/ent/schema, src/ent/migrate) and the generated ent builders that   *)
(* src/internal/storage/ent_store.go calls.  Pure operators, no state.     *)
(*                                                                         *)
(* A mutation is a function from the columns that were set to their        *)
(* values: a typed setter adds a column, a getter's "ok" is membership in  *)
(* the domain, a Reset (called before a Set of a number) leaves no trace.  *)
(* A row is a function from every column of its table to a value or Null;  *)
(* a table is a function from ids to rows.  A time column holds whatever   *)
(* instant the caller passes as now.                                       *)
(*                                                                         *)
(* Every statement answers with a record: err is "ok" or the kind of the   *)
(* error, rows the table after the statement.                              *)
(***************************************************************************)
EXTENDS Integers, FiniteSets, Sequences

CONSTANTS
    Null        \* SQL NULL in a row, Go's nil in an input

-----------------------------------------------------------------------------
(***************************************************************************)
(* The schema.                                                             *)
(***************************************************************************)
ServersTable ==
    [columns  |-> {"name", "hostname", "ssh_user", "ssh_port", "ssh_key_path",
                   "bench_paths", "labels", "status", "last_pinged_at",
                   "last_error", "created_at", "updated_at"},
     nullable |-> {"bench_paths", "labels", "last_pinged_at", "last_error"},
     unique   |-> {{"hostname"}},
     refs     |-> {}]

LogCursorsTable ==
    [columns  |-> {"log_path", "byte_offset", "last_seen_at", "server"},
     nullable |-> {},
     unique   |-> {{"log_path", "server"}},
     refs     |-> {"server"}]

MutantSystemSnapshotsTable ==
    [columns  |-> {"captured_at", "payload", "last_error", "server"},
     nullable |-> {"last_error"}, unique |-> {}, refs |-> {"server"}]
SystemSnapshotsTable ==
    [columns  |-> {"captured_at", "payload", "last_error", "server"},
     nullable |-> {"last_error"},
     unique   |-> {{"server"}},
     refs     |-> {"server"}]

AlertStatesTable ==
    [columns  |-> {"rule_name", "fingerprint", "labels", "status", "value",
                   "first_fired_at", "last_notified_at", "updated_at"},
     nullable |-> {"labels"},
     unique   |-> {{"rule_name", "fingerprint"}},
     refs     |-> {}]

-----------------------------------------------------------------------------
(***************************************************************************)
(* Mutations.                                                              *)
(***************************************************************************)
NewMutation == <<>>

\* f where it has a value, g elsewhere; and f with one value put in.
Over(f, g) == [k \in DOMAIN f \cup DOMAIN g |-> IF k \in DOMAIN f THEN f[k] ELSE g[k]]
Put(f, x, v) == [k \in DOMAIN f \cup {x} |-> IF k = x THEN v ELSE f[k]]

\* The columns of F that the input gives, set on the mutation.
SetFields(m, in, F) ==
    LET given == {f \in F \cap DOMAIN in : in[f] # Null}
    IN  Over([f \in given |-> in[f]], m)

ServerSetNames(m, in)  == SetFields(m, in, {"name", "hostname", "ssh_user"})
ServerSetAccess(m, in) == SetFields(m, in, {"ssh_port", "ssh_key_path"})
ServerSetLists(m, in)  == SetFields(m, in, {"bench_paths", "labels"})
ServerSetState(m, in)  == SetFields(m, in, {"status", "last_pinged_at", "last_error"})

CursorSetPlace(m, in)  == SetFields(m, in, {"log_path", "byte_offset", "last_seen_at"})
CursorSetServer(m, id) == Put(m, "server", id)

\* SetPayload takes a nil slice as a value: the column is set, to nothing.
SnapshotSetPayload(m, v)  == Put(m, "payload", v)
SnapshotSetError(m, v)    == Put(m, "last_error", v)
SnapshotSetServer(m, id)  == Put(m, "server", id)

AlertSetKey(m, in)      == SetFields(m, in, {"rule_name", "fingerprint", "labels"})
AlertSetState(m, in)    == SetFields(m, in, {"status", "value"})
AlertSetNotified(m, in) == SetFields(m, in, {"last_notified_at"})

-----------------------------------------------------------------------------
(***************************************************************************)
(* The statements all four builders are generated from.                    *)
(***************************************************************************)
\* The first constraint of the table that a row with this id would break.
Broken(t, rows, parents, id, row) ==
    LET clash == {u \in t.unique : \E i \in DOMAIN rows \ {id} :
                                      \A c \in u : rows[i][c] = row[c]}
    IN  IF \E c \in t.columns \ t.nullable : row[c] = Null THEN "not null"
        ELSE IF clash # {} THEN "unique"
        ELSE IF \E c \in t.refs : row[c] \notin parents THEN "foreign key"
        ELSE "ok"

\* createSpec: only the columns that were set travel in the INSERT.
CreateSpec(t, m) == [c \in t.columns |-> IF c \in DOMAIN m THEN m[c] ELSE Null]

Insert(t, rows, parents, id, m) ==
    LET row == CreateSpec(t, m)
        err == Broken(t, rows, parents, id, row)
    IN  [err |-> err, rows |-> IF err = "ok" THEN Put(rows, id, row) ELSE rows]

\* sqlSave of an UpdateOne: one transaction, only the columns of the mutation.
UpdateOne(t, rows, parents, id, m) ==
    IF id \notin DOMAIN rows THEN [err |-> "not found", rows |-> rows]
    ELSE LET row == Over(m, rows[id])
             err == Broken(t, rows, parents, id, row)
         IN  [err |-> err, rows |-> IF err = "ok" THEN Put(rows, id, row) ELSE rows]

\* children are the rows of other tables that reference this one.
DeleteOne(rows, referenced, id) ==
    IF id \notin DOMAIN rows THEN [err |-> "not found", rows |-> rows]
    ELSE IF id \in referenced THEN [err |-> "foreign key", rows |-> rows]
    ELSE [err |-> "ok", rows |-> [i \in DOMAIN rows \ {id} |-> rows[i]]]

\* Only: exactly one match, else one of ent's two typed errors.
Only(ids) ==
    IF ids = {} THEN [err |-> "not found", id |-> Null]
    ELSE IF Cardinality(ids) = 1 THEN [err |-> "ok", id |-> CHOOSE i \in ids : TRUE]
    ELSE [err |-> "not singular", id |-> Null]

\* The server ids that rows of a child table reference.
Referenced(rows) == {rows[i].server : i \in DOMAIN rows}

-----------------------------------------------------------------------------
(***************************************************************************)
(* servers.                                                                *)
(***************************************************************************)
\* defaults and check of ServerCreate; what the caller set wins.
ServerDefaults(m, now) ==
    Over(m, [ssh_user |-> "monitor", ssh_port |-> 22, status |-> "unknown",
          created_at |-> now, updated_at |-> now])

ServerStatuses == {"unknown", "reachable", "unreachable"}

\* The validators, on the columns that were set.
ServerValid(m) ==
    /\ \A f \in {"name", "hostname", "ssh_key_path"} \cap DOMAIN m : m[f] # ""
    /\ "ssh_port" \in DOMAIN m => m.ssh_port > 0
    /\ "status" \in DOMAIN m => m.status \in ServerStatuses

ServerCheck(m) ==
    /\ ServersTable.columns \ ServersTable.nullable \subseteq DOMAIN m
    /\ ServerValid(m)

ServerCreateBuilder(in) == ServerSetLists(ServerSetAccess(ServerSetNames(NewMutation, in), in), in)

ServerInsert(rows, id, m) ==
    IF ServerCheck(m) THEN Insert(ServersTable, rows, {}, id, m)
    ELSE [err |-> "invalid", rows |-> rows]

ServerUpdateBuilder(in) ==
    ServerSetState(ServerSetLists(ServerSetAccess(ServerSetNames(NewMutation, in), in), in), in)

ServerUpdateDefaults(m, now) == Over(m, [updated_at |-> now])

ServerUpdateOne(rows, id, m) ==
    IF ServerValid(m) THEN UpdateOne(ServersTable, rows, {}, id, m)
    ELSE [err |-> "invalid", rows |-> rows]

\* Get is a query by id and Only.
ServerGet(rows, id) == Only({i \in DOMAIN rows : i = id})

\* assignValues: a NULL column leaves the field of the entity at its zero value.
ServerZero == [bench_paths |-> Null, labels |-> Null, last_pinged_at |-> Null, last_error |-> ""]
ServerNode(rows, id) ==
    [c \in ServersTable.columns |->
        IF rows[id][c] = Null THEN ServerZero[c] ELSE rows[id][c]]

ServerAll(rows) == {ServerNode(rows, id) : id \in DOMAIN rows}

-----------------------------------------------------------------------------
(***************************************************************************)
(* log_cursors.                                                            *)
(***************************************************************************)
CursorDefaults(m, now) == Over(m, [byte_offset |-> 0, last_seen_at |-> now])

CursorValid(m) ==
    /\ "log_path" \in DOMAIN m => m.log_path # ""
    /\ "byte_offset" \in DOMAIN m => m.byte_offset >= 0

CursorCheck(m) == LogCursorsTable.columns \subseteq DOMAIN m /\ CursorValid(m)

CursorInsert(rows, servers, id, m) ==
    IF CursorCheck(m) THEN Insert(LogCursorsTable, rows, servers, id, m)
    ELSE [err |-> "invalid", rows |-> rows]

CursorUpdateDefaults(m, now) == Over(m, [last_seen_at |-> now])

CursorUpdateOne(rows, servers, id, m) ==
    IF CursorValid(m) THEN UpdateOne(LogCursorsTable, rows, servers, id, m)
    ELSE [err |-> "invalid", rows |-> rows]

\* Where(LogPath).Where(HasServerWith(ID)).Only
CursorHasPath(row, path)  == row.log_path = path
CursorHasServer(row, srv) == row.server = srv
CursorOnly(rows, srv, path) ==
    Only({i \in DOMAIN rows : CursorHasPath(rows[i], path) /\ CursorHasServer(rows[i], srv)})

-----------------------------------------------------------------------------
(***************************************************************************)
(* system_snapshots.                                                       *)
(***************************************************************************)
SnapshotDefaults(m, now) == Over(m, [captured_at |-> now])

SnapshotCheck(m) == {"captured_at", "payload", "server"} \subseteq DOMAIN m

SnapshotInsert(rows, servers, id, m) ==
    IF SnapshotCheck(m) THEN Insert(SystemSnapshotsTable, rows, servers, id, m)
    ELSE [err |-> "invalid", rows |-> rows]

SnapshotUpdateDefaults(m, now) == Over(m, [captured_at |-> now])

SnapshotUpdateOne(rows, servers, id, m) == UpdateOne(SystemSnapshotsTable, rows, servers, id, m)

SnapshotNode(rows, id) == [rows[id] EXCEPT !.last_error = IF @ = Null THEN "" ELSE @]

SnapshotHasServer(row, srv) == row.server = srv
SnapshotOnly(rows, srv) == Only({i \in DOMAIN rows : SnapshotHasServer(rows[i], srv)})

-----------------------------------------------------------------------------
(***************************************************************************)
(* alert_states.                                                           *)
(***************************************************************************)
AlertDefaults(m, now) ==
    Over(m, [status |-> "firing", value |-> 0, first_fired_at |-> now,
          last_notified_at |-> now, updated_at |-> now])

AlertValid(m) ==
    /\ \A f \in {"rule_name", "fingerprint"} \cap DOMAIN m : m[f] # ""
    /\ "status" \in DOMAIN m => m.status \in {"firing", "resolved"}

AlertCheck(m) ==
    /\ AlertStatesTable.columns \ AlertStatesTable.nullable \subseteq DOMAIN m
    /\ AlertValid(m)

AlertInsert(rows, id, m) ==
    IF AlertCheck(m) THEN Insert(AlertStatesTable, rows, {}, id, m)
    ELSE [err |-> "invalid", rows |-> rows]

MutantAlertUpdateDefaults(m, now) == Over(m, [updated_at |-> now, first_fired_at |-> now])
AlertUpdateDefaults(m, now) == Over(m, [updated_at |-> now])

AlertUpdateOne(rows, id, m) ==
    IF AlertValid(m) THEN UpdateOne(AlertStatesTable, rows, {}, id, m)
    ELSE [err |-> "invalid", rows |-> rows]

AlertHasRule(row, rule)      == row.rule_name = rule
AlertHasFingerprint(row, fp) == row.fingerprint = fp
AlertOnly(rows, rule, fp) ==
    Only({i \in DOMAIN rows : AlertHasRule(rows[i], rule) /\ AlertHasFingerprint(rows[i], fp)})
AlertAll(rows, rule) == {i \in DOMAIN rows : AlertHasRule(rows[i], rule)}
=============================================================================
