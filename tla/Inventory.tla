------------------------------ MODULE Inventory ------------------------------
(***************************************************************************)
(* The records of the monitor and everything that writes them:             *)
(* internal/storage/ent_store.go over the tables of EntTables, the server  *)
(* and snapshot handlers of internal/api/handlers.go, the snapshot         *)
(* goroutine that cmd/monitor/main.go starts for a new server, the cursor  *)
(* writes of the streamer and the alert rows of the evaluator.             *)
(*                                                                         *)
(* The pool holds one connection (SetMaxOpenConns(1)) and every ent        *)
(* builder is one transaction, so a statement is one step.  The store      *)
(* opens no transaction of its own: an upsert is a query and, in a later   *)
(* step, a write, and a handler that reads a server, talks to it over SSH  *)
(* and writes what it learnt holds a row that may have changed meanwhile.  *)
(*                                                                         *)
(* Time columns of servers, cursors and snapshots hold one opaque instant; *)
(* those of alerts hold the number of the evaluation that wrote them.      *)
(***************************************************************************)
EXTENDS EntTables

CONSTANTS
    Workers,       \* goroutines that serve requests or tail a server
    Hosts,         \* hostnames an operator may give
    Patches,       \* bodies of PATCH: records with some of a server's fields
    LogPaths,      \* files whose cursor is kept
    Fingerprints,  \* of the series one alert rule may return
    MaxServers,    \* servers created in one behaviour
    MaxRequests,   \* requests and cursor writes in one behaviour
    MaxCaptures,   \* runs of the snapshot script in one behaviour
    MaxTicks       \* evaluations of the alert rule in one behaviour

Settings == {"name", "hostname", "ssh_user", "ssh_port", "ssh_key_path", "bench_paths", "labels"}

\* What a run of the snapshot script may leave; n tells the runs apart.
Captures == [kind : {"json", "garbage", "empty"}, n : Nat]

\* cleanBenchPaths on names without surrounding blanks: drop the empty ones.
CleanBenchPaths(paths) == SelectSeq(paths, LAMBDA p : p # "")

\* The value a PATCH has for a field: a list is cleaned first.
Given(body, f) == IF f = "bench_paths" THEN CleanBenchPaths(body[f]) ELSE body[f]

Rule == "rule"      \* the alert rule that is evaluated

ASSUME InventoryAssumption ==
    /\ {MaxServers, MaxRequests, MaxCaptures, MaxTicks} \subseteq Nat
    /\ Workers \cap 1..MaxServers = {}
    /\ Null \notin Workers \cup Hosts \cup LogPaths \cup Fingerprints \cup {Rule}
    /\ Null \notin Nat /\ Null \notin Captures
    /\ \A body \in Patches : DOMAIN body \subseteq Settings /\ \A f \in DOMAIN body : Given(body, f) # Null

VARIABLES
    servers, snapshots, cursors, alerts,  \* the tables
    issued,     \* table -> ids given out (AUTOINCREMENT never reuses one)
    task,       \* goroutine -> what it is in the middle of
    acked,      \* server -> the settings its last answered create or PATCH showed
    requests, captures, ticks             \* so far

vars == <<servers, snapshots, cursors, alerts, issued, task, acked, requests, captures, ticks>>

Boots  == 1..MaxServers      \* the snapshot goroutine of a server has the server's id
Actors == Workers \cup Boots
Idle   == [at |-> "idle"]
Now    == "now"

Capture(kind) == [kind |-> kind, n |-> captures + 1]

Init ==
    /\ servers = <<>> /\ snapshots = <<>> /\ cursors = <<>> /\ alerts = <<>>
    /\ issued = [t \in {"servers", "snapshots", "cursors", "alerts"} |-> 0]
    /\ task = [a \in Actors |-> Idle]
    /\ acked = <<>>
    /\ requests = 0 /\ captures = 0 /\ ticks = 0

Fresh(t) == issued[t] + 1
MutantIssue(t, ok) == issued' = issued
Issue(t, ok) == issued' = [issued EXCEPT ![t] = @ + IF ok THEN 1 ELSE 0]
Goto(a, next) == task' = [task EXCEPT ![a] = next]

\* A worker takes one more request.
Takes(w) ==
    /\ task[w] = Idle
    /\ requests < MaxRequests
    /\ requests' = requests + 1

-----------------------------------------------------------------------------
(***************************************************************************)
(* What a reader is shown.                                                 *)
(***************************************************************************)
\* entToServer: absent lists become empty ones.
EntToServer(e) ==
    [e EXCEPT !.labels = IF @ = Null THEN <<>> ELSE @,
              !.bench_paths = IF @ = Null THEN <<>> ELSE @]

ToDTO(s) == s

GetServer(id) ==
    LET found == ServerGet(servers, id)
    IN  IF found.err = "ok" THEN [err |-> "ok", server |-> EntToServer(ServerNode(servers, id))]
        ELSE [err |-> "not found"]

ListServers == {EntToServer(e) : e \in ServerAll(servers)}

\* GET /servers/{id}
Get(id) ==
    LET found == GetServer(id)
    IN  IF found.err = "ok" THEN [code |-> 200, body |-> ToDTO(found.server)] ELSE [code |-> 404]

\* GET /servers
List == [code |-> 200, body |-> {ToDTO(s) : s \in ListServers}]

GetSystemSnapshot(id) ==
    LET found == SnapshotOnly(snapshots, id)
    IN  IF found.err = "ok" THEN [err |-> "ok", snap |-> SnapshotNode(snapshots, found.id)]
        ELSE [err |-> found.err]

\* GET /servers/{id}/system: a payload that is no JSON is left out.
GetSystem(id) ==
    LET found == GetSystemSnapshot(id)
    IN  CASE found.err = "not found" -> [code |-> 404]
          [] found.err = "not singular" -> [code |-> 500]
          [] OTHER -> [code |-> 200, last_error |-> found.snap.last_error,
                       payload |-> IF found.snap.payload.kind = "json"
                                   THEN found.snap.payload ELSE Null]

-----------------------------------------------------------------------------
(***************************************************************************)
(* Servers.                                                                *)
(***************************************************************************)
CreateServer(in) ==
    ServerInsert(servers, Fresh("servers"), ServerDefaults(ServerCreateBuilder(in), Now))

\* POST /servers: validation, defaults, the INSERT, the hooks, the answer.
Create(w) ==
    /\ Takes(w)
    /\ issued["servers"] < MaxServers
    /\ \E h \in Hosts \cup {""}, port \in {0, -1} :
          LET id == Fresh("servers")
              in == [name |-> "name", hostname |-> h, ssh_user |-> "monitor",
                     ssh_port |-> IF port = 0 THEN 22 ELSE port, ssh_key_path |-> "key",
                     bench_paths |-> Null, labels |-> Null]
              res == CreateServer(in)
              created == h # "" /\ res.err = "ok"
          IN  /\ servers' = IF created THEN res.rows ELSE servers
              /\ Issue("servers", created)
              /\ acked' = IF created
                          THEN Put(acked, id, [f \in Settings |-> EntToServer(ServerNode(res.rows, id))[f]])
                          ELSE acked
              /\ task' = IF created THEN [task EXCEPT ![id] = [at |-> "get", id |-> id]] ELSE task
    /\ UNCHANGED <<snapshots, cursors, alerts, captures, ticks>>

UpdateServer(id, in) ==
    ServerUpdateOne(servers, id, ServerUpdateDefaults(ServerUpdateBuilder(in), Now))

\* PATCH /servers/{id}
Patch(w) ==
    /\ Takes(w)
    /\ \E id \in 1..issued["servers"], body \in Patches :
          LET in == [f \in DOMAIN body |-> Given(body, f)]
              bad == "ssh_port" \in DOMAIN body /\ body.ssh_port <= 0
              res == UpdateServer(id, in)
              done == ~bad /\ res.err = "ok"
          IN  /\ servers' = IF done THEN res.rows ELSE servers
              /\ acked' = IF done
                          THEN [acked EXCEPT ![id] = [f \in Settings |-> IF f \in DOMAIN in THEN in[f] ELSE @[f]]]
                          ELSE acked
    /\ UNCHANGED <<snapshots, cursors, alerts, issued, task, captures, ticks>>

DeleteServer(id) == DeleteOne(servers, Referenced(snapshots) \cup Referenced(cursors), id)

\* DELETE /servers/{id}; the hook's effects are those of ServerLifecycle.
Delete(w) ==
    /\ Takes(w)
    /\ \E id \in 1..issued["servers"] :
          LET res == DeleteServer(id)
          IN  /\ servers' = res.rows
              /\ acked' = [i \in DOMAIN res.rows |-> acked[i]]
    /\ UNCHANGED <<snapshots, cursors, alerts, issued, task, captures, ticks>>

\* POST /servers/{id}/test-connection up to the probe.
TestStart(w) ==
    /\ Takes(w)
    /\ \E id \in 1..issued["servers"] :
          LET found == GetServer(id)
          IN  Goto(w, IF found.err = "ok" THEN [at |-> "ping", id |-> id, seen |-> found.server] ELSE Idle)
    /\ UNCHANGED <<servers, snapshots, cursors, alerts, issued, acked, captures, ticks>>

MutantStatusColumns(seen, status, err) ==
    Over([status |-> status, last_pinged_at |-> Now, last_error |-> err], seen)
\* The columns SetServerStatus writes; seen is the record its caller read.
StatusColumns(seen, status, err) == [status |-> status, last_pinged_at |-> Now, last_error |-> err]

SetServerStatus(id, seen, status, err) ==
    ServerUpdateOne(servers, id,
        ServerUpdateDefaults(ServerUpdateBuilder(StatusColumns(seen, status, err)), Now))

\* The probe has ended and its outcome is written.
TestReport(w) ==
    /\ task[w].at = "ping"
    /\ \E reachable \in BOOLEAN :
          servers' = SetServerStatus(task[w].id, task[w].seen,
                                     IF reachable THEN "reachable" ELSE "unreachable",
                                     IF reachable THEN "" ELSE "error").rows
    /\ Goto(w, Idle)
    /\ UNCHANGED <<snapshots, cursors, alerts, issued, acked, requests, captures, ticks>>

-----------------------------------------------------------------------------
(***************************************************************************)
(* Snapshots.                                                              *)
(***************************************************************************)
\* POST /servers/{id}/refresh-system up to the SSH run.
RefreshStart(w) ==
    /\ Takes(w)
    /\ \E id \in 1..issued["servers"] :
          Goto(w, IF GetServer(id).err = "ok" THEN [at |-> "ssh", id |-> id, by |-> "refresh"] ELSE Idle)
    /\ UNCHANGED <<servers, snapshots, cursors, alerts, issued, acked, captures, ticks>>

\* The goroutine main starts from the created hook, up to the SSH run.
BootStart(b) ==
    /\ task[b].at = "get"
    /\ Goto(b, IF GetServer(b).err = "ok" THEN [at |-> "ssh", id |-> b, by |-> "boot"] ELSE Idle)
    /\ UNCHANGED <<servers, snapshots, cursors, alerts, issued, acked, requests, captures, ticks>>

MutantCaptured(by, outcome) ==
    IF outcome = "failed" THEN [payload |-> Null, last_error |-> "error"]
    ELSE [payload |-> Capture(outcome), last_error |-> ""]
\* What is handed to UpsertSystemSnapshot after a run that ended this way:
\* the handler keeps only what parses as JSON, the goroutine keeps anything.
Captured(by, outcome) ==
    CASE outcome = "failed" -> [payload |-> Null, last_error |-> "error"]
      [] by = "refresh" /\ outcome # "json" -> [payload |-> Null, last_error |-> "error"]
      [] OTHER -> [payload |-> Capture(outcome), last_error |-> ""]

\* The script has run on the server, or the run has failed.
Run(a) ==
    /\ task[a].at = "ssh"
    /\ captures < MaxCaptures
    /\ captures' = captures + 1
    /\ \E outcome \in {"json", "garbage", "empty", "failed"} :
          Goto(a, [at |-> "query", id |-> task[a].id, by |-> task[a].by,
                   in |-> Captured(task[a].by, outcome)])
    /\ UNCHANGED <<servers, snapshots, cursors, alerts, issued, acked, requests, ticks>>

\* UpsertSystemSnapshot asks for the row first.
SnapshotQuery(a) ==
    /\ task[a].at = "query"
    /\ LET found == SnapshotOnly(snapshots, task[a].id)
       IN  Goto(a, IF found.err = "not singular" THEN Idle
                   ELSE [at |-> "write", id |-> task[a].id, by |-> task[a].by,
                         in |-> task[a].in, row |-> found.id])
    /\ UNCHANGED <<servers, snapshots, cursors, alerts, issued, acked, requests, captures, ticks>>

MutantSnapshotColumns(in) ==
    SnapshotSetPayload(SnapshotSetError(NewMutation, in.last_error),
                       IF in.payload = Null THEN [kind |-> "empty", n |-> 0] ELSE in.payload)
\* The columns of an update: without a payload the stored one is left alone.
SnapshotColumns(in) ==
    LET failed == SnapshotSetError(NewMutation, in.last_error)
    IN  IF in.payload # Null /\ in.payload.kind # "empty" THEN SnapshotSetPayload(failed, in.payload)
        ELSE failed

\* ... and creates or updates it in a second statement.  A nil payload in an
\* INSERT is an empty blob or NULL, which the column refuses, by the driver.
SnapshotWrite(a) ==
    /\ task[a].at = "write"
    /\ LET in == task[a].in
           id == IF task[a].row = Null THEN Fresh("snapshots") ELSE task[a].row
           create(payload) == SnapshotInsert(snapshots, DOMAIN servers, id,
               SnapshotDefaults(SnapshotSetServer(SnapshotSetError(SnapshotSetPayload(
                   NewMutation, payload), in.last_error), task[a].id), Now))
           update == SnapshotUpdateOne(snapshots, DOMAIN servers, id,
                                       SnapshotUpdateDefaults(SnapshotColumns(in), Now))
           blobs == IF in.payload = Null THEN {Null, [kind |-> "empty", n |-> 0]} ELSE {in.payload}
       IN  \E res \in IF task[a].row = Null THEN {create(p) : p \in blobs} ELSE {update} :
              /\ snapshots' = res.rows
              /\ Issue("snapshots", task[a].row = Null /\ res.err = "ok")
              /\ Goto(a, IF task[a].by = "refresh" /\ in.last_error = "" /\ res.err = "ok"
                         THEN [at |-> "readback", id |-> task[a].id] ELSE Idle)
    /\ UNCHANGED <<servers, cursors, alerts, acked, requests, captures, ticks>>

\* A refresh answers with the row it reads back.
Readback(w) ==
    /\ task[w].at = "readback"
    /\ Goto(w, Idle)
    /\ UNCHANGED <<servers, snapshots, cursors, alerts, issued, acked, requests, captures, ticks>>

-----------------------------------------------------------------------------
(***************************************************************************)
(* Cursors and alert states.                                               *)
(***************************************************************************)
\* UpsertLogCursor, called by a session of the streamer, asks for the row.
CursorQuery(w) ==
    /\ Takes(w)
    /\ \E id \in 1..issued["servers"], path \in LogPaths :
          LET found == CursorOnly(cursors, id, path)
          IN  Goto(w, IF found.err = "not singular" THEN Idle
                      ELSE [at |-> "cursor", id |-> id, path |-> path, row |-> found.id])
    /\ UNCHANGED <<servers, snapshots, cursors, alerts, issued, acked, captures, ticks>>

CursorWrite(w) ==
    /\ task[w].at = "cursor"
    /\ LET new == task[w].row = Null
           place == [log_path |-> IF new THEN task[w].path ELSE Null, byte_offset |-> 1,
                     last_seen_at |-> IF new THEN Null ELSE Now]
           m == CursorSetPlace(NewMutation, place)
           res == IF new
                  THEN CursorInsert(cursors, DOMAIN servers, Fresh("cursors"),
                                    CursorDefaults(CursorSetServer(m, task[w].id), Now))
                  ELSE CursorUpdateOne(cursors, DOMAIN servers, task[w].row, CursorUpdateDefaults(m, Now))
       IN  /\ cursors' = res.rows
           /\ Issue("cursors", new /\ res.err = "ok")
    /\ Goto(w, Idle)
    /\ UNCHANGED <<servers, snapshots, alerts, acked, requests, captures, ticks>>

\* The evaluator shares no table and no lock with the goroutines above, so its
\* steps commute with theirs: they are taken once those have come to rest.
AtRest == requests = MaxRequests /\ \A a \in Actors : task[a] = Idle

LastNotified(fp) ==
    LET known == {i \in AlertAll(alerts, Rule) : alerts[i].fingerprint = fp}
    IN  IF known = {} THEN 0 ELSE alerts[CHOOSE i \in known : TRUE].last_notified_at

\* UpsertAlertState: no other goroutine writes alert rows, so its two
\* statements are one step.
UpsertAlertState(in, now) ==
    LET found == AlertOnly(alerts, in.rule_name, in.fingerprint)
        rest(m) == AlertSetNotified(AlertSetState(m, in), in)
    IN  IF found.err = "ok"
        THEN AlertUpdateOne(alerts, found.id, AlertUpdateDefaults(rest(AlertSetKey(NewMutation, [labels |-> in.labels])), now))
        ELSE AlertInsert(alerts, Fresh("alerts"), AlertDefaults(rest(AlertSetKey(NewMutation, in)), now))

\* One series of one evaluation: it fires, told or within its cooldown.
AlertFires ==
    /\ AtRest
    /\ ticks < MaxTicks
    /\ ticks' = ticks + 1
    /\ \E fp \in Fingerprints, due \in BOOLEAN :
          LET prev == LastNotified(fp)
              res == UpsertAlertState([rule_name |-> Rule, fingerprint |-> fp, labels |-> "labels",
                                       status |-> "firing", value |-> 1,
                                       last_notified_at |-> IF due \/ prev = 0 THEN ticks' ELSE prev], ticks')
          IN  /\ alerts' = res.rows
              /\ Issue("alerts", res.err = "ok" /\ AlertOnly(alerts, Rule, fp).err # "ok")
    /\ UNCHANGED <<servers, snapshots, cursors, task, acked, requests, captures>>

\* DeleteAlertState of a series that no longer fires.
AlertClears ==
    /\ AtRest
    /\ \E i \in AlertAll(alerts, Rule) : alerts' = DeleteOne(alerts, {}, i).rows
    /\ UNCHANGED <<servers, snapshots, cursors, issued, task, acked, requests, captures, ticks>>

-----------------------------------------------------------------------------
\* A statement fails, or its context is done: the caller gives up.
StatementFails(a) ==
    /\ task[a].at \in {"get", "ping", "query", "write", "readback", "cursor"}
    /\ Goto(a, Idle)
    /\ UNCHANGED <<servers, snapshots, cursors, alerts, issued, acked, requests, captures, ticks>>

\* The process ends and starts again: goroutines are gone, the tables stay.
Crash ==
    /\ \E a \in Actors : task[a] # Idle
    /\ task' = [a \in Actors |-> Idle]
    /\ UNCHANGED <<servers, snapshots, cursors, alerts, issued, acked, requests, captures, ticks>>

Next ==
    \/ \E w \in Workers : \/ Create(w) \/ Patch(w) \/ Delete(w) \/ TestStart(w) \/ TestReport(w)
                          \/ RefreshStart(w) \/ Readback(w) \/ CursorQuery(w) \/ CursorWrite(w)
    \/ \E b \in Boots : BootStart(b)
    \/ \E a \in Actors : Run(a) \/ SnapshotQuery(a) \/ SnapshotWrite(a) \/ StatementFails(a)
    \/ AlertFires \/ AlertClears
    \/ Crash

Spec == Init /\ [][Next]_vars

-----------------------------------------------------------------------------
(***************************************************************************)
(* Properties.                                                             *)
(***************************************************************************)
\* Every table holds complete rows under ids that were given out, and a
\* goroutine works for a server that was created.
TypeOK ==
    /\ \A i \in DOMAIN servers : DOMAIN servers[i] = ServersTable.columns
    /\ \A i \in DOMAIN snapshots : DOMAIN snapshots[i] = SystemSnapshotsTable.columns
    /\ \A i \in DOMAIN cursors : DOMAIN cursors[i] = LogCursorsTable.columns
    /\ \A i \in DOMAIN alerts : DOMAIN alerts[i] = AlertStatesTable.columns
    /\ DOMAIN servers \subseteq 1..issued["servers"] /\ DOMAIN snapshots \subseteq 1..issued["snapshots"]
    /\ DOMAIN cursors \subseteq 1..issued["cursors"] /\ DOMAIN alerts \subseteq 1..issued["alerts"]
    /\ \A a \in Actors : task[a] = Idle \/ task[a].id \in 1..issued["servers"]

\* Keys and parents survive the upserts that query first and write later: a
\* server has one snapshot and one cursor per file, a hostname one server, a
\* series one alert row, and no snapshot or cursor is left without its
\* server, whichever requests overlap with a delete.
KeysAndParents ==
    /\ \A i, j \in DOMAIN servers : servers[i].hostname = servers[j].hostname => i = j
    /\ \A i, j \in DOMAIN snapshots : snapshots[i].server = snapshots[j].server => i = j
    /\ \A i, j \in DOMAIN cursors :
          <<cursors[i].server, cursors[i].log_path>> = <<cursors[j].server, cursors[j].log_path>> => i = j
    /\ \A i, j \in DOMAIN alerts : alerts[i].fingerprint = alerts[j].fingerprint => i = j
    /\ Referenced(snapshots) \cup Referenced(cursors) \subseteq DOMAIN servers

\* No lost update: GET shows the settings of the last answered POST or PATCH,
\* although a probe reads the whole record before its SSH round trip and
\* writes to the same row after it (handlers.go testConnection).
SettingsStay ==
    \A id \in DOMAIN servers :
        LET shown == Get(id)
        IN  shown.code = 200 /\ \A f \in Settings : shown.body[f] = acked[id][f]

\* "a transient failure doesn't wipe the last good snapshot"
\* (ent_store.go:250-254): a payload that was stored is only ever replaced by
\* another non-empty one, whatever captures fail, race or are cut short, and
\* by one that does not parse only from the unchecked capture of the hook.
PayloadStays ==
    [][\A i \in DOMAIN snapshots \cap DOMAIN snapshots' :
          snapshots[i].payload.kind # "empty" =>
             /\ snapshots'[i].payload.kind # "empty"
             /\ snapshots[i].payload.kind = "json" /\ snapshots'[i].payload.kind = "garbage" =>
                   \E b \in Boots : task[b].at = "write" /\ b = snapshots[i].server]_vars

\* A refresh that stored its capture finds it, or a later one, when it reads
\* back: it never answers 404, nor 200 with the payload of nobody.
RefreshFindsACapture ==
    \A w \in Workers : task[w].at = "readback" =>
        LET found == GetSystemSnapshot(task[w].id)
        IN  found.err = "ok" /\ found.snap.payload.kind # "empty"

\* The cooldown reads last_notified_at: while a series keeps its row, the
\* first firing is never rewritten and the last page only moves forward.
AlertRowKeepsItsPast ==
    [][\A i \in DOMAIN alerts \cap DOMAIN alerts' :
          /\ alerts'[i].first_fired_at = alerts[i].first_fired_at
          /\ alerts'[i].last_notified_at >= alerts[i].last_notified_at]_vars
=============================================================================
