----------------------------- MODULE BenchOutput -----------------------------
(***************************************************************************)
(* The text a bench prints and what the monitor makes of it: the collector *)
(* script (scripts/frappe-monitor-collect.sh), the parser                  *)
(* (internal/parser) and the line protocol (internal/metrics).  Pure       *)
(* operators, no state.                                                    *)
(*                                                                         *)
(* A line is a record; blank lines, which the parser skips, are left out.  *)
(* A key is <<base>> or <<base, label, name>>, the name of a section the   *)
(* tuple of its parts, a value the tuple of its words: one number, nothing *)
(* at all, or a text that is no number.  Every reading of a host is the    *)
(* number h.v of its state, so a sample tells when it was read.            *)
(***************************************************************************)
EXTENDS Integers, SequencesExt

CONSTANTS
    CpuFields, MemFields, LoadFields,   \* keys of the SERVER section
    Queues,                             \* RQ queues of a bench
    Commas, Blanks                      \* names with a comma, with a blank

ASSUME BenchOutputAssumption ==
    /\ "mem_total_kb" \in MemFields
    /\ CpuFields \cap MemFields = {} /\ (CpuFields \cup MemFields) \cap LoadFields = {}

ServerFields == CpuFields \cup MemFields \cup LoadFields

-----------------------------------------------------------------------------
(***************************************************************************)
(* The script.                                                             *)
(***************************************************************************)
Number(n) == <<n>>
Text      == <<0, 0>>
IsNumber(v) == Len(v) = 1

Header(name)   == [t |-> "section", name |-> name]
KV(key, value) == [t |-> "kv", key |-> key, value |-> value]
Noise          == [t |-> "noise"]   \* neither ### nor key=value
End            == [t |-> "end"]

\* The lines op(x) of every x of the set, in some order.
ForEach(S, op(_)) == FoldLeft(LAMBDA lines, x : lines \o op(x), <<>>, SetToSeq(S))

EmitMeta(ts) ==
    <<Header(<<"META">>), KV(<<"version">>, Text), KV(<<"timestamp">>, Number(ts)),
      KV(<<"hostname">>, Text)>>

\* "read -r mount used total" splits a mount with a blank over the fields.
EmitDisk(h, mount) ==
    LET value == IF mount \in Blanks THEN Text ELSE Number(h.v)
    IN  <<KV(<<"disk_used_bytes", "mount", mount>>, value),
          KV(<<"disk_total_bytes", "mount", mount>>, value)>>

EmitNet(h, iface) ==
    <<KV(<<"net_rx_bytes", "iface", iface>>, Number(h.v)),
      KV(<<"net_tx_bytes", "iface", iface>>, Number(h.v))>>

EmitServer(h) ==
    <<Header(<<"SERVER">>)>>
    \o ForEach(ServerFields, LAMBDA f : <<KV(<<f>>, Number(h.v))>>)
    \o ForEach(h.disks, LAMBDA d : EmitDisk(h, d))
    \o ForEach(h.nets, LAMBDA i : EmitNet(h, i))

\* grep -c prints its 0 and fails, "|| echo 0" prints another one.
ReadAppsCount(h, b) ==
    CASE b.apps = "listed" -> <<KV(<<"apps_count">>, Number(h.v))>>
      [] b.apps = "no file" -> <<KV(<<"apps_count">>, Number(0))>>
      [] b.apps = "empty file" -> <<KV(<<"apps_count">>, Number(0)), Noise>>

\* A redis that wants a password answers so on stdout, and succeeds.
Depth(h, b) == IF b.password THEN Text ELSE Number(h.v)

EmitBench(h, b) ==
    <<Header(<<"BENCH", b.name>>)>>
    \o (IF b.version = "" THEN <<>> ELSE <<KV(<<"info", "frappe_version", b.version>>, Number(1))>>)
    \o ReadAppsCount(h, b)
    \o ForEach(Queues, LAMBDA q : <<KV(<<"redis_queue_depth", "queue", q>>, Depth(h, b))>>)
    \o <<KV(<<"supervisor_running">>, Number(h.v)), KV(<<"supervisor_total">>, Number(h.v))>>

\* curl prints 000 and fails, "|| echo 000" makes it 000000: the first
\* candidate is taken whatever listens there.
DetectBenchPortOnce(b) == IF b.port # 0 THEN b.port ELSE 8000

\* A site that is not probed for lack of time, or does not answer, reports 0.
HttpCode(b, site, probed) ==
    IF probed /\ DetectBenchPortOnce(b) = b.serves THEN b.sites[site] ELSE 0
Healthy(code) == IF code \in 200..399 THEN 1 ELSE 0

EmitSite(h, b, site, probed) ==
    <<Header(<<"SITE", b.name, site>>),
      KV(<<"http_port">>, Number(DetectBenchPortOnce(b))),
      KV(<<"http_status_code">>, Number(HttpCode(b, site, probed))),
      KV(<<"http_response_ms">>, Number(IF probed THEN h.v ELSE 0)),
      KV(<<"is_healthy">>, Number(Healthy(HttpCode(b, site, probed))))>>

\* The main loop; probed tells which benches came before the time budget.
Script(h, ts, probed) ==
    EmitMeta(ts) \o EmitServer(h)
    \o FoldLeft(LAMBDA lines, i :
                    lines \o EmitBench(h, h.benches[i])
                          \o ForEach(DOMAIN h.benches[i].sites,
                                     LAMBDA s : EmitSite(h, h.benches[i], s, i \in probed)),
                <<>>, [i \in DOMAIN h.benches |-> i])
    \o <<End>>

-----------------------------------------------------------------------------
(***************************************************************************)
(* The parser.                                                             *)
(***************************************************************************)
\* The section that is open is the last one; an error is for good.
TokenizeLine(acc, line) ==
    LET n == Len(acc.sections)
        failed == [acc EXCEPT !.err = TRUE]
    IN  CASE acc.err \/ acc.end -> acc
          [] line.t = "end" -> [acc EXCEPT !.end = TRUE]
          [] line.t = "section" ->
                IF \E i \in 1..n : acc.sections[i].name = line.name THEN failed
                ELSE [acc EXCEPT !.sections = Append(@, [name |-> line.name, kvs |-> <<>>])]
          [] line.t = "kv" /\ n > 0 ->
                [acc EXCEPT !.sections[n].kvs = (line.key :> line.value) @@ @]
          [] OTHER -> failed

Unreadable == [err |-> TRUE, sections |-> {}]

MutantTokenize(lines) ==
    LET acc == FoldLeft(TokenizeLine, [sections |-> <<>>, err |-> FALSE, end |-> FALSE], lines)
    IN  IF acc.err THEN Unreadable ELSE [err |-> FALSE, sections |-> ToSet(acc.sections)]
\* Without ###END the output is torn.
Tokenize(lines) ==
    LET acc == FoldLeft(TokenizeLine, [sections |-> <<>>, err |-> FALSE, end |-> FALSE], lines)
    IN  IF acc.err \/ ~acc.end THEN Unreadable
        ELSE [err |-> FALSE, sections |-> ToSet(acc.sections)]

Has(o, name)     == \E s \in o.sections : s.name = name
Section(o, name) == (CHOOSE s \in o.sections : s.name = name).kvs

RequireString(s, key) == key \in DOMAIN s /\ s[key] # <<>>
RequireInt64(s, key)  == RequireString(s, key) /\ IsNumber(s[key])

\* splitLabeledKey cuts at every comma, also at one inside the quotes, and
\* then takes the key for one without labels.
Labelled(key) == Len(key) = 3 /\ key[3] \notin Commas

\* The two metrics of each instance of a label, both or it is torn output.
ReadPairs(s, label, first, second) ==
    LET keys == {k \in DOMAIN s : Labelled(k) /\ k[2] = label}
        names == {k[3] : k \in keys}
    IN  [ok |-> /\ \A k \in keys : IsNumber(s[k])
                /\ \A n \in names : {<<first, label, n>>, <<second, label, n>>} \subseteq keys,
         at |-> [n \in names |-> <<s[<<first, label, n>>], s[<<second, label, n>>]>>]]

ReadDisks(s) == ReadPairs(s, "mount", "disk_used_bytes", "disk_total_bytes")
ReadNet(s)   == ReadPairs(s, "iface", "net_rx_bytes", "net_tx_bytes")

ServerFromSections(o) ==
    LET meta == Section(o, <<"META">>)
        server == Section(o, <<"SERVER">>)
        ok == /\ Has(o, <<"META">>) /\ Has(o, <<"SERVER">>)
              /\ RequireString(meta, <<"version">>) /\ RequireString(meta, <<"hostname">>)
              /\ RequireInt64(meta, <<"timestamp">>)
              /\ \A f \in ServerFields : RequireInt64(server, <<f>>)
              /\ server[<<"mem_total_kb">>][1] > 0
              /\ ReadDisks(server).ok /\ ReadNet(server).ok
    IN  IF ~ok THEN [ok |-> FALSE]
        ELSE [ok |-> TRUE, timestamp |-> meta[<<"timestamp">>][1],
              fields |-> [f \in ServerFields |-> server[<<f>>][1]],
              disks |-> ReadDisks(server).at, net |-> ReadNet(server).at]

BenchNames(o)   == {s.name[2] : s \in {x \in o.sections : x.name[1] = "BENCH"}}
SiteNamesFor(o) == {<<s.name[2], s.name[3]>> : s \in {x \in o.sections : x.name[1] = "SITE"}}

BenchFromSections(o, bench) ==
    LET s == Section(o, <<"BENCH", bench>>)
        needed == {<<"apps_count">>, <<"supervisor_running">>, <<"supervisor_total">>}
        depths == {k \in DOMAIN s : Labelled(k) /\ k[1] = "redis_queue_depth"}
        infos == {k \in DOMAIN s : Labelled(k) /\ k[1] = "info" /\ k[2] = "frappe_version"}
    IN  IF \E k \in needed : ~RequireInt64(s, k) THEN [ok |-> FALSE]
        ELSE IF \E k \in depths : ~IsNumber(s[k]) THEN [ok |-> FALSE]
        ELSE [ok |-> TRUE, bench |-> bench, versions |-> {k[3] : k \in infos},
              fields |-> {<<k[1], s[k][1]>> : k \in needed},
              queues |-> {<<k[3], s[k][1]>> : k \in depths}]

SiteFromSections(o, bench, site) ==
    LET s == Section(o, <<"SITE", bench, site>>)
        needed == {<<"http_status_code">>, <<"http_response_ms">>, <<"is_healthy">>}
    IN  IF \E k \in needed : ~RequireInt64(s, k) THEN [ok |-> FALSE]
        ELSE [ok |-> TRUE, bench |-> bench, site |-> site,
              fields |-> {<<k[1], s[k][1]>> : k \in needed}]

-----------------------------------------------------------------------------
(***************************************************************************)
(* The line protocol.  A sample's tags are a sequence of <<key, value>>.   *)
(***************************************************************************)
Special == Commas \cup Blanks
EscapeTag(name) == IF name \in Special THEN <<"\\", name>> ELSE <<name>>

Tag(key, name) == <<key, EscapeTag(name)>>
Sample(metric, tags, value, ts) == [metric |-> metric, tags |-> tags, value |-> value, ts |-> ts]

\* kB become bytes.
Scaled(f, value) == IF f \in MemFields THEN value * 1024 ELSE value

ServerLines(m, srv, ts) ==
    {Sample(<<"server", f>>, <<Tag("server", srv)>>, Scaled(f, m.fields[f]), ts) : f \in ServerFields}
    \cup (UNION {{Sample(<<"server", "disk_used_bytes">>, <<Tag("server", srv), Tag("mount", d)>>, m.disks[d][1][1], ts),
                 Sample(<<"server", "disk_total_bytes">>, <<Tag("server", srv), Tag("mount", d)>>, m.disks[d][2][1], ts)}
                   : d \in DOMAIN m.disks})
    \cup (UNION {{Sample(<<"server", "net_rx_bytes">>, <<Tag("server", srv), Tag("iface", i)>>, m.net[i][1][1], ts),
                 Sample(<<"server", "net_tx_bytes">>, <<Tag("server", srv), Tag("iface", i)>>, m.net[i][2][1], ts)}
                   : i \in DOMAIN m.net})

BenchLines(m, srv, ts) ==
    LET tags == <<Tag("server", srv), Tag("bench", m.bench)>>
    IN  {Sample(<<"bench", f[1]>>, tags, f[2], ts) : f \in m.fields}
        \cup {Sample(<<"bench", "info">>, Append(tags, Tag("frappe_version", v)), 1, ts) : v \in m.versions}
        \cup {Sample(<<"bench", "redis_queue_depth">>, Append(tags, Tag("queue", q[1])), q[2], ts) : q \in m.queues}

SiteLines(m, srv, ts) ==
    {Sample(<<"site", f[1]>>, <<Tag("server", srv), Tag("bench", m.bench), Tag("site", m.site)>>, f[2], ts)
        : f \in m.fields}
=============================================================================
