------------------------------- MODULE Collect -------------------------------
(***************************************************************************)
(* What a pull brings home: Pipeline.PullOnce (internal/collector) with    *)
(* the payload that Pipeline.tla leaves out, the deployment of the script  *)
(* it runs (internal/api/handlers.go), the push to VictoriaMetrics         *)
(* (internal/metrics/vmclient.go) and the pages that read it back          *)
(* (internal/api/hierarchy_handlers.go).  Pulls of one server overlap.     *)
(* The status a pull ends with is in Pipeline.tla; here it only ends.      *)
(*                                                                         *)
(* The time stamps are seconds of the bench's clock: the script prints one *)
(* when it starts, and every sample of the pull carries it.                *)
(***************************************************************************)
EXTENDS BenchOutput

CONSTANTS
    Pulls,       \* pulls that may overlap
    Hosts,       \* shapes of the bench host, records without the number v
    ServerName,  \* the label of all samples
    MaxRuns,     \* pulls in one behaviour
    MaxChanges,  \* changes of the host in one behaviour
    MaxDeploys,  \* deployments in one behaviour
    Stride       \* an output is cut or disturbed at every Stride-th line

VARIABLES
    host,      \* the state of the bench host
    clock,     \* its clock
    script,    \* what is at CollectorPath: "whole" or "part" of the script
    deploying, \* a deployment is writing it
    pull,      \* pull -> how far it is
    db,        \* the samples VictoriaMetrics has
    accepted,  \* the captures whose push it took (history)
    runs, changes, deploys

vars == <<host, clock, script, deploying, pull, db, accepted, runs, changes, deploys>>

Idle == [at |-> "idle"]
WithNumber(shape, n) == [v |-> n] @@ shape

Init ==
    /\ \E shape \in Hosts : host = WithNumber(shape, 1)
    /\ clock = 1
    /\ script = "whole" /\ deploying = FALSE
    /\ pull = [p \in Pulls |-> Idle]
    /\ db = {} /\ accepted = {}
    /\ runs = 0 /\ changes = 0 /\ deploys = 0

-----------------------------------------------------------------------------
(***************************************************************************)
(* The bench host, and the script deployed on it.                          *)
(***************************************************************************)
HostChanges ==
    /\ changes < MaxChanges
    /\ changes' = changes + 1
    /\ \E shape \in Hosts : host' = WithNumber(shape, host.v + 1)
    /\ clock' \in {clock, clock + 1}
    /\ UNCHANGED <<script, deploying, pull, db, accepted, runs, deploys>>

\* "cat >" empties the file, which stays executable from the deployment before.
DeployStart ==
    /\ deploys < MaxDeploys
    /\ ~deploying
    /\ deploys' = deploys + 1
    /\ script' = "part" /\ deploying' = TRUE
    /\ UNCHANGED <<host, clock, pull, db, accepted, runs, changes>>

\* The command ends, or the connection does and leaves what it has written.
DeployEnd ==
    /\ deploying
    /\ deploying' = FALSE
    /\ script' \in {"whole", "part"}
    /\ UNCHANGED <<host, clock, pull, db, accepted, runs, changes, deploys>>

-----------------------------------------------------------------------------
(***************************************************************************)
(* PullOnce.                                                               *)
(***************************************************************************)
\* The script starts and prints the time.
PullStart(p) ==
    /\ pull[p] = Idle
    /\ runs < MaxRuns
    /\ runs' = runs + 1
    /\ pull' = [pull EXCEPT ![p] = [at |-> "ssh", ts |-> clock]]
    /\ UNCHANGED <<host, clock, script, deploying, db, accepted, changes, deploys>>

\* From the output to the body of the push: an unreadable output or server
\* section refuses all of it, a bench or a site only itself.  The branch for
\* a section ERROR is left out: the script prints it and exits with the code
\* of the failed command, which Run has made an error before.
MutantBody(out) ==
    LET m == ServerFromSections(out)
        benches == {BenchFromSections(out, b) : b \in BenchNames(out)}
        sites == {SiteFromSections(out, s[1], s[2]) : s \in SiteNamesFor(out)}
    IN  ServerLines(m, ServerName, m.timestamp)
        \cup (UNION {BenchLines(b, ServerName, 0) : b \in {x \in benches : x.ok}})
        \cup (UNION {SiteLines(s, ServerName, 0) : s \in {x \in sites : x.ok}})
Body(out) ==
    LET m == ServerFromSections(out)
        benches == {BenchFromSections(out, b) : b \in BenchNames(out)}
        sites == {SiteFromSections(out, s[1], s[2]) : s \in SiteNamesFor(out)}
    IN  ServerLines(m, ServerName, m.timestamp)
        \cup (UNION {BenchLines(b, ServerName, m.timestamp) : b \in {x \in benches : x.ok}})
        \cup (UNION {SiteLines(s, ServerName, m.timestamp) : s \in {x \in sites : x.ok}})

Refused(out) ==
    LET m == ServerFromSections(out)
    IN  \/ out.err
        \/ ~m.ok
        \/ DOMAIN m.disks = {} /\ DOMAIN m.net = {}

\* The outputs a run that exits with 0 may leave: all the script prints; a
\* part of it, while only a part of the script is there; and a line that the
\* shell wrote to stderr, which Run collects in the same buffer.
Outputs(lines) ==
    LET places == {n \in 0..Len(lines) - 1 : n % Stride = 0} \cup {Len(lines) - 1}
        cut(n) == SubSeq(lines, 1, n)
    IN  IF script = "part" THEN {cut(n) : n \in places}
        ELSE {lines, Append(lines, Noise)}
             \cup {cut(n) \o <<Noise>> \o SubSeq(lines, n + 1, Len(lines)) : n \in places}

\* The run has ended well, and its output is parsed.
Parsed(p) ==
    /\ pull[p].at = "ssh"
    /\ \E k \in 0..Len(host.benches) :
          \E out \in {Tokenize(lines) : lines \in Outputs(Script(host, pull[p].ts, 1..k))} :
             LET read == [host |-> host, ts |-> pull[p].ts, probed |-> 1..k]
             IN  pull' = [pull EXCEPT ![p] =
                             IF Refused(out) THEN Idle
                             ELSE [at |-> "push", read |-> read, body |-> Body(out)]]
    /\ UNCHANGED <<host, clock, script, deploying, db, accepted, runs, changes, deploys>>

\* The run failed, was killed, or the script's trap fired.
RunFails(p) ==
    /\ pull[p].at = "ssh"
    /\ pull' = [pull EXCEPT ![p] = Idle]
    /\ UNCHANGED <<host, clock, script, deploying, db, accepted, runs, changes, deploys>>

\* VictoriaMetrics undoes the escapes; a line it cannot split it skips.
Readable(s) == \A i \in DOMAIN s.tags : LET v == s.tags[i][2] IN Len(v) = 2 \/ v[1] \notin Special
Decoded(s)  == [s EXCEPT !.tags = [i \in DOMAIN @ |-> <<@[i][1], @[i][2][Len(@[i][2])]>>]]
Stored(body) == {Decoded(s) : s \in {x \in body : Readable(x)}}

\* VMClient.Push: a request that fails may have been taken.
Push(p) ==
    /\ pull[p].at = "push"
    /\ \E taken \in BOOLEAN :
          /\ db' = IF taken THEN db \cup Stored(pull[p].body) ELSE db
          /\ accepted' = IF taken THEN accepted \cup {pull[p].read} ELSE accepted
    /\ pull' = [pull EXCEPT ![p] = Idle]
    /\ UNCHANGED <<host, clock, script, deploying, runs, changes, deploys>>

Next ==
    \/ HostChanges \/ DeployStart \/ DeployEnd
    \/ \E p \in Pulls : PullStart(p) \/ Parsed(p) \/ RunFails(p) \/ Push(p)

Spec == Init /\ [][Next]_vars

-----------------------------------------------------------------------------
(***************************************************************************)
(* The pages.  Each field of a page is a query of its own; here all of     *)
(* them see one state of the database.                                     *)
(***************************************************************************)
\* The newest sample of every series that has these tags.
QueryInstant(metric, match) ==
    LET found == {s \in db : s.metric = metric /\ match \subseteq ToSet(s.tags)}
    IN  {s \in found : \A o \in found : o.tags = s.tags => o.ts <= s.ts}

TagOf(s, key) == (CHOOSE t \in ToSet(s.tags) : t[1] = key)[2]

ListBenches == {TagOf(s, "bench") : s \in QueryInstant(<<"bench", "apps_count">>, {})}
ListSites   == {<<TagOf(s, "bench"), TagOf(s, "site")>> : s \in QueryInstant(<<"site", "is_healthy">>, {})}

\* A field without a sample shows as zero: here as no value at all.
GetBench(bench) ==
    LET shown(m) == QueryInstant(<<"bench", m>>, {<<"server", ServerName>>, <<"bench", bench>>})
    IN  [versions |-> {TagOf(s, "frappe_version") : s \in shown("info")},
         fields |-> [m \in {"apps_count", "supervisor_running", "supervisor_total"} |-> shown(m)],
         queues |-> {<<TagOf(s, "queue"), s.value>> : s \in shown("redis_queue_depth")}]

GetSite(bench, site) ==
    [m \in {"http_status_code", "http_response_ms", "is_healthy"} |->
        QueryInstant(<<"site", m>>, {<<"server", ServerName>>, <<"bench", bench>>, <<"site", site>>})]

-----------------------------------------------------------------------------
(***************************************************************************)
(* Properties.                                                             *)
(***************************************************************************)
Plain(key, name) == <<key, name>>
ServerTag == Plain("server", ServerName)

BenchTags(bench)      == <<ServerTag, Plain("bench", bench)>>
SiteTags(bench, site) == <<ServerTag, Plain("bench", bench), Plain("site", site)>>

\* The benches of a capture that are in order, by their numbers.
InOrder(read) == {i \in DOMAIN read.host.benches : ~read.host.benches[i].password}

\* What a site answers on the port where its bench serves; 0 is nothing.
Answer(b, site) == IF b.serves = 0 THEN 0 ELSE b.sites[site]

\* The benches whose webserver is not at the first port the script tries: it
\* takes that port whatever listens there, for a curl that fails makes the
\* code 000000, and finds no site (README, "Other disagreements").
Overlooked(read) ==
    {i \in DOMAIN read.host.benches :
        LET b == read.host.benches[i]
        IN  b.serves \notin {0, IF b.port = 0 THEN 8000 ELSE b.port}}

\* A name with a comma in a labelled key is skipped by splitLabeledKey
\* (README, "Other disagreements"): such a mount, interface or version is lost.
Kept(names) == names \ Commas

ServerExpected(read) ==
    LET h == read.host
        at(metric, tags, value) == Sample(<<"server", metric>>, tags, value, read.ts)
    IN  {at(f, <<ServerTag>>, IF f \in MemFields THEN 1024 * h.v ELSE h.v) : f \in ServerFields}
        \cup (UNION {{at(m, <<ServerTag, Plain("mount", d)>>, h.v) :
                         m \in {"disk_used_bytes", "disk_total_bytes"}} : d \in Kept(h.disks)})
        \cup (UNION {{at(m, <<ServerTag, Plain("iface", n)>>, h.v) :
                         m \in {"net_rx_bytes", "net_tx_bytes"}} : n \in Kept(h.nets)})

BenchExpected(read, i) ==
    LET h == read.host
        b == h.benches[i]
        at(metric, tags, value) == Sample(<<"bench", metric>>, tags, value, read.ts)
    IN  {at("apps_count", BenchTags(b.name), IF b.apps = "listed" THEN h.v ELSE 0),
         at("supervisor_running", BenchTags(b.name), h.v),
         at("supervisor_total", BenchTags(b.name), h.v)}
        \cup {at("redis_queue_depth", Append(BenchTags(b.name), Plain("queue", q)), h.v) : q \in Queues}
        \cup {at("info", Append(BenchTags(b.name), Plain("frappe_version", v)), 1) :
                 v \in Kept({b.version} \ {""})}

\* The samples of a site that answers a probe with this code.
SiteSamples(read, i, s, code) ==
    LET at(metric, value) ==
            Sample(<<"site", metric>>, SiteTags(read.host.benches[i].name, s), value, read.ts)
    IN  {at("http_status_code", code),
         at("is_healthy", IF code \div 100 \in {2, 3} THEN 1 ELSE 0),
         at("http_response_ms", IF i \in read.probed THEN read.host.v ELSE 0)}

\* A site the script had no time to probe reports 0.
SiteExpected(read, i, s) ==
    SiteSamples(read, i, s, IF i \in read.probed THEN Answer(read.host.benches[i], s) ELSE 0)

\* What a capture of this host should leave in the database, read off the
\* host itself: the server, every bench that is in order and every site.
Expected(read) ==
    ServerExpected(read)
    \cup (UNION {BenchExpected(read, i) : i \in InOrder(read)})
    \cup (UNION {UNION {SiteExpected(read, i, s) : s \in DOMAIN read.host.benches[i].sites}
                    : i \in DOMAIN read.host.benches \ Overlooked(read)})

\* What it leaves of the benches it overlooks: all their sites are down.
Mistaken(read) ==
    UNION {UNION {SiteSamples(read, i, s, 0) : s \in DOMAIN read.host.benches[i].sites}
              : i \in Overlooked(read)}

Told(read) == Expected(read) \cup Mistaken(read)

\* "a single misbehaving site shouldn't drop the rest of the pull"
\* (pipeline.go:150): whatever is pushed is, to the sample, what the host had
\* when the script read it, with three exceptions that are named above: the
\* benches that are not in order, names with a comma, and the benches served
\* at another port than the first one tried, whose sites are pushed as down.
\* Output cut short by a deployment, with a stray line of stderr or two
\* sections of one name pushes nothing.
PushedIsWhatWasRead ==
    \A p \in Pulls : pull[p].at = "push" => Stored(pull[p].body) = Told(pull[p].read)

\* The benches VictoriaMetrics was told of; the captures it took in which a
\* bench was in order, and the newest of them.
Known ==
    UNION {{r.host.benches[i].name : i \in DOMAIN r.host.benches} : r \in accepted}
HasBench(r, bench) == \E i \in InOrder(r) : r.host.benches[i].name = bench
HasSite(r, bench, site) ==
    \E i \in DOMAIN r.host.benches :
       r.host.benches[i].name = bench /\ site \in DOMAIN r.host.benches[i].sites

Having(bench) == {r \in accepted : HasBench(r, bench)}
Newest(bench) == {r \in Having(bench) : \A o \in Having(bench) : o.ts <= r.ts}

\* A page shows the newest capture VictoriaMetrics took, in whichever order
\* overlapping pulls pushed and whatever failed between: the samples carry
\* the time of the script's start (bm.Timestamp = m.Timestamp).
PagesShowTheNewest ==
    /\ ListBenches = {b \in Known : Having(b) # {}}
    /\ \A b \in ListBenches :
          \A s \in GetBench(b).fields["supervisor_total"] :
             \E r \in Newest(b) : s.value = r.host.v /\ s.ts = r.ts
    /\ \A x \in ListSites :
          \A s \in GetSite(x[1], x[2])["is_healthy"] :
             \A r \in accepted : HasSite(r, x[1], x[2]) => r.ts <= s.ts
=============================================================================
