-------------------------------- MODULE Config --------------------------------
(***************************************************************************)
(* The configuration (internal/config/config.go) and the two packages that *)
(* validate their own part of it once more (internal/alerts/service.go,    *)
(* internal/streamer/manager.go).  Pure operators.                         *)
(*                                                                         *)
(* A configuration is a function from keys to numbers and one from keys to *)
(* texts.  A flag is 0 or 1, a list the number of its entries.  A text is  *)
(* "" (or blank), "sound", or "odd": one that no check would let pass.     *)
(***************************************************************************)
EXTENDS Integers

\* The numbers validate wants to be at least 1, whatever is enabled.
Positive ==
    {"server.read_timeout", "server.write_timeout", "ssh.dial_timeout", "ssh.command_timeout",
     "ssh.max_connections", "metrics.push_timeout", "metrics.query_timeout", "logs.push_timeout",
     "logs.query_timeout", "scheduler.default_interval", "scheduler.max_parallel",
     "scheduler.per_job_timeout"}
AlertNumbers == {"alerts.evaluation_interval", "alerts.vm_query_timeout", "alerts.notify_repeat",
                 "alerts.send_timeout"}
StreamNumbers == {"streaming.flush_interval", "streaming.max_batch", "streaming.push_timeout",
                  "streaming.min_backoff", "streaming.max_backoff"}
Flags == {"alerts.enabled", "streaming.enabled"}
Lists == {"alerts.chat_ids", "streaming.files"}
Numbers == Positive \cup AlertNumbers \cup StreamNumbers \cup Flags \cup Lists

\* Required always; required by the alerts, by the streamer.
Required == {"database.path", "server.listen_addr", "metrics.vm_url", "logs.loki_url"}
Chosen   == {"log.level", "log.format"}     \* from a short list of words
Entries  == {"alerts.rules", "streaming.entries"}  \* what is said of each entry of a list
Texts == Required \cup Chosen \cup Entries \cup {"alerts.bot_token", "streaming.script_path"}

\* Everything has a sound default but what only the operator can know.
Defaults ==
    [num |-> [k \in Numbers |-> IF k \in Flags \cup Lists THEN 0 ELSE 60],
     text |-> [k \in Texts |-> IF k \in {"alerts.bot_token", "streaming.script_path"} THEN "" ELSE "sound"]]

\* f where it has a value, g elsewhere (the provers cannot expand TLC's @@).
Over(f, g) == [k \in DOMAIN f \cup DOMAIN g |-> IF k \in DOMAIN f THEN f[k] ELSE g[k]]

\* The environment over the file over the defaults.
Merged(file, env) ==
    [num |-> Over(env.num, Over(file.num, Defaults.num)),
     text |-> Over(env.text, Over(file.text, Defaults.text))]

Enabled(c, part) == c.num[part] = 1

MutantAccepted(c) ==
    /\ \A k \in Positive : c.num[k] >= 1
    /\ \A k \in Required : c.text[k] # ""
    /\ \A k \in Chosen : c.text[k] = "sound"
    /\ Enabled(c, "alerts.enabled") =>
          /\ c.num["alerts.evaluation_interval"] >= 15
          /\ c.num["alerts.vm_query_timeout"] >= 1 /\ c.num["alerts.notify_repeat"] >= 0
    /\ Enabled(c, "alerts.enabled") =>
          /\ \A k \in StreamNumbers : c.num[k] >= 1
          /\ c.num["streaming.max_backoff"] >= c.num["streaming.min_backoff"]
\* Config.validate.
Accepted(c) ==
    /\ \A k \in Positive : c.num[k] >= 1
    /\ \A k \in Required : c.text[k] # ""
    /\ \A k \in Chosen : c.text[k] = "sound"
    /\ Enabled(c, "alerts.enabled") =>
          /\ c.num["alerts.evaluation_interval"] >= 15
          /\ c.num["alerts.vm_query_timeout"] >= 1 /\ c.num["alerts.notify_repeat"] >= 0
    /\ Enabled(c, "streaming.enabled") =>
          /\ \A k \in StreamNumbers \ {"streaming.max_backoff"} : c.num[k] >= 1
          /\ c.num["streaming.max_backoff"] >= c.num["streaming.min_backoff"]

\* alerts.Config.Validate, of an enabled one.
AlertsValid(c) ==
    /\ c.num["alerts.evaluation_interval"] >= 15
    /\ c.num["alerts.vm_query_timeout"] >= 1
    /\ c.text["alerts.bot_token"] # ""
    /\ c.num["alerts.chat_ids"] > 0
    /\ c.num["alerts.send_timeout"] >= 1
    /\ c.text["alerts.rules"] = "sound"

\* streamer.Config.Validate, of an enabled one.  It asks nothing of numbers.
StreamerValid(c) ==
    /\ c.text["streaming.script_path"] # ""
    /\ c.num["streaming.files"] > 0
    /\ c.text["streaming.entries"] = "sound"
=============================================================================
