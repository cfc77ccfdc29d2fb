--------------------------- MODULE MCServerLifecycle ---------------------------
(* One server from before the start, one created over the API.  The operator  *)
(* enables both parts, and gets one setting wrong, or two: in the file, in   *)
(* the environment, or in the file with the environment putting it right.    *)
EXTENDS ServerLifecycle, TLC

CONSTANTS old, new

MCServers == {old, new}
MCBoot == {old}

Settings(num, text) == [num |-> num, text |-> text]
Nothing == Settings(<<>>, <<>>)

On == Settings([k \in Flags \cup Lists |-> 1],
               [k \in {"alerts.bot_token", "streaming.script_path"} |-> "sound"])

(* The settings with a number or a text replaced.                             *)
WithNum(s, k, n)  == [s EXCEPT !.num = (k :> n) @@ @]
WithText(s, k, t) == [s EXCEPT !.text = (k :> t) @@ @]
Wrong(s) == {WithNum(s, k, n) : k \in Numbers, n \in {0, 1, 90}}
            \cup {WithText(s, k, t) : k \in Texts, t \in {"", "odd"}}

MCSources ==
  {[file |-> Nothing, env |-> Nothing], [file |-> On, env |-> Nothing]}
  \cup {[file |-> f, env |-> Nothing] : f \in Wrong(On)}
  \cup {[file |-> On, env |-> e] : e \in Wrong(Nothing)}
  \cup {[file |-> f, env |-> e] :
           f \in {WithNum(On, k, 0) : k \in StreamNumbers},
           e \in {WithNum(Nothing, k, n) : k \in Flags \cup StreamNumbers, n \in {0, 1}}}
=============================================================================
