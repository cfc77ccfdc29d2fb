--------------------------- MODULE MCAlertEvaluator ---------------------------
(* The instances of AlertEvaluator that TLC checks: two rules, each with one  *)
(* series it may return.                                                      *)
EXTENDS AlertEvaluator

CONSTANTS backup, queue, site

MCNames == {backup, queue}
MCNameOf == [r \in 1 .. 2 |-> IF r = 1 THEN backup ELSE queue]
MCSeries == {site}
=============================================================================
