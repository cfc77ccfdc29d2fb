------------------------------ MODULE MCCollect ------------------------------
(***************************************************************************)
(* A small instance of Collect: one host that is in order and its ways of  *)
(* being out of order.                                                     *)
(***************************************************************************)
EXTENDS Collect

CONSTANTS p1, p2

Bench(name, sites) ==
    [name |-> name, version |-> "15", apps |-> "listed", password |-> FALSE,
     port |-> 8000, serves |-> 8000, sites |-> sites]

One == Bench("one", "s1" :> 200 @@ "s2" :> 500)
Two == Bench("two bench", "s1" :> 301)

Good == [disks |-> {"/"}, nets |-> {"eth0"}, benches |-> <<One, Two>>]

MCHosts ==
    {Good,
     [Good EXCEPT !.benches[1] = [@ EXCEPT !.password = TRUE, !.serves = 80, !.port = 0]],
     [Good EXCEPT !.benches[2] = [@ EXCEPT !.version = "", !.apps = "no file", !.serves = 0]],
     [Good EXCEPT !.benches[2] = [@ EXCEPT !.apps = "empty file"]],
     [Good EXCEPT !.benches[2] = [@ EXCEPT !.name = "one"]],
     [Good EXCEPT !.disks = {"/", "a,b"}],
     [Good EXCEPT !.disks = {"/", "a b"}],
     [Good EXCEPT !.disks = {}, !.benches = <<One>>],
     [Good EXCEPT !.disks = {}, !.nets = {}]}

MCSymmetry == Permutations(Pulls)
=============================================================================
