----------------------------- MODULE MCInventory -----------------------------
(***************************************************************************)
(* A small instance of Inventory.                                          *)
(***************************************************************************)
EXTENDS Inventory, TLC

CONSTANTS w1, w2, h1, h2

MCPatches ==
    {[hostname |-> h2], [name |-> ""], [bench_paths |-> <<"bench", "">>, ssh_port |-> 2222],
     [ssh_port |-> 0]}

MCSymmetry == Permutations(Workers)
=============================================================================
