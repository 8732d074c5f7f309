---------------------------- MODULE MCInventory ----------------------------
(***************************************************************************)
(* Two orders that compete for two products, one of which cannot serve     *)
(* both, with two RPC handlers and one reaper; and two orders of one unit  *)
(* of one product, of which there are two: enough for a reserve delivered  *)
(* again to go through, and PUT /stock takes the stock down to one.        *)
(***************************************************************************)
EXTENDS Inventory, TLC

CONSTANTS o1, o2, w1, w2, r1, s1

MCProducts == 1 .. 2
MCBaskets  == {<<1, 1>>, <<2, 1>>}
MCStock    == <<2, 2>>

OneProduct  == 1 .. 1
OneUnit     == {<<1>>}
OneInStock  == <<1>>
TwoInStock  == <<2>>

Symmetry == Permutations({o1, o2}) \union Permutations({w1, w2})
=============================================================================
