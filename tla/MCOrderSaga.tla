----------------------------- MODULE MCOrderSaga -----------------------------
(***************************************************************************)
(* Two orders of one product whose stock serves both only if each asks for *)
(* one unit.                                                               *)
(***************************************************************************)
EXTENDS OrderSaga, TLC

CONSTANTS o1, o2

MCProducts == 1 .. 1
MCBaskets  == {<<1>>, <<2>>}
MCStock    == <<2>>

Symmetry == Permutations({o1, o2})
=============================================================================
