----------------------------- MODULE MCAuditTrail -----------------------------
(***************************************************************************)
(* One order: nothing the trail says of an order depends on another one.   *)
(***************************************************************************)
EXTENDS AuditTrail

CONSTANTS o1

MCProducts == 1 .. 1
MCBaskets  == {<<1>>}
MCStock    == <<1>>
=============================================================================
