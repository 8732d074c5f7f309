------------------------------ MODULE MCOutbox ------------------------------
(***************************************************************************)
(* Three rows, two rows a tick and two attempts a row: two for a peer that *)
(* may be down, the second skipped when the first fails, before one for a  *)
(* healthy peer; or one that is not routable between two for the healthy   *)
(* peer.  The backoff makes rows change places.  For two replicas, one     *)
(* row, whose peer may be down.                                            *)
(***************************************************************************)
EXTENDS Outbox

CONSTANTS p1, p2

Mixed  == {<<"inventory", "inventory", "audit">>, <<"audit", "none", "audit">>}
Single == {<<"audit">>}
=============================================================================
