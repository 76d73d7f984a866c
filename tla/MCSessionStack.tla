--------------------------- MODULE MCSessionStack ---------------------------
(* Model checking of SessionStack with two handles beside the pending pool. *)
EXTENDS SessionStack
=============================================================================
