--------------------------- MODULE MCChainManager ---------------------------
(* Model checking of ChainManager: a trust node with MaxHeight solid blocks. *)
EXTENDS ChainManager
=============================================================================
