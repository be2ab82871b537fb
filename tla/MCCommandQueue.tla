--------------------------- MODULE MCCommandQueue ---------------------------
(* Finite instances of CommandQueue for TLC; the configurations give the   *)
(* clients and the capacity directly.                                      *)
EXTENDS CommandQueue
=============================================================================
