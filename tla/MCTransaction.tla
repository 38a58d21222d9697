--------------------------- MODULE MCTransaction ---------------------------
(* Transactions on one pooled connection, bounded for TLC. *)
EXTENDS Transaction
=============================================================================
