----------------------------- MODULE MCWorkPool -----------------------------
(* WorkPool under polls that nest, for TLC.                                 *)
EXTENDS NestedPolling
=============================================================================
