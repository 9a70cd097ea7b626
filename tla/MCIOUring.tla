----------------------------- MODULE MCIOUring ------------------------------
(* The completion engine for TLC.  The configurations choose which sockets *)
(* exist and what the kernel and the handlers may do.                      *)
EXTENDS IOUring
=============================================================================
