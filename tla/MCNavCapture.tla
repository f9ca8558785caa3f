---------------------------- MODULE MCNavCapture ----------------------------
(* One capture; the module has no parameters. *)
EXTENDS NavCapture
=============================================================================
