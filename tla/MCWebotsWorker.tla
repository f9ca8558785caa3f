--------------------------- MODULE MCWebotsWorker ---------------------------
(* A measurement of a few steps.                                           *)
EXTENDS WebotsWorker
=============================================================================
