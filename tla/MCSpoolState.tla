----------------------------- MODULE MCSpoolState -----------------------------
(* Instances of SpoolState for TLC: one scanning process, and the deployed    *)
(* pair of a watcher and a finalizer.                                         *)
EXTENDS SpoolState
CONSTANTS p1, p2
=============================================================================
