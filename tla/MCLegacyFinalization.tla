------------------------ MODULE MCLegacyFinalization ------------------------
(* One recorder, the result and the log, the run's own export and one retry. *)
EXTENDS LegacyFinalization
=============================================================================
