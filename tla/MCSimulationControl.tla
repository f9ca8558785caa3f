------------------------ MODULE MCSimulationControl ------------------------
(* Samples up to two ticks late, as long as a clock is asked to stand still. *)
EXTENDS SimulationControl
=============================================================================
