-------------------------- MODULE MCPhysicalAttach --------------------------
(* Three runs on one host; two of them are given the same time evidence.   *)
EXTENDS PhysicalAttach

CONSTANTS r1, r2, r3

\* The tokens: r1 and r2 are a run and its retry with the same measurement.
MCEvidence == [r \in Runs |-> IF r = r3 THEN "second" ELSE "first"]
=============================================================================
