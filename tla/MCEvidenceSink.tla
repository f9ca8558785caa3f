---------------------------- MODULE MCEvidenceSink ----------------------------
(* Instances of EvidenceSink for TLC. *)
EXTENDS EvidenceSink, TLC

CONSTANTS p1, p2, a, b

\* Two shells: one uploads and takes receipts, one uploads and finalizes.
ShellsAllowed ==
  (p1 :> {"segment", "receipt"}) @@ (p2 :> {"segment", "finalize"})

\* One process that watches, is stopped, registers an artifact, takes receipts
\* and finalizes.
Alternating == (p1 :> {"watch", "artifact", "receipt", "finalize"})

\* Two segments with indexes of their own and an artifact under the second, and
\* one segment.
DistinctIndexes == [f \in {1, 2, 3} |-> {IF f = 1 THEN 1 ELSE 2}]
OneIndex == [f \in {1} |-> {1}]

\* Both contents are admissible, and nothing else tells them apart.
SameContents == Permutations(Contents)
=============================================================================
