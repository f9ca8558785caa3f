--------------------------- MODULE MCNavWorkload ---------------------------
(* A robot with one stream besides its AMCL pose. *)
EXTENDS NavWorkload
=============================================================================
