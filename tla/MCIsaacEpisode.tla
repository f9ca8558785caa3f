--------------------------- MODULE MCIsaacEpisode ---------------------------
(* One episode of a few steps.                                             *)
EXTENDS IsaacEpisode
=============================================================================
