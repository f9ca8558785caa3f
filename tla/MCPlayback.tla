----------------------------- MODULE MCPlayback -----------------------------
(* Two recordings, and the two changes that a recording and its summary need. *)
EXTENDS Playback
=============================================================================
