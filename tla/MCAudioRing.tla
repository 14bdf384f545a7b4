----------------------------- MODULE MCAudioRing -----------------------------
(* AudioRing with the values TLC uses for its constants.                     *)
EXTENDS AudioRing
=============================================================================
