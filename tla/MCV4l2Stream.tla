---------------------------- MODULE MCV4l2Stream ----------------------------
(* Instances of V4l2Stream for TLC.                                        *)
EXTENDS V4l2Stream
=============================================================================
