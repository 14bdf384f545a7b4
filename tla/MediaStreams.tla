----------------------------- MODULE MediaStreams -----------------------------
(***************************************************************************)
(* The streams of a video file, numbered as the muxers number them.        *)
(***************************************************************************)
EXTENDS Naturals

Video == 0
Audio == 1
Streams == {Video, Audio}
=============================================================================
