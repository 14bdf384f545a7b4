------------------------------ MODULE FrameFifo ------------------------------
(***************************************************************************)
(* What a capture buffer promises to the two threads that share it: while  *)
(* it is open it is a bounded FIFO.  A frame that was accepted is handed   *)
(* over once, unchanged, after every frame accepted before it; opening and *)
(* closing the buffer discard what is left in it.                          *)
(* The video ring (VideoRing) and the audio ring (AudioRing) implement it. *)
(***************************************************************************)
EXTENDS Naturals, Sequences

CONSTANTS Capacity, (* the number of frames the buffer can hold *)
          Frame     (* the set of frames                        *)

VARIABLES open,     (* is the buffer allocated?                 *)
          queue     (* the accepted frames, oldest first        *)

fifoVars == <<open, queue>>

FifoInit ==
  /\ open = FALSE
  /\ queue = <<>>

Open ==
  /\ open' = TRUE
  /\ queue' = <<>>

Put(f) ==
  /\ open
  /\ Len(queue) < Capacity
  /\ queue' = Append(queue, f)
  /\ UNCHANGED open

Take ==
  /\ open
  /\ queue # <<>>
  /\ queue' = Tail(queue)
  /\ UNCHANGED open

Close ==
  /\ open' = FALSE
  /\ queue' = <<>>

FifoNext ==
  \/ Open
  \/ \E f \in Frame : Put(f)
  \/ Take
  \/ Close

FifoSpec == FifoInit /\ [][FifoNext]_fifoVars

(* A closed buffer holds nothing, and an open one never more than fits.    *)
FifoTypeOK ==
  /\ open \in BOOLEAN
  /\ queue \in Seq(Frame)
  /\ Len(queue) <= Capacity
=============================================================================
