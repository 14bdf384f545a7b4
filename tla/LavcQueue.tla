------------------------------ MODULE LavcQueue ------------------------------
(***************************************************************************)
(* The time stamps of an encoder that holds frames back (encode_lavc_frame *)
(* of lavc_common.c).  Until the first packet comes out the stamps of the  *)
(* frames are collected; from then on the stamp of a frame is exchanged    *)
(* for the oldest one, which goes with the packet.  When the capture has   *)
(* ended, processVideo flushes the encoder packet by packet; a frame that  *)
(* main_loop stores after that has begun is not encoded any more.  The     *)
(* encoder itself is external: it gives a packet for every frame, in       *)
(* order, after holding back a fixed number of them.                       *)
(***************************************************************************)
EXTENDS Integers, Sequences

CONSTANTS MaxDelayed, (* MAX_DELAYED_FRAMES                                  *)
          Delays,     (* how many frames an encoder holds back               *)
          MaxFrames   (* bound: the frames of a capture                      *)

ASSUME LavcAssumption ==
  MaxDelayed \in Nat \ {0} /\ Delays \subseteq Nat /\ MaxFrames \in Nat \ {0}

VARIABLES
  delay, held,     (* the encoder: how many frames it holds back, and those  *)
  delayed_pts, delayed_frames, index_of_df,
  flush_delayed_frames, flush_done,
  frames,          (* the frames passed to encode_lavc_frame; a frame's      *)
                   (* number is its stamp                                    *)
  capturing,       (* "yes", "ending" while main_loop may still store the    *)
                   (* frame of an iteration that began before the end, "no"  *)
  finished,
  lost,            (* history: frames passed in the flush, not encoded       *)
  stamped          (* history: the packets, each with its frame and stamp    *)

lavcVars ==
  <<delay, held, delayed_pts, delayed_frames, index_of_df, flush_delayed_frames, flush_done,
    frames, capturing, finished, lost, stamped>>

LavcInit ==
  /\ delay \in Delays /\ held = <<>>
  /\ delayed_pts = [k \in 0 .. MaxDelayed - 1 |-> 0]
  /\ delayed_frames = 0 /\ index_of_df = -1
  /\ flush_delayed_frames = FALSE /\ flush_done = FALSE
  /\ frames = 0 /\ capturing = "yes" /\ finished = FALSE
  /\ lost = 0 /\ stamped = <<>>
-----------------------------------------------------------------------------
(***************************************************************************)
(* The stamps.                                                             *)
(***************************************************************************)

(* No packet came yet.  The stamp that finds the array full is written     *)
(* over the flags behind it, which are set from then on.                   *)
Collect(f, flushing) ==
  /\ IF delayed_frames < MaxDelayed
     THEN /\ delayed_pts' = [delayed_pts EXCEPT ![delayed_frames] = f]
          /\ delayed_frames' = delayed_frames + 1
          /\ flush_delayed_frames' = flushing
     ELSE UNCHANGED <<delayed_pts, delayed_frames>> /\ flush_delayed_frames' = TRUE
  /\ UNCHANGED index_of_df

(* Mutant: the index goes one place too far before it starts again.        *)
AdvanceLate(i) == IF i + 1 > delayed_frames THEN 0 ELSE i + 1
Advance(i) == IF i + 1 >= delayed_frames THEN 0 ELSE i + 1

Oldest == IF index_of_df < 0 THEN 0 ELSE index_of_df

Exchange(f, flushing) ==
  /\ delayed_pts' = [delayed_pts EXCEPT ![Oldest] = f]
  /\ index_of_df' = Advance(Oldest)
  /\ flush_delayed_frames' = flushing
  /\ UNCHANGED delayed_frames

Holding == delayed_frames > 0

encode_lavc_frame(f, flushing) ==
  LET given == IF flushing THEN held ELSE Append(held, f)
      out   == IF flushing THEN given # <<>> ELSE Len(given) > delay
  IN /\ held' = IF out THEN Tail(given) ELSE given
     /\ flush_done' = (flush_done \/ (flushing /\ ~out))
     /\ \/ ~out /\ index_of_df < 0 /\ Collect(f, flushing)
        \/ (out \/ index_of_df >= 0) /\ Holding /\ Exchange(f, flushing)
        \/ /\ (out \/ index_of_df >= 0) /\ ~Holding
           /\ flush_delayed_frames' = flushing
           /\ UNCHANGED <<delayed_pts, delayed_frames, index_of_df>>
     /\ stamped' = IF out
                   THEN Append(stamped, [frame |-> Head(given),
                                         stamp |-> IF Holding THEN delayed_pts[Oldest] ELSE f])
                   ELSE stamped
-----------------------------------------------------------------------------
(***************************************************************************)
(* The IO thread.                                                          *)
(***************************************************************************)
EncodeFrame ==
  /\ capturing # "no" /\ ~finished /\ frames < MaxFrames
  /\ frames' = frames + 1
  /\ capturing' = IF capturing = "ending" THEN "no" ELSE capturing
  /\ encode_lavc_frame(frames + 1, flush_delayed_frames)
  /\ lost' = IF flush_delayed_frames THEN lost + 1 ELSE lost
  /\ UNCHANGED <<delay, finished>>

(* capVid is off and the ring is empty; whether main_loop is still in an   *)
(* iteration that has read it as on is open.                               *)
CaptureEnds ==
  /\ capturing = "yes" /\ capturing' \in {"ending", "no"}
  /\ UNCHANGED <<delay, held, delayed_pts, delayed_frames, index_of_df, flush_delayed_frames,
                 flush_done, frames, finished, lost, stamped>>

(* The frame of the last call is passed again, with its stamp.             *)
FlushFrame ==
  /\ capturing # "yes" /\ ~finished
  /\ encode_lavc_frame(frames, TRUE)
  /\ finished' = flush_done'
  /\ UNCHANGED <<delay, frames, capturing, lost>>

LavcNext == EncodeFrame \/ CaptureEnds \/ FlushFrame

LavcSpec == LavcInit /\ [][LavcNext]_lavcVars
-----------------------------------------------------------------------------
(***************************************************************************)
(* Properties.                                                             *)
(***************************************************************************)
LavcTypeOK ==
  /\ delayed_frames \in 0 .. MaxDelayed
  /\ index_of_df \in -1 .. MaxDelayed - 1
  /\ delayed_pts \in [0 .. MaxDelayed - 1 -> 0 .. MaxFrames]
  /\ flush_delayed_frames \in BOOLEAN /\ flush_done \in BOOLEAN
  /\ capturing \in {"yes", "ending", "no"} /\ finished \in BOOLEAN
  /\ frames \in 0 .. MaxFrames /\ lost \in 0 .. frames

(* Every packet carries the stamp of its own frame, and the packets are of *)
(* consecutive frames; wherever the capture ends none is left in the       *)
(* encoder when the flush says it is done, and no frame is missing but     *)
(* one at most, passed when the flush had begun; if the encoder holds back *)
(* no more frames than there are places.                                   *)
StampsFollow ==
  delay <= MaxDelayed =>
    /\ \A k \in 1 .. Len(stamped) : stamped[k].frame = k /\ stamped[k].stamp = k
    /\ finished => Len(stamped) = frames - lost /\ lost <= 1
=============================================================================
