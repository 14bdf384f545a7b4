------------------------------- MODULE MkvFile -------------------------------
(***************************************************************************)
(* The Matroska writer (matroska.c).  Blocks go into clusters; a cluster   *)
(* ends when it is large, or before a video keyframe.  A sound packet is   *)
(* kept back until the next packet comes, so that it ends up in the        *)
(* cluster of a keyframe that follows it.  Sizes are bytes of the file,    *)
(* pts is in nanoseconds, and TimeScale of them make a millisecond.        *)
(* The muxer runs under file_mutex, one packet after the other.            *)
(***************************************************************************)
EXTENDS Integers, Sequences, SequencesExt, FiniteSets, MediaStreams

CONSTANTS SegmentAt,  (* bytes before the body of the segment                *)
          HeaderEnd,  (* where the header ends: the clusters start there     *)
          TimeScale,  (* timescale                                           *)
          Second,     (* the 1000 of the code, compared with pts             *)
          KeySize, StreamSize, FullSize, (* 4 KB, 32 KB and 5 MB             *)
          RelativeHalf, (* half the range of the 16 bits of a block's time   *)
          BlockSizes, (* sizes of packets                                    *)
          Steps,      (* from one pts of a stream to the next                *)
          MaxPackets  (* bound: the packets written                          *)

ASSUME MkvAssumption ==
  /\ SegmentAt \in Nat /\ HeaderEnd \in Nat /\ SegmentAt < HeaderEnd
  /\ TimeScale \in Nat \ {0} /\ Second \in Nat /\ RelativeHalf \in Nat \ {0}
  /\ KeySize \in Nat /\ StreamSize \in Nat /\ FullSize \in Nat /\ MaxPackets \in Nat
  /\ BlockSizes \subseteq Nat \ {0} /\ Steps \subseteq Nat

MasterHead == 12     (* id and size of a cluster, of the cues                *)
Timecode == 3        (* timecode element of a cluster                        *)
BlockHead == 8       (* what goes before the data of a packet                *)
CuePoint == 20       (* a cue point                                          *)
Open == -1           (* a size that is not known yet                         *)

VARIABLES
  mkv,     (* the file: end, clusters, cues, the elements of the seek head,  *)
           (* duration, size of the segment; the open cluster, if any, and   *)
           (* the sound packet kept back (pkt)                             *)
  written, (* history: the packets handed to the muxer                       *)
  mkvOpen

mkvVars == <<mkv, written, mkvOpen>>

Ts(p) == p.pts \div TimeScale
-----------------------------------------------------------------------------
(***************************************************************************)
(* Clusters and blocks.                                                    *)
(***************************************************************************)
StartCluster(m, ts) ==
  [m EXCEPT !.clusters = Append(@, [at |-> m.end, timecode |-> ts, size |-> Open, blocks |-> <<>>]),
            !.cluster_pos = m.end, !.cluster_pts = ts,
            !.end = @ + MasterHead + Timecode]

EndCluster(m) ==
  LET c == Len(m.clusters)
  IN [m EXCEPT !.clusters[c].size = m.end - (m.clusters[c].at + MasterHead),
               !.cluster_pos = 0]

(* The time of a block is 16 bits, relative to the cluster.                *)
mkv_write_block(m, p) ==
  [m EXCEPT !.clusters[Len(m.clusters)].blocks =
               Append(@, [id |-> p.id, stream |-> p.stream,
                          time |-> (Ts(p) - m.cluster_pts) % (2 * RelativeHalf)]),
            !.end = @ + BlockHead + p.size]

mkv_add_cuepoint(m, ts, pos) ==
  [m EXCEPT !.cues = Append(@, [pts |-> ts, cluster_pos |-> pos - SegmentAt])]

Later(a, b) == IF a > b THEN a ELSE b
IsKeyframe(p) == p.stream = Video /\ p.key

(* Mutant: the cue takes the cluster that was open before.                 *)
CueOfPrevious(m, p) ==
  LET o == IF m.cluster_pos = 0 THEN StartCluster(m, Ts(p)) ELSE m
      b == mkv_write_block(o, p)
      c == IF IsKeyframe(p) THEN mkv_add_cuepoint(b, Ts(p), m.cluster_pos) ELSE b
  IN [c EXCEPT !.duration = Later(@, Ts(p) + p.duration)]

mkv_write_packet_internal(m, p) ==
  LET o == IF m.cluster_pos = 0 THEN StartCluster(m, Ts(p)) ELSE m
      b == mkv_write_block(o, p)
      c == IF IsKeyframe(p) THEN mkv_add_cuepoint(b, Ts(p), b.cluster_pos) ELSE b
  IN [c EXCEPT !.duration = Later(@, Ts(p) + p.duration)]

(* The packet kept back is written.  Mutant: it is kept for good.          *)
NotReleased(m) == [m EXCEPT !.cached = <<>>]
Released(m) ==
  IF m.cached = <<>> THEN m
  ELSE mkv_write_packet_internal([m EXCEPT !.cached = <<>>], m.cached[1])
-----------------------------------------------------------------------------
(***************************************************************************)
(* A packet.                                                               *)
(***************************************************************************)
ClusterFull(m, p) ==
  LET cluster_size == m.end - m.cluster_pos
  IN \/ cluster_size > StreamSize /\ p.pts > m.cluster_pts + Second
     \/ cluster_size > FullSize /\ p.pts > m.cluster_pts + 5 * Second
     \/ IsKeyframe(p) /\ cluster_size > KeySize

mkv_write_packet(m, p) ==
  LET c == IF m.cluster_pos # 0 /\ ClusterFull(m, p) THEN EndCluster(m) ELSE m
      r == Released(c)
  IN IF p.stream = Audio
     THEN [r EXCEPT !.cached = <<p>>]
     ELSE mkv_write_packet_internal(r, p)

(* The stamps of a stream never go back.                                   *)
Stamps(s) == {0} \cup {written[k].pts : k \in {j \in 1 .. Len(written) : written[j].stream = s}}
NextStamps(s) ==
  {t \in {u + step : u \in Stamps(s), step \in Steps} : \A u \in Stamps(s) : u <= t}

MkvPackets ==
  [id : {Len(written) + 1}, stream : {Video}, size : BlockSizes, key : BOOLEAN,
   pts : NextStamps(Video), duration : {0}]
  \cup
  [id : {Len(written) + 1}, stream : {Audio}, size : BlockSizes, key : {TRUE},
   pts : NextStamps(Audio), duration : {1}]

MkvWrite ==
  /\ mkvOpen /\ Len(written) < MaxPackets
  /\ \E p \in MkvPackets : mkv' = mkv_write_packet(mkv, p) /\ written' = Append(written, p)
  /\ UNCHANGED mkvOpen

(* The cues, if there are any, and then the seek head names them.          *)
mkv_write_cues(m) ==
  IF m.cues = <<>> THEN m
  ELSE [m EXCEPT !.seekhead = @ \cup {[element |-> "cues", pos |-> m.end - SegmentAt]},
                 !.end = @ + MasterHead + CuePoint * Len(m.cues)]

mkv_close(m) ==
  LET r == Released(m)
      c == mkv_write_cues(IF r.cluster_pos # 0 THEN EndCluster(r) ELSE r)
  IN [c EXCEPT !.segment = c.end - SegmentAt, !.duration_written = c.duration]

MkvClose ==
  /\ mkvOpen /\ mkvOpen' = FALSE
  /\ mkv' = mkv_close(mkv)
  /\ UNCHANGED written

(* After mkv_write_header, with the size of the segment still unknown.     *)
MkvInit ==
  /\ mkv = [end |-> HeaderEnd, clusters |-> <<>>, cluster_pos |-> 0, cluster_pts |-> 0,
            cached |-> <<>>, cues |-> <<>>, seekhead |-> {}, duration |-> 0,
            segment |-> Open, duration_written |-> 0]
  /\ written = <<>> /\ mkvOpen = TRUE

MkvNext == MkvWrite \/ MkvClose

MkvSpec == MkvInit /\ [][MkvNext]_mkvVars
-----------------------------------------------------------------------------
(***************************************************************************)
(* Properties, of a file that was closed and is read back.                 *)
(***************************************************************************)
MkvTypeOK ==
  /\ mkv.end \in Nat /\ mkv.cluster_pos \in Nat /\ mkv.duration \in Nat
  /\ Len(mkv.cached) <= 1 /\ mkvOpen \in BOOLEAN

Clusters == 1 .. Len(mkv.clusters)
ClusterEnd(c) == mkv.clusters[c].at + MasterHead + mkv.clusters[c].size

(* The clusters end where the cues begin, or the segment ends.             *)
CuesAt ==
  IF mkv.cues = <<>> THEN mkv.end ELSE mkv.end - (MasterHead + CuePoint * Len(mkv.cues))
ClusterAt(c) == IF c \in Clusters THEN mkv.clusters[c].at ELSE CuesAt

(* The elements of the segment follow each other up to the end of it.      *)
Tiled ==
  /\ ClusterAt(1) = HeaderEnd
  /\ \A c \in Clusters : ClusterEnd(c) = ClusterAt(c + 1)
  /\ SegmentAt + mkv.segment = mkv.end

Signed(t) == IF t < RelativeHalf THEN t ELSE t - 2 * RelativeHalf
InReach(ts, t) == ts - t \in -RelativeHalf .. RelativeHalf - 1

(* The blocks of the file, one after the other, are the packets written.   *)
FirstBlock(c) == IF c \in Clusters THEN mkv.clusters[c].blocks[1].id ELSE Len(written) + 1
InOrder ==
  /\ FirstBlock(1) = 1
  /\ \A c \in Clusters :
       LET blocks == mkv.clusters[c].blocks
       IN /\ blocks # <<>> /\ FirstBlock(c) + Len(blocks) = FirstBlock(c + 1)
          /\ \A k \in 1 .. Len(blocks) : blocks[k].id = FirstBlock(c) + k - 1

(* A player that reads the closed file cluster by cluster finds every      *)
(* packet once, in the order it was handed over, the one kept back         *)
(* included, and at its own time while the time fits its 16 bits; the      *)
(* sizes of the clusters and of the segment leave no gap.                  *)
MkvBlocks ==
  ~mkvOpen =>
    /\ Tiled /\ InOrder
    /\ \A c \in Clusters : \A b \in ToSet(mkv.clusters[c].blocks) :
         LET start == mkv.clusters[c].timecode
             ts    == Ts(written[b.id])
         IN b.stream = written[b.id].stream /\ (InReach(ts, start) => start + Signed(b.time) = ts)
    /\ \A k \in 1 .. Len(written) : Ts(written[k]) + written[k].duration <= mkv.duration_written

HasBlock(c, k) == \E b \in ToSet(c.blocks) : b.id = k
KeyframesTo(k) == {j \in 1 .. k : IsKeyframe(written[j])}

(* The n-th cue is that of packet k, the n-th video keyframe.              *)
CueLeadsTo(k, cue) ==
  /\ cue.pts = Ts(written[k])
  /\ \E c \in Clusters :
       /\ mkv.clusters[c].at = SegmentAt + cue.cluster_pos
       /\ HasBlock(mkv.clusters[c], k)
       /\ (k > 1 /\ written[k - 1].stream = Audio) => HasBlock(mkv.clusters[c], k - 1)

(* A player that seeks by the cues finds every video keyframe, in order,   *)
(* in the cluster its cue points to, and with it the sound that came right *)
(* before it; the seek head leads to the cues whenever there are any.      *)
MkvCues ==
  ~mkvOpen =>
    /\ Len(mkv.cues) = Cardinality(KeyframesTo(Len(written)))
    /\ mkv.seekhead = (IF mkv.cues = <<>> THEN {} ELSE {[element |-> "cues", pos |-> CuesAt - SegmentAt]})
    /\ \A k \in KeyframesTo(Len(written)) : CueLeadsTo(k, mkv.cues[Cardinality(KeyframesTo(k))])
=============================================================================
