------------------------------- MODULE AviFile -------------------------------
(***************************************************************************)
(* The AVI writer (avilib.c): packets go into RIFF parts of at most        *)
(* MaxRiff bytes, each entry is indexed, an index (ix) ends every part of  *)
(* a file with several, idx1 ends the first, and sizes and counters are    *)
(* patched in when a part or the file is closed.  Offsets and sizes are    *)
(* those of the file, in bytes; the file itself is RandomAccessFile.       *)
(* The muxer runs under file_mutex, one packet after the other.            *)
(***************************************************************************)
EXTENDS Integers, Sequences, SequencesExt, FiniteSets, MediaStreams

CONSTANTS HeaderSize, (* bytes up to the first movi: main and stream headers *)
          MaxRiff,    (* AVI_MAX_RIFF_SIZE                                   *)
          MaxMaster,  (* AVI_MASTER_INDEX_SIZE                               *)
          Lengths,    (* sizes of packets                                    *)
          Ahead,      (* how far dts may be ahead of the packets written     *)
          MaxChunks   (* bound: the chunks after which no packet comes       *)

ASSUME AviAssumption ==
  /\ HeaderSize \in Nat /\ HeaderSize >= 20 (* RIFF, size, AVI, LIST, size *)
  /\ MaxRiff \in Nat /\ MaxMaster \in Nat /\ MaxChunks \in Nat
  /\ Lengths \subseteq Nat /\ Ahead \subseteq Nat

VARIABLES
  avi,      (* the file: end, the parts riffs with their size fields, the    *)
            (* entries collected for each stream, the master indexes, idx1,  *)
            (* the counters kept and the counters in the headers             *)
  chunks,   (* history: the chunks written                                   *)
  split,    (* history: a part was closed while dts was being caught up with *)
  aviOpen, mpegAudio

aviVars == <<avi, chunks, split, aviOpen, mpegAudio>>

LastRiff(f) == Len(f.riffs)
-----------------------------------------------------------------------------
(***************************************************************************)
(* The parts of the file.                                                  *)
(***************************************************************************)

(* Mutant: the entries of the part before are kept.                        *)
KeepsEntries(f) == f.entries
clean_indexes(f) == [s \in Streams |-> <<>>]

(* RIFF, size, AVIX, LIST, size and movi; the first one has all headers.   *)
avi_add_new_riff(f) ==
  LET start == f.end + 8
      movi  == IF f.riffs = <<>> THEN f.end + HeaderSize ELSE start + 12
  IN [f EXCEPT !.riffs = Append(@, [start |-> start, movi |-> movi, size |-> 0, moviSize |-> 0]),
               !.end = movi + 4,
               !.entries = clean_indexes(f)]

CloseMovi(f, id) == [f EXCEPT !.riffs[id].moviSize = f.end - f.riffs[id].movi]
CloseRiff(f, id) == [f EXCEPT !.riffs[id].size = f.end - f.riffs[id].start]

(* The index of a stream in the last part, and its entry in the master.    *)
IxOf(f, s) ==
  LET id == LastRiff(f)
      ix == [at |-> f.end, base |-> f.riffs[id].movi, entries |-> f.entries[s]]
  IN [f EXCEPT !.end = @ + 32 + 8 * Len(f.entries[s]),
               !.master[s][id] = ix]

avi_write_ix(f) == IF LastRiff(f) > MaxMaster THEN f ELSE IxOf(IxOf(f, Video), Audio)

avi_write_counters(f) ==
  [f EXCEPT !.frames_hdr = [s \in Streams |-> IF s = Video THEN f.packet_count[s] ELSE f.strm_length],
            !.frames_hdr_all = f.packet_count[Video]]

(* idx1 has the entries of all streams in the order of the file: as long   *)
(* as there are any, that of the stream whose next entry is first in it.   *)
FirstLeft(f, taken) ==
  IF /\ taken[Audio] < Len(f.entries[Audio])
     /\ taken[Video] < Len(f.entries[Video]) =>
          f.entries[Audio][taken[Audio] + 1].pos < f.entries[Video][taken[Video] + 1].pos
  THEN Audio ELSE Video

TakeEntry(f, m) ==
  LET s == FirstLeft(f, m.taken)
      e == f.entries[s][m.taken[s] + 1]
  IN [taken |-> [m.taken EXCEPT ![s] = @ + 1],
      idx1 |-> Append(m.idx1, [stream |-> s, pos |-> e.pos, len |-> e.len, key |-> e.key])]

NoneTaken == [taken |-> [s \in Streams |-> 0], idx1 |-> <<>>]

Merged(f) ==
  LET n == Len(f.entries[Video]) + Len(f.entries[Audio])
      m[k \in 0 .. n] == IF k = 0 THEN NoneTaken ELSE TakeEntry(f, m[k - 1])
  IN m[n].idx1

avi_write_idx1(f) ==
  avi_write_counters([f EXCEPT !.idx1 = Merged(f), !.end = @ + 8 + 16 * Len(Merged(f))])

(* Mutant: the part is closed before its index.                            *)
ClosedFirst(f, id) == IF id = 1 THEN avi_write_idx1(CloseRiff(f, id)) ELSE CloseRiff(f, id)
CloseIndexed(f, id) == IF id = 1 THEN CloseRiff(avi_write_idx1(f), id) ELSE CloseRiff(f, id)

NextRiff(f, id) == avi_add_new_riff(CloseIndexed(CloseMovi(avi_write_ix(f), id), id))
-----------------------------------------------------------------------------
(***************************************************************************)
(* A packet.                                                               *)
(***************************************************************************)
Exceeds(f, id) == f.end - f.riffs[id].start > MaxRiff

(* The part id is the last one when the caller looked.                     *)
Counted(f, s) == [f EXCEPT !.packet_count[s] = @ + 1]
InPart(f, s, id) ==
  IF Exceeds(f, id) THEN NextRiff(Counted(f, s), id) ELSE Counted(f, s)

StoreChunk(f, p) ==
  [f EXCEPT !.strm_length = IF p.stream = Audio THEN @ + p.len ELSE @,
            !.entries[p.stream] =
               Append(@, [pos |-> f.end - f.riffs[LastRiff(f)].movi, len |-> p.len, key |-> p.key]),
            !.end = @ + 8 + p.len + (p.len % 2)]

(* The file and the chunks in it, chunk by chunk.                          *)
WriteChunk(a, p, id) ==
  LET f == InPart(a.file, p.stream, id)
  IN [file |-> StoreChunk(f, p),
      chunks |-> Append(a.chunks, [stream |-> p.stream, riff |-> LastRiff(f),
                                   data |-> f.end + 8, len |-> p.len, key |-> p.key])]

(* Empty packets until the stream has as many as dts says.                 *)
Empty(s) == [stream |-> s, len |-> 0, key |-> FALSE]
WriteEmpty(a, s) == WriteChunk(a, Empty(s), LastRiff(a.file))
CatchUp(a, s, n) ==
  LET b[k \in 0 .. n] == IF k = 0 THEN a ELSE WriteEmpty(b[k - 1], s)
  IN b[n]

(* The last part is looked up before the empty packets are written.        *)
avi_write_packet(p, ahead) ==
  LET riff == LastRiff(avi)
      a    == CatchUp([file |-> avi, chunks |-> chunks], p.stream, ahead)
      b    == WriteChunk(a, p, riff)
  IN /\ avi' = b.file /\ chunks' = b.chunks
     /\ split' = (split \/ LastRiff(a.file) # riff)

Packets ==
  [stream : {Video}, len : Lengths, key : BOOLEAN] \cup [stream : {Audio}, len : Lengths, key : {TRUE}]

AviWrite ==
  /\ aviOpen /\ Len(chunks) < MaxChunks
  /\ \E p \in Packets, ahead \in Ahead : avi_write_packet(p, ahead)
  /\ UNCHANGED <<aviOpen, mpegAudio>>

(* avi_close: a file of one part has idx1 only, one of several is OpenDML. *)
OdmlFrames(f) == f.packet_count[Video] + (IF mpegAudio THEN f.packet_count[Audio] ELSE 0)

avi_close(f) ==
  LET id == LastRiff(f)
      g  == IF id = 1
            THEN CloseRiff(avi_write_idx1(CloseMovi(f, id)), id)
            ELSE LET h == CloseRiff(CloseMovi(avi_write_ix(f), id), id)
                 IN avi_write_counters([h EXCEPT !.odml = OdmlFrames(h)])
  IN [g EXCEPT !.entries = clean_indexes(g)]

AviClose ==
  /\ aviOpen /\ aviOpen' = FALSE
  /\ avi' = avi_close(avi)
  /\ UNCHANGED <<chunks, split, mpegAudio>>

NoIx == [at |-> 0, base |-> 0, entries |-> <<>>]
EmptyAvi ==
  [end |-> 0, riffs |-> <<>>, entries |-> [s \in Streams |-> <<>>],
   master |-> [s \in Streams |-> [id \in 1 .. MaxMaster |-> NoIx]], idx1 |-> <<>>,
   packet_count |-> [s \in Streams |-> 0], strm_length |-> 0,
   frames_hdr |-> [s \in Streams |-> 0], frames_hdr_all |-> 0, odml |-> 0]

AviInit ==
  /\ avi = avi_add_new_riff(EmptyAvi)
  /\ chunks = <<>> /\ split = FALSE /\ aviOpen = TRUE
  /\ mpegAudio \in BOOLEAN

AviNext == AviWrite \/ AviClose

AviSpec == AviInit /\ [][AviNext]_aviVars
-----------------------------------------------------------------------------
(***************************************************************************)
(* Properties, of a file that was closed.                                  *)
(***************************************************************************)
AviTypeOK ==
  /\ avi.end \in Nat /\ avi.packet_count \in [Streams -> Nat]
  /\ \A id \in 1 .. LastRiff(avi) : avi.riffs[id] \in [start : Nat, movi : Nat, size : Nat, moviSize : Nat]
  /\ split \in BOOLEAN /\ aviOpen \in BOOLEAN /\ mpegAudio \in BOOLEAN

RiffEnd(id) == avi.riffs[id].start + avi.riffs[id].size
MoviEnd(id) == avi.riffs[id].movi + avi.riffs[id].moviSize

PartClosed(id) ==
  /\ RiffEnd(id) = (IF id = LastRiff(avi) THEN avi.end ELSE avi.riffs[id + 1].start - 8)
  /\ MoviEnd(id) + (IF id = 1 THEN 8 + 16 * Len(avi.idx1) ELSE 0) = RiffEnd(id)

ChunkInMovi(c) == avi.riffs[c.riff].movi < c.data /\ c.data + c.len <= MoviEnd(c.riff)

(* What an index leads to, and what the chunks of a stream in a part are.  *)
FoundBy(entries, base) == {[data |-> base + e.pos + 8, len |-> e.len, key |-> e.key] : e \in entries}
InFile(s, id) ==
  {[data |-> chunks[k].data, len |-> chunks[k].len, key |-> chunks[k].key] :
     k \in {j \in 1 .. Len(chunks) : chunks[j].stream = s /\ chunks[j].riff = id}}

Ascending(entries) == \A j, k \in 1 .. Len(entries) : j < k => entries[j].pos < entries[k].pos

(* A reader that follows the indexes finds every chunk of every stream, in *)
(* order, with its size and key flag: by the master index in each part of  *)
(* an OpenDML file it has room for, by idx1 in the first part.             *)
AviIndex ==
  (~aviOpen /\ ~split) =>
    /\ \A j, k \in 1 .. Len(chunks) : j < k => chunks[j].data + chunks[j].len <= chunks[k].data - 8
    /\ Ascending(avi.idx1)
    /\ \A s \in Streams :
         /\ FoundBy({e \in ToSet(avi.idx1) : e.stream = s}, avi.riffs[1].movi) = InFile(s, 1)
         /\ LastRiff(avi) > 1 => \A id \in 1 .. LastRiff(avi) : id <= MaxMaster =>
              LET ix == avi.master[s][id]
              IN /\ avi.riffs[id].movi < ix.at /\ ix.at + 32 + 8 * Len(ix.entries) <= MoviEnd(id)
                 /\ Ascending(ix.entries)
                 /\ FoundBy(ToSet(ix.entries), ix.base) = InFile(s, id)

FramesOf(s) == {k \in 1 .. Len(chunks) : chunks[k].stream = s}
Frames(s) == Cardinality(FramesOf(s))
Bytes(s) == Cardinality(UNION {{k} \X (1 .. chunks[k].len) : k \in FramesOf(s)})

(* What is patched in is that of the whole file, however many parts it     *)
(* has.  The parts follow each other without a gap, the size of each is    *)
(* that of what is in it, and the chunks lie in the movi list of their     *)
(* part, unless a part was filled by the empty packets that catch up with  *)
(* dts.  The headers count the frames and the bytes of sound; the total of *)
(* an OpenDML file counts the packets of MPEG sound as well.               *)
AviPatched ==
  ~aviOpen =>
    /\ ~split => (\A id \in 1 .. LastRiff(avi) : PartClosed(id))
                   /\ \A k \in 1 .. Len(chunks) : ChunkInMovi(chunks[k])
    /\ avi.frames_hdr = [s \in Streams |-> IF s = Video THEN Frames(s) ELSE Bytes(s)]
    /\ avi.frames_hdr_all = Frames(Video)
    /\ LastRiff(avi) > 1 => avi.odml = Frames(Video) + (IF mpegAudio THEN Frames(Audio) ELSE 0)
=============================================================================
