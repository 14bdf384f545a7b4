--------------------------- MODULE FileWriter_proofs ---------------------------
(***************************************************************************)
(* Proofs about the file writers and the stamps of what they write.        *)
(*                                                                         *)
(* The buffered writer (file_io.c) implements a file with random access    *)
(* for every size of the buffer and of the file.  What makes it inductive  *)
(* is PatchKept: whoever goes back into the buffer comes back to where the *)
(* buffer ended.                                                           *)
(*                                                                         *)
(* The AVI writer (avilib.c): AviInv says of the open file what the        *)
(* properties say of a closed one.  The parts before the last are closed   *)
(* and adjoin, their indexes find their chunks, and the entries that are   *)
(* kept find those of the last part; the counters are those of the chunks. *)
(*                                                                         *)
(* The Matroska writer (matroska.c): MkvInv says that the open file holds  *)
(* the packets that were written but the one that is kept back, in         *)
(* clusters that adjoin, and a cue for every keyframe among them.          *)
(*                                                                         *)
(* Last, what comes before a packet is written: the stamps that            *)
(* lavc_common.c keeps of the frames an encoder holds back, for every      *)
(* length of the array of stamps, every encoder and number of frames.      *)
(***************************************************************************)
EXTENDS FileWriter, AviFile, MkvFile, LavcQueue, FiniteSetTheorems, SequenceTheorems, WellFoundedInduction,
  TLAPS

(* What must hold whenever a caller runs.                                  *)
WriterInv == WriterTypeOK /\ PatchKept

USE BufferSizeAssumption, MaxFileAssumption

(* A seek of a caller, back or to the end, keeps the types.                *)
LEMMA SeekTyped ==
  ASSUME WriterInv, NEW p \in 0 .. MaxFile, io_seek(p),
         p <= size \/ (position = size /\ p - size < BufferSize)
  PROVE  /\ disk' \in [Places -> Cell \cup {Hole}]
         /\ size' \in 0 .. MaxFile /\ position' \in 0 .. MaxFile
         /\ buffer' = buffer /\ buf_ptr' \in 0 .. BufferSize - 1
<1> USE DEF WriterInv, WriterTypeOK, PatchKept, Places, io_get_offset
<1>1. CASE OnFile(p)
  <2>1. SeekOnFile(p)
    BY <1>1 DEF io_seek
  <2>2. disk' \in [Places -> Cell \cup {Hole}]
    BY <2>1 DEF SeekOnFile, FlushTo
  <2>. QED
    BY <2>1, <2>2, <1>1 DEF SeekOnFile, FlushTo, OnFile
<1>2. CASE ~OnFile(p)
  BY <1>2 DEF io_seek, SeekInBuffer, OnFile
<1>. QED
  BY <1>1, <1>2

(* A cell is stored at the buffer pointer; only a full buffer is flushed.  *)
LEMMA WriteTyped ==
  ASSUME WriterInv, NEW c \in Cell, io_get_offset < MaxFile, io_write_w8(c)
  PROVE  /\ disk' \in [Places -> Cell \cup {Hole}]
         /\ size' \in 0 .. MaxFile /\ position' \in 0 .. MaxFile
         /\ buffer' \in [0 .. BufferSize - 1 -> Cell \cup {Hole}]
         /\ buf_ptr' \in 0 .. BufferSize - 1
         /\ io_get_offset' = io_get_offset + 1
         /\ \/ buf_ptr' = buf_ptr + 1 /\ position' = position /\ size' = size
            \/ /\ buf_ptr' = 0 /\ buf_ptr + 1 = BufferSize
               /\ size' = IF position + buf_ptr + 1 > size THEN position + buf_ptr + 1 ELSE size
<1> USE DEF WriterInv, WriterTypeOK, PatchKept, Places, io_get_offset
<1>1. buffer' \in [0 .. BufferSize - 1 -> Cell \cup {Hole}]
  BY DEF io_write_w8, Store
<1>2. CASE Filled(buf_ptr + 1)
  <2>1. FlushTo(buffer', buf_ptr + 1, position + buf_ptr + 1)
    BY <1>2 DEF io_write_w8
  <2>2. buf_ptr + 1 = BufferSize
    BY <1>2 DEF Filled
  <2>3. disk' \in [Places -> Cell \cup {Hole}]
    BY <2>1, <2>2, <1>1 DEF FlushTo
  <2>. QED
    BY <2>1, <2>2, <2>3, <1>1 DEF FlushTo
<1>3. CASE ~Filled(buf_ptr + 1)
  BY <1>1, <1>3 DEF io_write_w8, Filled
<1>. QED
  BY <1>2, <1>3

(* The writer keeps to its buffer and a patch to what it must restore.     *)
THEOREM WriterInvariant == WriterSpec => []WriterInv
<1>1. WriterInit => WriterInv
  BY DEF WriterInit, WriterInv, WriterTypeOK, PatchKept, Patching, NoPatch, io_get_offset
<1>2. WriterInv /\ [WriterNext]_writerVars => WriterInv'
  <2> SUFFICES ASSUME WriterInv, [WriterNext]_writerVars PROVE WriterInv'
    OBVIOUS
  <2>0. /\ size \in 0 .. MaxFile /\ position \in 0 .. MaxFile /\ buf_ptr \in 0 .. BufferSize - 1
        /\ resume \in {NoPatch} \cup 0 .. MaxFile /\ NoPatch = -1
        /\ buffer \in [0 .. BufferSize - 1 -> Cell \cup {Hole}]
    BY DEF WriterInv, WriterTypeOK, NoPatch
  <2>1. ASSUME NEW c \in Cell, AppendCell(c) PROVE WriterInv'
    BY <2>0, <2>1, WriteTyped DEF AppendCell, WriterInv, WriterTypeOK, PatchKept, Patching, io_get_offset
  <2>2. ASSUME NEW c \in Cell, Patch(c) PROVE WriterInv'
    <3>1. io_get_offset < MaxFile /\ io_write_w8(c) /\ UNCHANGED resume
      BY <2>0, <2>2 DEF Patch, io_get_offset
    <3>2. PatchKept'
      BY <2>0, <2>2, <3>1, WriteTyped DEF Patch, WriterInv, PatchKept, Patching, io_get_offset
    <3>. QED
      BY <2>0, <3>1, <3>2, WriteTyped DEF WriterInv, WriterTypeOK
  <2>3. CASE FlushBuffer
    <3>1. SeekOnFile(io_get_offset) /\ UNCHANGED resume /\ ~Patching
      BY <2>3 DEF FlushBuffer
    <3>2. disk' \in [Places -> Cell \cup {Hole}]
      BY <2>0, <3>1 DEF SeekOnFile, FlushTo, Places, WriterInv, WriterTypeOK
    <3>. QED
      BY <2>0, <3>1, <3>2 DEF SeekOnFile, FlushTo, WriterInv, WriterTypeOK, PatchKept, Patching, io_get_offset
  <2>4. ASSUME NEW p \in Places, StartPatch(p) PROVE WriterInv'
    <3>1. io_seek(p) /\ resume' = io_get_offset /\ p < io_get_offset /\ position = size
      BY <2>4 DEF StartPatch, WriterInv, PatchKept
    <3>2. p \in 0 .. MaxFile /\ p - size < BufferSize /\ io_get_offset \in 0 .. MaxFile
      BY <2>0, <3>1 DEF Places, io_get_offset, WriterInv, PatchKept
    <3>3. WriterTypeOK'
      BY <2>0, <3>1, <3>2, SeekTyped DEF WriterInv, WriterTypeOK
    <3>4. PatchKept'
      BY <2>0, <3>1, <3>2
         DEF PatchKept, Patching, io_get_offset, io_seek, OnFile, SeekOnFile, SeekInBuffer, FlushTo
    <3>. QED
      BY <3>3, <3>4 DEF WriterInv
  <2>5. ASSUME NEW p \in Places, SeekOn(p) PROVE WriterInv'
    <3>1. p \in 0 .. MaxFile /\ p <= size /\ io_seek(p) /\ UNCHANGED resume /\ p < resume /\ Patching /\ resume <= size
      BY <2>0, <2>5 DEF SeekOn, SeveralPlaces, Places, Patching
    <3>2. WriterTypeOK'
      BY <2>0, <3>1, SeekTyped DEF WriterInv, WriterTypeOK
    <3>3. PatchKept'
      BY <2>0, <3>1
         DEF WriterInv, PatchKept, Patching, io_get_offset, io_seek, OnFile, SeekOnFile, FlushTo
    <3>. QED
      BY <3>2, <3>3 DEF WriterInv
  <2>6. ASSUME NEW amount \in 1 .. MaxFile, SkipOn(amount) PROVE WriterInv'
    <3>1. /\ SeekOnFile(position + buf_ptr + amount) /\ UNCHANGED resume
          /\ position + buf_ptr + amount < resume /\ Patching /\ resume <= size
      BY <2>6 DEF SkipOn, SeveralPlaces, io_skip, io_get_offset
    <3>2. disk' \in [Places -> Cell \cup {Hole}]
      BY <2>0, <3>1 DEF SeekOnFile, FlushTo, Places, WriterInv, WriterTypeOK, PatchKept, io_get_offset
    <3>. QED
      BY <2>0, <3>1, <3>2 DEF SeekOnFile, FlushTo, WriterInv, WriterTypeOK, PatchKept, Patching, io_get_offset
  <2>7. CASE EndPatch
    <3>1. io_seek(resume) /\ resume' = NoPatch /\ resume \in 0 .. MaxFile
      BY <2>0, <2>7 DEF EndPatch, Patching
    <3>2. WriterTypeOK'
      BY <2>0, <2>7, <3>1, SeekTyped DEF EndPatch, WriterInv, WriterTypeOK, PatchKept
    <3>3. PatchKept'
      BY <2>0, <2>7, <3>1
         DEF EndPatch, WriterInv, PatchKept, Patching, io_get_offset, io_seek, OnFile, SeekOnFile,
             SeekInBuffer, FlushTo
    <3>. QED
      BY <3>2, <3>3 DEF WriterInv
  <2>8. CASE UNCHANGED writerVars
    BY <2>8 DEF writerVars, WriterInv, WriterTypeOK, PatchKept, Patching, io_get_offset
  <2>. QED
    BY <2>1, <2>2, <2>3, <2>4, <2>5, <2>6, <2>7, <2>8 DEF WriterNext
<1>. QED
  BY <1>1, <1>2, PTL DEF WriterSpec
-----------------------------------------------------------------------------
(***************************************************************************)
(* Every step of the writer is a step of the file, or none.                *)
(***************************************************************************)

(* A write puts one cell where the callers think they are.                 *)
LEMMA WriteIsPut ==
  ASSUME WriterInv, WriterInv', NEW c \in Cell, io_get_offset < MaxFile, io_write_w8(c),
         resume' = resume, Patching => io_get_offset < resume
  PROVE  File!Put(c)
<1>1. io_get_offset' = io_get_offset + 1
  BY WriteTyped
<1>0. io_get_offset \in Nat /\ resume \in Int
  BY DEF WriterInv, WriterTypeOK, io_get_offset, NoPatch
<1>3. FileLength' = IF io_get_offset' > FileLength THEN io_get_offset' ELSE FileLength
  <2>1. Patching' <=> Patching
    BY DEF Patching
  <2>2. CASE Patching
    <3>1. FileLength = resume /\ FileLength' = resume
      BY <2>1, <2>2 DEF FileLength
    <3>. QED
      BY <1>0, <1>1, <2>2, <3>1
  <2>3. CASE ~Patching
    <3>1. FileLength = io_get_offset /\ FileLength' = io_get_offset'
      BY <2>1, <2>3 DEF FileLength
    <3>. QED
      BY <1>0, <1>1, <3>1
  <2>. QED
    BY <2>2, <2>3
<1> USE DEF WriterInv, WriterTypeOK, PatchKept, Places, io_get_offset, Patching, NoPatch
<1>2. FileCells' = [FileCells EXCEPT ![io_get_offset] = c]
  <2> SUFFICES ASSUME NEW p \in Places
               PROVE  FileCells'[p] = IF p = io_get_offset THEN c ELSE FileCells[p]
    BY DEF FileCells
  <2>1. CASE Filled(buf_ptr + 1)
    <3>1. FlushTo(buffer', buf_ptr + 1, position + buf_ptr + 1) /\ buffer' = [buffer EXCEPT ![buf_ptr] = c]
      BY <2>1 DEF io_write_w8, Store
    <3>2. buf_ptr + 1 = BufferSize
      BY <2>1 DEF Filled
    <3>3. ~InBuffer(p)'
      BY <3>1, <3>2 DEF InBuffer, FlushTo
    <3>4. FileCells'[p] = disk'[p]
      BY <3>3 DEF FileCells
    <3>. QED
      BY <3>1, <3>2, <3>4 DEF FileCells, FlushTo, InBuffer
  <2>2. CASE ~Filled(buf_ptr + 1)
    <3>1. /\ buf_ptr' = buf_ptr + 1 /\ UNCHANGED <<disk, size, position, resume>>
          /\ buffer' = [buffer EXCEPT ![buf_ptr] = c]
      BY <2>2 DEF io_write_w8, Store
    <3>. QED
      BY <3>1 DEF FileCells, InBuffer
  <2>. QED
    BY <2>1, <2>2
<1>. QED
  BY <1>1, <1>2, <1>3 DEF File!Put

(* A seek on the file, or to where a patch in the buffer is, moves.        *)
LEMMA SeekIsMove ==
  ASSUME WriterInv, WriterInv', NEW p \in 0 .. MaxFile, io_seek(p), FileLength' = FileLength, p <= FileLength,
         \/ p <= size /\ (Patching => resume <= size)
         \/ p > size /\ position = size /\ Patching'
         \/ p > size /\ position = size /\ Patching /\ p = resume
  PROVE  File!Move(p)
<1>0. /\ size \in Nat /\ position \in Nat /\ buf_ptr \in Nat /\ p \in Nat
      /\ resume \in {-1} \cup Nat /\ resume' \in {-1} \cup Nat
      /\ position + buf_ptr <= MaxFile /\ (resume = -1 => position = size)
      /\ resume # -1 => position + buf_ptr <= resume
      /\ resume # -1 => resume = size \/ (size < resume /\ position = size)
  BY DEF WriterInv, WriterTypeOK, PatchKept, io_get_offset, Patching, NoPatch
<1>a. Places \subseteq Nat
  BY DEF Places
<1> USE DEF io_get_offset, Patching, NoPatch
<1>1. io_get_offset' = p
  <2>1. CASE OnFile(p)
    BY <1>0, <2>1 DEF io_seek, SeekOnFile, FlushTo
  <2>2. CASE ~OnFile(p)
    BY <1>0, <2>2 DEF io_seek, SeekInBuffer, OnFile
  <2>. QED
    BY <2>1, <2>2
<1>2. ASSUME NEW q \in Places PROVE FileCells'[q] = FileCells[q]
  <2>0. q \in Nat
    BY <1>a
  <2>1. CASE OnFile(p)
    <3>1. FlushTo(buffer, buf_ptr, p)
      BY <2>1 DEF io_seek, SeekOnFile
    <3>2. p <= size /\ (resume # -1 => resume <= size)
      BY <1>0, <2>1 DEF OnFile
    <3>3. ~InBuffer(q)'
      <4>1. buf_ptr' = 0 /\ position' = p /\ size' = IF buf_ptr > size - position THEN position + buf_ptr ELSE size
        BY <3>1 DEF FlushTo
      <4>2. resume' # -1 => resume' <= size'
        BY <1>0, <3>2, <4>1 DEF FileLength
      <4>. QED
        BY <1>0, <2>0, <4>1, <4>2 DEF InBuffer
    <3>4. FileCells'[q] = disk'[q]
      BY <3>3 DEF FileCells
    <3>5. InBuffer(q) <=> position <= q /\ q < position + buf_ptr
      BY <1>0, <2>0, <3>2 DEF InBuffer
    <3>. QED
      BY <3>1, <3>4, <3>5 DEF FileCells, FlushTo
  <2>2. CASE ~OnFile(p)
    <3>1. /\ disk' = disk /\ size' = size /\ buffer' = buffer /\ position' = size /\ buf_ptr' = p - size
          /\ p > size /\ position = size
      BY <1>0, <2>2 DEF io_seek, SeekInBuffer, OnFile
    <3>2. p <= FileLength /\ FileLength' = FileLength
      OBVIOUS
    <3>3. InBuffer(q)' <=> InBuffer(q)
      <4>1. CASE resume = -1
        <5>1. resume' # -1 /\ FileLength = position + buf_ptr /\ FileLength' = resume'
          BY <1>0, <3>1, <4>1 DEF FileLength
        <5>. QED
          BY <1>0, <2>0, <3>1, <3>2, <4>1, <5>1 DEF InBuffer
      <4>2. CASE resume # -1
        <5>1. FileLength = resume
          BY <4>2 DEF FileLength
        <5>2. FileLength' = IF resume' # -1 THEN resume' ELSE p
          BY <1>1 DEF FileLength
        <5>. QED
          BY <1>0, <2>0, <3>1, <3>2, <4>2, <5>1, <5>2 DEF InBuffer
      <4>. QED
        BY <4>1, <4>2
    <3>. QED
      BY <3>1, <3>3 DEF FileCells
  <2>. QED
    BY <2>1, <2>2
<1>3. FileCells' = FileCells
  BY <1>2 DEF FileCells
<1>. QED
  BY <1>1, <1>3 DEF File!Move

(* Every step of the writer is one of the file, or none.                   *)
LEMMA FileStep ==
  ASSUME WriterInv, WriterInv', [WriterNext]_writerVars
  PROVE  [File!FileNext]_(File!fileVars)
<1> USE DEF File!FileNext
<1>0. /\ size \in 0 .. MaxFile /\ position \in 0 .. MaxFile /\ buf_ptr \in 0 .. BufferSize - 1
      /\ resume \in {NoPatch} \cup 0 .. MaxFile /\ NoPatch = -1
  BY DEF WriterInv, WriterTypeOK, NoPatch
<1>1. ASSUME NEW c \in Cell, AppendCell(c) PROVE File!Put(c)
  BY <1>1, WriteIsPut DEF AppendCell
<1>2. ASSUME NEW c \in Cell, Patch(c) PROVE File!Put(c)
  <2>1. io_get_offset < MaxFile /\ io_get_offset < resume /\ io_write_w8(c) /\ resume' = resume
    BY <1>0, <1>2 DEF Patch, io_get_offset
  <2>. QED
    BY <2>1, WriteIsPut
<1>3. CASE FlushBuffer
  <2>1. FlushTo(buffer, buf_ptr, position + buf_ptr) /\ UNCHANGED <<buffer, resume>> /\ ~Patching /\ position = size
    BY <1>3 DEF FlushBuffer, SeekOnFile, io_get_offset, WriterInv, PatchKept
  <2>2. ASSUME NEW p \in Places PROVE FileCells'[p] = FileCells[p]
    BY <1>0, <2>1 DEF FileCells, InBuffer, FlushTo, Places, Patching, io_get_offset
  <2>3. FileCells' = FileCells
    BY <2>2 DEF FileCells
  <2>4. io_get_offset' = io_get_offset /\ FileLength' = FileLength
    BY <1>0, <2>1 DEF FlushTo, io_get_offset, FileLength, Patching
  <2>. QED
    BY <2>3, <2>4 DEF File!fileVars
<1>4. ASSUME NEW p \in Places, StartPatch(p) PROVE p \in 0 .. FileLength /\ File!Move(p)
  <2>1. /\ io_seek(p) /\ resume' = io_get_offset /\ p < io_get_offset /\ ~Patching /\ position = size
        /\ p \in 0 .. MaxFile /\ io_get_offset \in 0 .. MaxFile
    BY <1>0, <1>4 DEF StartPatch, Places, WriterInv, PatchKept, io_get_offset
  <2>2. Patching' /\ FileLength' = FileLength
    BY <1>0, <2>1 DEF FileLength, Patching
  <2>. QED
    BY <1>0, <2>1, <2>2, SeekIsMove DEF FileLength
<1>5. ASSUME NEW p \in Places, SeekOn(p) PROVE p \in 0 .. FileLength /\ File!Move(p)
  <2>1. /\ io_seek(p) /\ resume' = resume /\ Patching /\ resume <= size /\ p < resume
        /\ p \in 0 .. MaxFile /\ FileLength' = FileLength
    BY <1>5 DEF SeekOn, SeveralPlaces, Places, FileLength, Patching
  <2>. QED
    BY <1>0, <2>1, SeekIsMove DEF FileLength, Patching
<1>6. ASSUME NEW amount \in 1 .. MaxFile, SkipOn(amount)
      PROVE  \E p \in 0 .. FileLength : File!Move(p)
  <2> DEFINE to == position + buf_ptr + amount
  <2>1. SeekOnFile(to) /\ resume' = resume /\ Patching /\ resume <= size /\ to < resume /\ to \in 0 .. MaxFile
    BY <1>0, <1>6 DEF SkipOn, SeveralPlaces, io_skip, io_get_offset, Patching
  <2>2. io_seek(to) /\ to <= size /\ FileLength' = FileLength
    BY <1>0, <2>1 DEF io_seek, OnFile, FileLength, Patching
  <2>3. to \in 0 .. FileLength
    BY <1>0, <2>1 DEF FileLength, Patching
  <2>4. File!Move(to)
    <3>1. to <= FileLength
      BY <2>3
    <3>. QED
      BY <2>1, <2>2, <3>1, SeekIsMove
  <2>. QED
    BY <2>3, <2>4
<1>7. CASE EndPatch
  <2>1. io_seek(resume) /\ resume' = NoPatch /\ Patching /\ resume \in 0 .. MaxFile
    BY <1>0, <1>7 DEF EndPatch, Patching
  <2>2. io_get_offset' = resume
    BY <1>0, <2>1 DEF io_seek, OnFile, SeekOnFile, SeekInBuffer, FlushTo, io_get_offset
  <2>3. FileLength' = FileLength
    BY <2>1, <2>2 DEF FileLength, Patching
  <2>4. resume = size \/ (size < resume /\ position = size)
    BY <2>1 DEF WriterInv, PatchKept
  <2>5. resume \in 0 .. FileLength /\ resume <= FileLength
    BY <1>0, <2>1 DEF FileLength
  <2>6. File!Move(resume)
    <3>1. CASE resume <= size
      BY <2>1, <2>3, <2>5, <3>1, SeekIsMove
    <3>2. CASE resume > size
      BY <1>0, <2>1, <2>3, <2>4, <2>5, <3>2, SeekIsMove
    <3>. QED
      BY <1>0, <2>1, <3>1, <3>2
  <2>. QED
    BY <2>5, <2>6
<1>8. CASE UNCHANGED writerVars
  BY <1>8 DEF writerVars, File!fileVars, FileCells, FileLength, InBuffer, Patching, io_get_offset
<1>. QED
  BY <1>1, <1>2, <1>3, <1>4, <1>5, <1>6, <1>7, <1>8 DEF WriterNext

(* Whatever the muxers write and go back to, for every size of the buffer, *)
(* ends on the file where they put it: the buffered writer is a file with  *)
(* random access as long as a patch is made in one place or after a flush. *)
THEOREM WriterIsFile == WriterSpec => ImplementsFile
<1>1. WriterInit => File!FileInit
  <2> SUFFICES ASSUME WriterInit PROVE File!FileInit
    OBVIOUS
  <2>1. io_get_offset = 0 /\ ~Patching /\ resume = -1
    BY DEF WriterInit, io_get_offset, Patching, NoPatch
  <2>2. FileCells = [p \in Places |-> Hole]
    BY <2>1 DEF WriterInit, FileCells, InBuffer, Places
  <2>. QED
    BY <2>1, <2>2 DEF File!FileInit, FileLength, Places
<1>. QED
  BY <1>1, WriterInvariant, FileStep, PTL DEF WriterSpec, ImplementsFile, File!FileSpec
-----------------------------------------------------------------------------
(* The elements of a sequence by their places.                             *)
LEMMA ElementsOf ==
  ASSUME NEW S, NEW q \in Seq(S)
  PROVE  ToSet(q) = {q[i] : i \in 1 .. Len(q)}
<1>1. DOMAIN q = 1 .. Len(q)
  OBVIOUS
<1>. QED
  BY <1>1, Zenon DEF ToSet

(* Induction on a set of naturals: a number that is missing would be the   *)
(* least one.                                                              *)
LEMMA NatInductionOnSet ==
  ASSUME NEW S, 0 \in S, \A k \in Nat : k \in S => k + 1 \in S
  PROVE  Nat \subseteq S
<1> DEFINE T == Nat \ S
<1> SUFFICES ASSUME T # {} PROVE FALSE
  OBVIOUS
<1>1. T \subseteq Nat
  OBVIOUS
<1> HIDE DEF T
<1>2. PICK x \in T : \A y \in T : <<y, x>> \notin OpToRel(<, Nat)
  BY <1>1, NatLessThanWellFounded, WFMin, Zenon
<1> USE DEF T
<1>3. x \in Nat /\ x # 0 /\ x \notin S
  BY <1>2
<1>4. x - 1 \in Nat /\ x - 1 < x /\ x - 1 + 1 = x
  BY <1>3
<1>5. <<x - 1, x>> \in OpToRel(<, Nat)
  BY <1>3, <1>4 DEF OpToRel
<1>6. x - 1 \in S
  BY <1>2, <1>4, <1>5
<1>. QED
  BY <1>3, <1>4, <1>6

(* What holds of h[0], and of h[k] when it holds of h[k - 1], holds of     *)
(* all.                                                                    *)
LEMMA FamilyInduction ==
  ASSUME NEW n \in Nat, NEW T, NEW h, h[0] \in T[0],
         \A k \in 1 .. n : h[k - 1] \in T[k - 1] => h[k] \in T[k]
  PROVE  \A k \in 0 .. n : h[k] \in T[k]
<1> DEFINE S == {k \in Nat : k <= n => h[k] \in T[k]}
<1>1. 0 \in S
  OBVIOUS
<1>2. ASSUME NEW k \in Nat, k \in S PROVE k + 1 \in S
  <2> SUFFICES ASSUME k + 1 <= n PROVE h[k + 1] \in T[k + 1]
    OBVIOUS
  <2>1. k + 1 \in 1 .. n /\ k + 1 - 1 = k /\ k <= n
    OBVIOUS
  <2>. QED
    BY <1>2, <2>1
<1> HIDE DEF S
<1>3. Nat \subseteq S
  BY <1>1, <1>2, NatInductionOnSet
<1>. QED
  BY <1>3 DEF S

(* What the recursive function of a model is: a, then G of the one before. *)
Iterates(n, a, G, g) == g = [k \in 0 .. n |-> IF k = 0 THEN a ELSE G[g[k - 1]]]

(* A function that is defined by recursion on 0 .. n exists.               *)
LEMMA FunctionByRecursion ==
  ASSUME NEW n \in Nat, NEW a, NEW G
  PROVE  \E g : Iterates(n, a, G, g)
<1> DEFINE Up(g, j) == g = [k \in 0 .. j |-> IF k = 0 THEN a ELSE G[g[k - 1]]]
           S == {j \in Nat : \E g : Up(g, j)}
<1>1. 0 \in S
  <2>1. Up([k \in 0 .. 0 |-> a], 0)
    OBVIOUS
  <2>. QED
    BY <2>1
<1>2. ASSUME NEW j \in Nat, j \in S PROVE j + 1 \in S
  <2>1. PICK g : Up(g, j)
    BY <1>2
  <2> DEFINE f == [k \in 0 .. j + 1 |-> IF k = j + 1 THEN G[g[j]] ELSE g[k]]
             e == [k \in 0 .. j + 1 |-> IF k = 0 THEN a ELSE G[f[k - 1]]]
  <2>2. ASSUME NEW k \in 0 .. j + 1 PROVE f[k] = e[k]
    <3>1. CASE k = j + 1
      <4>1. k - 1 = j /\ j \in 0 .. j + 1 /\ k # 0 /\ j # j + 1
        BY <3>1
      <4>. QED
        BY <3>1, <4>1
    <3>2. CASE k # j + 1
      <4>1. k \in 0 .. j /\ (k # 0 => k - 1 \in 0 .. j + 1 /\ k - 1 # j + 1)
        BY <3>2
      <4>2. g[k] = IF k = 0 THEN a ELSE G[g[k - 1]]
        BY <2>1, <4>1
      <4>. QED
        BY <3>2, <4>1, <4>2
    <3>. QED
      BY <3>1, <3>2
  <2>3. f = e
    BY <2>2
  <2>4. Up(f, j + 1)
    BY <2>3
  <2> HIDE DEF f, Up
  <2>. QED
    BY <2>4
<1> HIDE DEF S
<1>3. n \in S
  BY <1>1, <1>2, NatInductionOnSet
<1>. QED
  BY <1>3 DEF S, Iterates
-----------------------------------------------------------------------------
(* The AVI writer: what the records of the file are.                       *)
Riff == [start : Nat, movi : Nat, size : Nat, moviSize : Nat]
Entry == [pos : Nat, len : Nat, key : BOOLEAN]
Ix == [at : Nat, base : Nat, entries : Seq(Entry)]
IdxEntry == [stream : Streams, pos : Nat, len : Nat, key : BOOLEAN]
Chunk == [stream : Streams, riff : Nat, data : Nat, len : Nat, key : BOOLEAN]
AviRec ==
  [end : Nat, riffs : Seq(Riff), entries : [Streams -> Seq(Entry)],
   master : [Streams -> [1 .. MaxMaster -> Ix]], idx1 : Seq(IdxEntry),
   packet_count : [Streams -> Nat], strm_length : Nat,
   frames_hdr : [Streams -> Nat], frames_hdr_all : Nat, odml : Nat]

ChunksOf(ch, s) == {k \in 1 .. Len(ch) : ch[k].stream = s}
BytesOf(ch, s) == UNION {{k} \X (1 .. ch[k].len) : k \in ChunksOf(ch, s)}

(* The entries of the last part are in order and before the end.           *)
EntriesOK(f) ==
  /\ \A s \in Streams :
       /\ Ascending(f.entries[s])
       /\ \A j \in 1 .. Len(f.entries[s]) : f.riffs[LastRiff(f)].movi + f.entries[s][j].pos + 8 <= f.end
  /\ \A i \in 1 .. Len(f.entries[Video]), j \in 1 .. Len(f.entries[Audio]) :
       f.entries[Video][i].pos # f.entries[Audio][j].pos

(* Whatever happened to the parts: they begin before the end of the file,  *)
(* and the counters are those of the chunks.                               *)
SafeFile(f) ==
  /\ f \in AviRec /\ LastRiff(f) > 0 /\ EntriesOK(f)
  /\ \A id \in 1 .. LastRiff(f) : f.riffs[id].start <= f.riffs[id].movi /\ f.riffs[id].movi + 4 <= f.end
Counts(f, ch) ==
  /\ ch \in Seq(Chunk)
  /\ \A s \in Streams : f.packet_count[s] = Cardinality(ChunksOf(ch, s))
  /\ f.strm_length = Cardinality(BytesOf(ch, Audio))
SafeOK(f, ch) == SafeFile(f) /\ Counts(f, ch)

(* The parts before the last are closed, and follow each other.            *)
EndOfMovi(f, id) == IF id < LastRiff(f) THEN f.riffs[id].movi + f.riffs[id].moviSize ELSE f.end
PartsOK(f) ==
  /\ \A id \in 1 .. LastRiff(f) - 1 :
       /\ f.riffs[id].start + f.riffs[id].size = f.riffs[id + 1].start - 8
       /\ EndOfMovi(f, id) + (IF id = 1 THEN 8 + 16 * Len(f.idx1) ELSE 0)
            = f.riffs[id].start + f.riffs[id].size
  /\ LastRiff(f) = 1 => f.idx1 = <<>>

(* The chunks lie in the movi lists of their parts, one behind the other.  *)
PlacedOK(f, ch) ==
  /\ \A k \in 1 .. Len(ch) :
       LET c == ch[k]
       IN /\ c.riff \in 1 .. LastRiff(f) /\ f.riffs[c.riff].movi < c.data
          /\ c.data + c.len <= EndOfMovi(f, c.riff) /\ c.data + c.len <= f.end
  /\ \A j, k \in 1 .. Len(ch) : j < k => ch[j].data + ch[j].len <= ch[k].data - 8

PartOf(ch, s, id) ==
  {[data |-> ch[k].data, len |-> ch[k].len, key |-> ch[k].key] :
     k \in {j \in 1 .. Len(ch) : ch[j].stream = s /\ ch[j].riff = id}}

IndexOK(f, ch) ==
  LET n == LastRiff(f)
  IN /\ \A s \in Streams :
          /\ FoundBy(ToSet(f.entries[s]), f.riffs[n].movi) = PartOf(ch, s, n)
          /\ \A id \in 1 .. n - 1 : id <= MaxMaster =>
               LET ix == f.master[s][id]
               IN /\ f.riffs[id].movi < ix.at /\ ix.at + 32 + 8 * Len(ix.entries) <= EndOfMovi(f, id)
                  /\ Ascending(ix.entries)
                  /\ FoundBy(ToSet(ix.entries), ix.base) = PartOf(ch, s, id)
     /\ n > 1 => /\ Ascending(f.idx1)
                 /\ \A s \in Streams :
                      FoundBy({e \in ToSet(f.idx1) : e.stream = s}, f.riffs[1].movi) = PartOf(ch, s, 1)

Layout(f, ch) == PartsOK(f) /\ PlacedOK(f, ch) /\ IndexOK(f, ch)

(* A file that was closed, by the chunks it was given.                     *)
RiffTo(f, id) == f.riffs[id].start + f.riffs[id].size
MoviTo(f, id) == f.riffs[id].movi + f.riffs[id].moviSize
SealedOK(f, ch) ==
  /\ \A id \in 1 .. LastRiff(f) :
       /\ RiffTo(f, id) = (IF id = LastRiff(f) THEN f.end ELSE f.riffs[id + 1].start - 8)
       /\ MoviTo(f, id) + (IF id = 1 THEN 8 + 16 * Len(f.idx1) ELSE 0) = RiffTo(f, id)
  /\ \A k \in 1 .. Len(ch) :
       f.riffs[ch[k].riff].movi < ch[k].data /\ ch[k].data + ch[k].len <= MoviTo(f, ch[k].riff)

CountsOK(f, ch, mpeg) ==
  /\ f.frames_hdr = [s \in Streams |-> IF s = Video THEN Cardinality(ChunksOf(ch, s)) ELSE Cardinality(BytesOf(ch, s))]
  /\ f.frames_hdr_all = Cardinality(ChunksOf(ch, Video))
  /\ LastRiff(f) > 1 =>
       f.odml = Cardinality(ChunksOf(ch, Video)) + (IF mpeg THEN Cardinality(ChunksOf(ch, Audio)) ELSE 0)

FoundOK(f, ch) ==
  /\ \A j, k \in 1 .. Len(ch) : j < k => ch[j].data + ch[j].len <= ch[k].data - 8
  /\ Ascending(f.idx1)
  /\ \A s \in Streams :
       /\ FoundBy({e \in ToSet(f.idx1) : e.stream = s}, f.riffs[1].movi) = PartOf(ch, s, 1)
       /\ LastRiff(f) > 1 => \A id \in 1 .. LastRiff(f) : id <= MaxMaster =>
            LET ix == f.master[s][id]
            IN /\ f.riffs[id].movi < ix.at /\ ix.at + 32 + 8 * Len(ix.entries) <= MoviTo(f, id)
               /\ Ascending(ix.entries)
               /\ FoundBy(ToSet(ix.entries), ix.base) = PartOf(ch, s, id)

AviInv ==
  /\ split \in BOOLEAN /\ aviOpen \in BOOLEAN /\ mpegAudio \in BOOLEAN
  /\ SafeOK(avi, chunks)
  /\ (aviOpen /\ ~split) => Layout(avi, chunks)
  /\ ~aviOpen => /\ CountsOK(avi, chunks, mpegAudio)
                 /\ ~split => SealedOK(avi, chunks) /\ FoundOK(avi, chunks)
-----------------------------------------------------------------------------
USE AviAssumption

(* idx1: k entries are merged, the first ones of each stream.              *)
Tagged(s, e) == [stream |-> s, pos |-> e.pos, len |-> e.len, key |-> e.key]
MergeRec == [taken : [Streams -> Nat], idx1 : Seq(IdxEntry)]
Left(f, m, s) == m.taken[s] + 1 .. Len(f.entries[s])
MergeOK(f, m, k) ==
  /\ m \in MergeRec /\ m.taken[Video] + m.taken[Audio] = k /\ Len(m.idx1) = k
  /\ \A s \in Streams : m.taken[s] <= Len(f.entries[s])
  /\ \A i \in 1 .. k : \E s \in Streams : \E j \in 1 .. m.taken[s] : m.idx1[i] = Tagged(s, f.entries[s][j])
  /\ \A s \in Streams : \A j \in 1 .. m.taken[s] : \E i \in 1 .. k : m.idx1[i] = Tagged(s, f.entries[s][j])
  /\ Ascending(m.idx1)
  /\ \A i \in 1 .. k : \A s \in Streams : \A j \in Left(f, m, s) : m.idx1[i].pos < f.entries[s][j].pos
EntryCount(f) == Len(f.entries[Video]) + Len(f.entries[Audio])

(* There are two streams, and they differ.                                 *)
LEMMA TwoStreams == Streams = {Video, Audio} /\ Video # Audio /\ Video \in Streams /\ Audio \in Streams
  BY DEF Streams, Video, Audio

(* An entry of idx1 is that of its stream.                                 *)
LEMMA TaggedFields ==
  ASSUME NEW s \in Streams, NEW e \in Entry
  PROVE  /\ Tagged(s, e) \in IdxEntry /\ Tagged(s, e).stream = s
         /\ Tagged(s, e).pos = e.pos /\ Tagged(s, e).len = e.len /\ Tagged(s, e).key = e.key
  BY DEF Tagged, IdxEntry, Entry

(* The next entry is left, and before all others that are left.            *)
LEMMA FirstLeftOK ==
  ASSUME NEW f, f.entries \in [Streams -> Seq(Entry)], EntriesOK(f), NEW k \in Nat, k < EntryCount(f),
         NEW m, MergeOK(f, m, k)
  PROVE  LET s == FirstLeft(f, m.taken)  j == m.taken[s] + 1
         IN /\ s \in Streams /\ j \in 1 .. Len(f.entries[s])
            /\ \A t \in Streams : \A i \in Left(f, m, t) :
                 <<t, i>> # <<s, j>> => f.entries[s][j].pos < f.entries[t][i].pos
<1> DEFINE s == FirstLeft(f, m.taken)  V == f.entries[Video]  A == f.entries[Audio]
           v == m.taken[Video]  a == m.taken[Audio]
<1>1. /\ V \in Seq(Entry) /\ A \in Seq(Entry) /\ Len(V) \in Nat /\ Len(A) \in Nat
      /\ v \in Nat /\ a \in Nat /\ v + a = k /\ v <= Len(V) /\ a <= Len(A)
      /\ k < Len(V) + Len(A)
  <2>1. m \in MergeRec /\ v + a = k /\ v <= Len(V) /\ a <= Len(A)
    BY TwoStreams DEF MergeOK
  <2>2. V \in Seq(Entry) /\ A \in Seq(Entry)
    BY TwoStreams
  <2>3. v \in Nat /\ a \in Nat
    BY <2>1, TwoStreams DEF MergeRec
  <2>4. Len(V) \in Nat /\ Len(A) \in Nat
    BY <2>2
  <2>5. k < Len(V) + Len(A)
    BY DEF EntryCount
  <2> HIDE DEF V, A, v, a
  <2>. QED
    BY <2>1, <2>2, <2>3, <2>4, <2>5
<1>2. /\ \A i \in 1 .. Len(V) : V[i] \in Entry
      /\ \A i \in 1 .. Len(A) : A[i] \in Entry
  BY <1>1
<1>3. /\ \A i \in 1 .. Len(V) : V[i].pos \in Nat
      /\ \A i \in 1 .. Len(A) : A[i].pos \in Nat
  BY <1>2 DEF Entry
<1>4. /\ \A i, j \in 1 .. Len(V) : i < j => V[i].pos < V[j].pos
      /\ \A i, j \in 1 .. Len(A) : i < j => A[i].pos < A[j].pos
      /\ \A i \in 1 .. Len(V), j \in 1 .. Len(A) : V[i].pos # A[j].pos
  BY TwoStreams DEF EntriesOK, Ascending
<1>5. s = IF a < Len(A) /\ (v < Len(V) => A[a + 1].pos < V[v + 1].pos) THEN Audio ELSE Video
  BY DEF FirstLeft
<1>6. Left(f, m, Video) = v + 1 .. Len(V) /\ Left(f, m, Audio) = a + 1 .. Len(A)
  BY DEF Left
<1> HIDE DEF s, V, A, v, a
<1>7. CASE a < Len(A) /\ (v < Len(V) => A[a + 1].pos < V[v + 1].pos)
  <2>1. s = Audio /\ a + 1 \in 1 .. Len(A)
    BY <1>1, <1>5, <1>7
  <2>2. ASSUME NEW i \in a + 1 .. Len(A), i # a + 1 PROVE A[a + 1].pos < A[i].pos
    BY <1>1, <1>4, <2>1, <2>2
  <2>3. ASSUME NEW i \in v + 1 .. Len(V) PROVE A[a + 1].pos < V[i].pos
    <3>1. v + 1 \in 1 .. Len(V) /\ i \in 1 .. Len(V) /\ v < Len(V)
      BY <1>1
    <3>2. i = v + 1 \/ V[v + 1].pos < V[i].pos
      BY <1>1, <1>4, <3>1
    <3>. QED
      BY <1>3, <1>7, <2>1, <3>1, <3>2
  <2>. QED
    BY <1>6, <2>1, <2>2, <2>3, TwoStreams DEF s, A, V, v, a
<1>8. CASE ~(a < Len(A) /\ (v < Len(V) => A[a + 1].pos < V[v + 1].pos))
  <2>1. s = Video /\ v + 1 \in 1 .. Len(V)
    BY <1>1, <1>5, <1>8
  <2>2. ASSUME NEW i \in v + 1 .. Len(V), i # v + 1 PROVE V[v + 1].pos < V[i].pos
    BY <1>1, <1>4, <2>1, <2>2
  <2>3. ASSUME NEW i \in a + 1 .. Len(A) PROVE V[v + 1].pos < A[i].pos
    <3>1. a + 1 \in 1 .. Len(A) /\ i \in 1 .. Len(A) /\ a < Len(A)
      BY <1>1
    <3>2. i = a + 1 \/ A[a + 1].pos < A[i].pos
      BY <1>1, <1>4, <3>1
    <3>3. ~(A[a + 1].pos < V[v + 1].pos) /\ V[v + 1].pos # A[a + 1].pos
      BY <1>4, <1>8, <2>1, <3>1
    <3>. QED
      BY <1>3, <2>1, <3>1, <3>2, <3>3
  <2>. QED
    BY <1>6, <2>1, <2>2, <2>3, TwoStreams DEF s, A, V, v, a
<1>. QED
  BY <1>7, <1>8

(* The merge of avi_write_idx1 stays right when it takes an entry more:    *)
(* all it has taken come before all that are left.                         *)
LEMMA TakeEntryOK ==
  ASSUME NEW f, f.entries \in [Streams -> Seq(Entry)], EntriesOK(f), NEW k \in Nat, k < EntryCount(f),
         NEW m, MergeOK(f, m, k)
  PROVE  MergeOK(f, TakeEntry(f, m), k + 1)
<1> DEFINE s == FirstLeft(f, m.taken)  j == m.taken[s] + 1  e == f.entries[s][j]
           q == TakeEntry(f, m)  new == Tagged(s, e)
<1>1. /\ s \in Streams /\ j \in 1 .. Len(f.entries[s])
      /\ \A t \in Streams : \A i \in Left(f, m, t) : <<t, i>> # <<s, j>> => e.pos < f.entries[t][i].pos
  BY FirstLeftOK
<1>2. q.taken = [m.taken EXCEPT ![s] = j] /\ q.idx1 = Append(m.idx1, new)
  BY DEF TakeEntry, Tagged
<1>3. /\ m.taken \in [Streams -> Nat] /\ m.idx1 \in Seq(IdxEntry) /\ Len(m.idx1) = k
      /\ m.taken[Video] + m.taken[Audio] = k
      /\ \A t \in Streams : m.taken[t] <= Len(f.entries[t])
  BY DEF MergeOK, MergeRec
<1>4. e \in Entry /\ m.taken[s] \in Nat /\ f.entries[s] \in Seq(Entry)
  BY <1>1, <1>3
<1>5. new \in IdxEntry /\ new.pos = e.pos
  BY <1>1, <1>4, TaggedFields
<1>6. q \in MergeRec
  <2>1. q.taken \in [Streams -> Nat]
    BY <1>1, <1>2, <1>3, <1>4
  <2>2. q.idx1 \in Seq(IdxEntry)
    BY <1>2, <1>3, <1>5
  <2>. QED
    BY <2>1, <2>2 DEF TakeEntry, MergeRec
<1> HIDE DEF s, j, e, q, new
<1>7. /\ q.taken[s] = m.taken[s] + 1 /\ \A t \in Streams : t # s => q.taken[t] = m.taken[t]
      /\ j = m.taken[s] + 1
  BY <1>1, <1>2, <1>3 DEF j
<1>8. q.taken[Video] + q.taken[Audio] = k + 1
  <2>1. m.taken[Video] \in Nat /\ m.taken[Audio] \in Nat
    BY <1>3, TwoStreams
  <2>2. CASE s = Video
    <3>1. q.taken[Video] = m.taken[Video] + 1 /\ q.taken[Audio] = m.taken[Audio]
      BY <1>7, <2>2, TwoStreams
    <3> DEFINE x == m.taken[Video]  y == m.taken[Audio]
    <3>2. x \in Nat /\ y \in Nat /\ x + y = k
      BY <1>3, <2>1
    <3> HIDE DEF x, y
    <3>3. x + 1 + y = k + 1 /\ y + (x + 1) = k + 1
      BY <3>2
    <3>. QED
      BY <3>1, <3>3 DEF x, y
  <2>3. CASE s = Audio
    <3>1. q.taken[Audio] = m.taken[Audio] + 1 /\ q.taken[Video] = m.taken[Video]
      BY <1>7, <2>3, TwoStreams
    <3> DEFINE x == m.taken[Audio]  y == m.taken[Video]
    <3>2. x \in Nat /\ y \in Nat /\ x + y = k
      BY <1>3, <2>1
    <3> HIDE DEF x, y
    <3>3. x + 1 + y = k + 1 /\ y + (x + 1) = k + 1
      BY <3>2
    <3>. QED
      BY <3>1, <3>3 DEF x, y
  <2>. QED
    BY <1>1, <2>2, <2>3, TwoStreams
<1>9. ASSUME NEW t \in Streams PROVE q.taken[t] <= Len(f.entries[t])
  <2>1. CASE t = s
    <3>1. q.taken[t] = j /\ j \in 1 .. Len(f.entries[t])
      BY <1>1, <1>7, <2>1
    <3>. QED
      BY <3>1
  <2>2. CASE t # s
    BY <1>3, <1>7, <2>2
  <2>. QED
    BY <2>1, <2>2
<1>10. /\ Len(q.idx1) = k + 1 /\ q.idx1[k + 1] = new
       /\ \A i \in 1 .. k : q.idx1[i] = m.idx1[i]
  BY <1>2, <1>3, <1>5
<1>11. ASSUME NEW i \in 1 .. k + 1
       PROVE  \E t \in Streams : \E l \in 1 .. q.taken[t] : q.idx1[i] = Tagged(t, f.entries[t][l])
  <2>1. CASE i = k + 1
    <3>1. j \in 1 .. q.taken[s]
      BY <1>4, <1>7
    <3>2. q.idx1[i] = Tagged(s, f.entries[s][j])
      BY <1>10, <2>1 DEF new, e
    <3>. QED
      BY <1>1, <3>1, <3>2
  <2>2. CASE i # k + 1
    <3>1. i \in 1 .. k
      BY <2>2
    <3>0. PICK t \in Streams : \E l \in 1 .. m.taken[t] : m.idx1[i] = Tagged(t, f.entries[t][l])
      BY <3>1, Zenon DEF MergeOK
    <3>2. PICK l \in 1 .. m.taken[t] : m.idx1[i] = Tagged(t, f.entries[t][l])
      BY <3>0
    <3>3. l \in 1 .. q.taken[t]
      <4>1. CASE t # s
        BY <1>7, <4>1
      <4>2. CASE t = s
        <5>1. q.taken[t] = m.taken[t] + 1 /\ m.taken[t] \in Nat
          BY <1>4, <1>7, <4>2
        <5>. QED
          BY <5>1
      <4>. QED
        BY <4>1, <4>2
    <3>. QED
      BY <1>10, <3>1, <3>2, <3>3
  <2>. QED
    BY <2>1, <2>2
<1>12. ASSUME NEW t \in Streams, NEW l \in 1 .. q.taken[t]
       PROVE  \E i \in 1 .. k + 1 : q.idx1[i] = Tagged(t, f.entries[t][l])
  <2>1. CASE t = s /\ l = j
    <3>1. k + 1 \in 1 .. k + 1
      OBVIOUS
    <3>. QED
      BY <1>10, <2>1, <3>1 DEF new, e
  <2>2. CASE ~(t = s /\ l = j)
    <3>1. l \in 1 .. m.taken[t]
      BY <1>4, <1>7, <2>2
    <3>2. PICK i \in 1 .. k : m.idx1[i] = Tagged(t, f.entries[t][l])
      BY <3>1, Zenon DEF MergeOK
    <3>3. i \in 1 .. k + 1
      OBVIOUS
    <3>. QED
      BY <1>10, <3>2, <3>3
  <2>. QED
    BY <2>1, <2>2
<1>13. \A i \in 1 .. k : \A t \in Streams : \A l \in Left(f, m, t) : m.idx1[i].pos < f.entries[t][l].pos
  BY DEF MergeOK
<1>14. j \in Left(f, m, s)
  BY <1>1, <1>7 DEF Left
<1>15. Ascending(q.idx1)
  <2> SUFFICES ASSUME NEW a \in 1 .. k + 1, NEW b \in 1 .. k + 1, a < b
               PROVE  q.idx1[a].pos < q.idx1[b].pos
    BY <1>10 DEF Ascending
  <2>1. a \in 1 .. k
    OBVIOUS
  <2>2. CASE b = k + 1
    BY <1>1, <1>5, <1>10, <1>13, <1>14, <2>1, <2>2 DEF e
  <2>3. CASE b # k + 1
    <3>1. b \in 1 .. k
      BY <2>3
    <3>2. \A x, y \in 1 .. Len(m.idx1) : x < y => m.idx1[x].pos < m.idx1[y].pos
      BY DEF MergeOK, Ascending
    <3>. QED
      BY <1>3, <1>10, <2>1, <3>1, <3>2
  <2>. QED
    BY <2>2, <2>3
<1>16. ASSUME NEW i \in 1 .. k + 1, NEW t \in Streams, NEW l \in Left(f, q, t)
       PROVE  q.idx1[i].pos < f.entries[t][l].pos
  <2>1. l \in Left(f, m, t) /\ <<t, l>> # <<s, j>>
    <3>1. t # s => l \in Left(f, m, t)
      BY <1>7 DEF Left
    <3>2. t = s => l \in Left(f, m, t) /\ l # j
      BY <1>4, <1>7 DEF Left
    <3>. QED
      BY <3>1, <3>2
  <2>2. CASE i = k + 1
    BY <1>1, <1>5, <1>10, <2>1, <2>2
  <2>3. CASE i # k + 1
    <3>1. i \in 1 .. k
      BY <2>3
    <3>. QED
      BY <1>10, <1>13, <2>1, <3>1
  <2>. QED
    BY <2>2, <2>3
<1>. QED
  BY <1>6, <1>8, <1>9, <1>10, <1>11, <1>12, <1>15, <1>16 DEF MergeOK, q

(* What idx1 finds: the entries of every stream, in the order of the file. *)
LEMMA MergedOK ==
  ASSUME NEW f, f.entries \in [Streams -> Seq(Entry)], EntriesOK(f)
  PROVE  /\ Merged(f) \in Seq(IdxEntry) /\ Ascending(Merged(f))
         /\ \A s \in Streams, base \in Nat :
              FoundBy({e \in ToSet(Merged(f)) : e.stream = s}, base) = FoundBy(ToSet(f.entries[s]), base)
<1> DEFINE n == EntryCount(f)
           M == {m \in MergeRec : \E k \in 0 .. n : MergeOK(f, m, k)}
           G == [m \in M |-> TakeEntry(f, m)]
           T == [k \in 0 .. n |-> {m \in M : MergeOK(f, m, k)}]
           b == CHOOSE g : g = [k \in 0 .. n |-> IF k = 0 THEN NoneTaken ELSE TakeEntry(f, g[k - 1])]
<1>1. n \in Nat /\ f.entries[Video] \in Seq(Entry) /\ f.entries[Audio] \in Seq(Entry)
  <2>1. f.entries[Video] \in Seq(Entry) /\ f.entries[Audio] \in Seq(Entry)
    BY TwoStreams
  <2>2. Len(f.entries[Video]) \in Nat /\ Len(f.entries[Audio]) \in Nat
    BY <2>1
  <2>3. n = Len(f.entries[Video]) + Len(f.entries[Audio])
    BY DEF EntryCount
  <2>4. \A x, y \in Nat : x + y \in Nat
    OBVIOUS
  <2>. QED
    BY <2>1, <2>2, <2>3, <2>4, Zenon
<1>2. \A m, k : MergeOK(f, m, k) => m \in MergeRec
  BY DEF MergeOK
<1>3. MergeOK(f, NoneTaken, 0)
  <2>1. /\ NoneTaken.taken = [s \in Streams |-> 0] /\ NoneTaken.idx1 = <<>> /\ NoneTaken \in MergeRec
    BY DEF NoneTaken, MergeRec
  <2>. QED
    BY <2>1, TwoStreams DEF MergeOK, Ascending
<1>4. NoneTaken \in T[0]
  BY <1>1, <1>2, <1>3
<1>5. ASSUME NEW k \in 1 .. n, NEW m \in T[k - 1] PROVE TakeEntry(f, m) \in T[k] /\ m \in M
  <2>1. k - 1 \in 0 .. n /\ k - 1 \in Nat /\ k - 1 < n /\ k - 1 + 1 = k /\ k \in 0 .. n
    BY <1>1
  <2>2. m \in M /\ MergeOK(f, m, k - 1)
    BY <2>1
  <2>3. MergeOK(f, TakeEntry(f, m), k)
    BY <2>1, <2>2, TakeEntryOK
  <2>. QED
    BY <1>2, <2>1, <2>2, <2>3
<1> HIDE DEF M, T, n, G
<1>5a. PICK g : Iterates(n, NoneTaken, G, g)
  BY <1>1, FunctionByRecursion, Zenon
<1>6. g = [k \in 0 .. n |-> IF k = 0 THEN NoneTaken ELSE G[g[k - 1]]]
  BY <1>5a DEF Iterates
<1>7. \A k \in 0 .. n : g[k] \in T[k]
  <2>1. g[0] \in T[0]
    BY <1>1, <1>4, <1>6
  <2>2. ASSUME NEW k \in 1 .. n, g[k - 1] \in T[k - 1] PROVE g[k] \in T[k]
    <3>1. TakeEntry(f, g[k - 1]) \in T[k] /\ g[k - 1] \in M
      BY <1>5, <2>2
    <3>2. k \in 0 .. n /\ k # 0
      BY <1>1
    <3>3. g[k] = G[g[k - 1]]
      BY <1>6, <3>2
    <3>. QED
      BY <3>1, <3>3 DEF G
  <2>. QED
    BY <1>1, <2>1, <2>2, FamilyInduction
<1>8. g = [k \in 0 .. n |-> IF k = 0 THEN NoneTaken ELSE TakeEntry(f, g[k - 1])]
  <2>1. ASSUME NEW k \in 0 .. n, k # 0 PROVE G[g[k - 1]] = TakeEntry(f, g[k - 1])
    <3>1. k \in 1 .. n /\ k - 1 \in 0 .. n
      BY <1>1, <2>1
    <3>2. g[k - 1] \in M
      BY <1>5, <1>7, <3>1
    <3>. QED
      BY <3>2 DEF G
  <2>. QED
    BY <1>6, <2>1
<1>9. b = [k \in 0 .. n |-> IF k = 0 THEN NoneTaken ELSE TakeEntry(f, b[k - 1])]
  BY <1>8, Zenon
<1>10. Merged(f) = b[n].idx1
  BY Zenon DEF Merged, EntryCount, n
<1> HIDE DEF b
<1>11. \A k \in 0 .. n : b[k] \in T[k]
  <2>1. b[0] \in T[0]
    BY <1>1, <1>4, <1>9
  <2>2. ASSUME NEW k \in 1 .. n, b[k - 1] \in T[k - 1] PROVE b[k] \in T[k]
    <3>1. k \in 0 .. n /\ k # 0
      BY <1>1
    <3>. QED
      BY <1>5, <1>9, <2>2, <3>1
  <2>. QED
    BY <1>1, <2>1, <2>2, FamilyInduction
<1> DEFINE m == b[n]
<1>12. MergeOK(f, m, n)
  BY <1>1, <1>11 DEF T
<1> HIDE DEF m
<1>13. /\ m.idx1 \in Seq(IdxEntry) /\ Ascending(m.idx1) /\ Len(m.idx1) = n
  BY <1>12 DEF MergeOK, MergeRec
<1>14. ASSUME NEW s \in Streams PROVE m.taken[s] = Len(f.entries[s])
  <2>1. /\ m.taken \in [Streams -> Nat] /\ m.taken[Video] + m.taken[Audio] = n
        /\ m.taken[Video] <= Len(f.entries[Video]) /\ m.taken[Audio] <= Len(f.entries[Audio])
    BY <1>12, TwoStreams DEF MergeOK, MergeRec
  <2>2. /\ m.taken[Video] \in Nat /\ m.taken[Audio] \in Nat
        /\ Len(f.entries[Video]) \in Nat /\ Len(f.entries[Audio]) \in Nat
    BY <1>1, <2>1, TwoStreams
  <2>3. n = Len(f.entries[Video]) + Len(f.entries[Audio])
    BY DEF n, EntryCount
  <2> DEFINE v == m.taken[Video]  a == m.taken[Audio]  x == Len(f.entries[Video])  y == Len(f.entries[Audio])
  <2>5. v \in Nat /\ a \in Nat /\ x \in Nat /\ y \in Nat /\ v + a = x + y /\ v <= x /\ a <= y
    BY <2>1, <2>2, <2>3
  <2> HIDE DEF v, a, x, y
  <2>6. v = x /\ a = y
    BY <2>5
  <2>4. m.taken[Video] = Len(f.entries[Video]) /\ m.taken[Audio] = Len(f.entries[Audio])
    BY <2>6 DEF v, a, x, y
  <2>. QED
    BY <2>4, TwoStreams
<1>15. ASSUME NEW s \in Streams
       PROVE  {e \in ToSet(m.idx1) : e.stream = s} = {Tagged(s, e) : e \in ToSet(f.entries[s])}
  <2> DEFINE E == f.entries[s]
  <2>0. E \in Seq(Entry) /\ ToSet(m.idx1) = {m.idx1[i] : i \in 1 .. n} /\ ToSet(E) = {E[i] : i \in 1 .. Len(E)}
    <3>1. E \in Seq(Entry)
      OBVIOUS
    <3> HIDE DEF E
    <3>2. ToSet(m.idx1) = {m.idx1[i] : i \in 1 .. n}
      BY <1>13, ElementsOf
    <3>3. ToSet(E) = {E[i] : i \in 1 .. Len(E)}
      BY <3>1, ElementsOf
    <3>. QED
      BY <3>1, <3>2, <3>3
  <2>1. ASSUME NEW i \in 1 .. n, m.idx1[i].stream = s
        PROVE  \E e \in ToSet(E) : m.idx1[i] = Tagged(s, e)
    <3>0. PICK t \in Streams : \E j \in 1 .. m.taken[t] : m.idx1[i] = Tagged(t, f.entries[t][j])
      BY <1>12, Zenon DEF MergeOK
    <3>1. PICK j \in 1 .. m.taken[t] : m.idx1[i] = Tagged(t, f.entries[t][j])
      BY <3>0
    <3>2. t = s
      BY <2>1, <3>1 DEF Tagged
    <3>. QED
      BY <1>14, <2>0, <3>1, <3>2
  <2>2. ASSUME NEW j \in 1 .. Len(E)
        PROVE  Tagged(s, E[j]) \in ToSet(m.idx1) /\ Tagged(s, E[j]).stream = s
    <3>1. \E i \in 1 .. n : m.idx1[i] = Tagged(s, E[j])
      BY <1>12, <1>14 DEF MergeOK
    <3>. QED
      BY <2>0, <3>1 DEF Tagged
  <2> HIDE DEF E
  <2>3. {e \in ToSet(m.idx1) : e.stream = s} \subseteq {Tagged(s, e) : e \in ToSet(E)}
    BY <2>0, <2>1
  <2>4. {Tagged(s, e) : e \in ToSet(E)} \subseteq {e \in ToSet(m.idx1) : e.stream = s}
    BY <2>0, <2>2
  <2>. QED
    BY <2>3, <2>4 DEF E
<1>16. ASSUME NEW s \in Streams, NEW base \in Nat
       PROVE  FoundBy({Tagged(s, e) : e \in ToSet(f.entries[s])}, base) = FoundBy(ToSet(f.entries[s]), base)
  <2>1. \A e : Tagged(s, e).pos = e.pos /\ Tagged(s, e).len = e.len /\ Tagged(s, e).key = e.key
    BY DEF Tagged
  <2>. QED
    BY <2>1 DEF FoundBy
<1>. QED
  BY <1>10, <1>13, <1>15, <1>16 DEF m
-----------------------------------------------------------------------------
(* Which fields the functions of a part leave alone.                       *)
SameCounts(f, g) == g.packet_count = f.packet_count /\ g.strm_length = f.strm_length
SameParts(f, g) ==
  /\ Len(g.riffs) = Len(f.riffs)
  /\ \A i \in 1 .. Len(f.riffs) : g.riffs[i].start = f.riffs[i].start /\ g.riffs[i].movi = f.riffs[i].movi
SameRest(f, g) == g.entries = f.entries /\ g.odml = f.odml /\ SameCounts(f, g)

(* The types of the fields of a file, as facts of their own.               *)
LEMMA SafeFields ==
  ASSUME NEW f, SafeFile(f)
  PROVE  /\ f \in AviRec /\ Len(f.riffs) \in Nat /\ Len(f.riffs) > 0 /\ f.end \in Nat /\ f.riffs \in Seq(Riff)
         /\ f.entries \in [Streams -> Seq(Entry)] /\ f.master \in [Streams -> [1 .. MaxMaster -> Ix]]
         /\ f.idx1 \in Seq(IdxEntry) /\ EntriesOK(f)
         /\ \A i \in 1 .. Len(f.riffs) :
              /\ f.riffs[i] \in Riff /\ f.riffs[i].start \in Nat /\ f.riffs[i].movi \in Nat
              /\ f.riffs[i].start <= f.riffs[i].movi /\ f.riffs[i].movi + 4 <= f.end /\ f.riffs[i].movi <= f.end
              /\ f.riffs[i].start <= f.end
<1>1. /\ f \in AviRec /\ Len(f.riffs) > 0 /\ EntriesOK(f)
      /\ \A i \in 1 .. Len(f.riffs) : f.riffs[i].start <= f.riffs[i].movi /\ f.riffs[i].movi + 4 <= f.end
  BY DEF SafeFile, LastRiff
<1>2. /\ f.end \in Nat /\ f.riffs \in Seq(Riff) /\ f.entries \in [Streams -> Seq(Entry)]
      /\ f.master \in [Streams -> [1 .. MaxMaster -> Ix]] /\ f.idx1 \in Seq(IdxEntry)
  BY <1>1 DEF AviRec
<1>3. Len(f.riffs) \in Nat /\ \A i \in 1 .. Len(f.riffs) : f.riffs[i] \in Riff
  BY <1>2
<1>4. ASSUME NEW i \in 1 .. Len(f.riffs)
      PROVE  /\ f.riffs[i].start \in Nat /\ f.riffs[i].movi \in Nat
             /\ f.riffs[i].movi <= f.end /\ f.riffs[i].start <= f.end
  <2>1. f.riffs[i].start \in Nat /\ f.riffs[i].movi \in Nat
    BY <1>3 DEF Riff
  <2>2. f.riffs[i].start <= f.riffs[i].movi /\ f.riffs[i].movi + 4 <= f.end
    BY <1>1
  <2>. QED
    BY <1>2, <2>1, <2>2
<1>. QED
  BY <1>1, <1>2, <1>3, <1>4

(* The size of the movi list of a part is patched in, and nothing else.    *)
LEMMA CloseMoviFields ==
  ASSUME NEW f \in AviRec, NEW id \in 1 .. Len(f.riffs), f.riffs[id].movi <= f.end
  PROVE  LET g == CloseMovi(f, id)
         IN /\ g \in AviRec /\ SameRest(f, g) /\ SameParts(f, g)
            /\ g.end = f.end /\ g.master = f.master /\ g.idx1 = f.idx1
            /\ g.frames_hdr = f.frames_hdr /\ g.frames_hdr_all = f.frames_hdr_all
            /\ \A i \in 1 .. Len(f.riffs) : i # id => g.riffs[i] = f.riffs[i]
            /\ g.riffs[id].moviSize = f.end - f.riffs[id].movi
<1> DEFINE g == CloseMovi(f, id)  v == f.end - f.riffs[id].movi  r == [f.riffs[id] EXCEPT !.moviSize = v]
<1>1. f.riffs \in Seq(Riff) /\ f.end \in Nat /\ f.riffs[id] \in Riff
  BY DEF AviRec
<1>2. v \in Nat
  <2>1. f.riffs[id].movi \in Nat
    BY <1>1 DEF Riff
  <2>. QED
    BY <1>1, <2>1
<1>3. g = [f EXCEPT !.riffs = [f.riffs EXCEPT ![id] = r]]
  BY Zenon DEF CloseMovi
<1> HIDE DEF v
<1>4. r \in Riff /\ r.start = f.riffs[id].start /\ r.movi = f.riffs[id].movi /\ r.moviSize = v
  BY <1>1, <1>2 DEF Riff
<1> DEFINE R == [f.riffs EXCEPT ![id] = r]
<1> HIDE DEF r, g
<1>5. /\ R \in Seq(Riff) /\ Len(R) = Len(f.riffs) /\ R[id] = r
      /\ \A i \in 1 .. Len(f.riffs) : i # id => R[i] = f.riffs[i]
  BY <1>1, <1>4
<1> HIDE DEF R
<1>6. g = [f EXCEPT !.riffs = R]
  BY <1>3 DEF R
<1>7. /\ g \in AviRec /\ g.riffs = R /\ g.end = f.end /\ g.master = f.master /\ g.idx1 = f.idx1
      /\ g.frames_hdr = f.frames_hdr /\ g.frames_hdr_all = f.frames_hdr_all /\ SameRest(f, g)
  BY <1>5, <1>6 DEF AviRec, SameRest, SameCounts
<1>8. SameParts(f, g)
  BY <1>4, <1>5, <1>7 DEF SameParts
<1>. QED
  BY <1>4, <1>5, <1>7, <1>8 DEF g, v

(* The size of a part is patched in, and nothing else.                     *)
LEMMA CloseRiffFields ==
  ASSUME NEW f \in AviRec, NEW id \in 1 .. Len(f.riffs), f.riffs[id].start <= f.end
  PROVE  LET g == CloseRiff(f, id)
         IN /\ g \in AviRec /\ SameRest(f, g) /\ SameParts(f, g)
            /\ g.end = f.end /\ g.master = f.master /\ g.idx1 = f.idx1
            /\ g.frames_hdr = f.frames_hdr /\ g.frames_hdr_all = f.frames_hdr_all
            /\ \A i \in 1 .. Len(f.riffs) : i # id => g.riffs[i] = f.riffs[i]
            /\ g.riffs[id].size = f.end - f.riffs[id].start /\ g.riffs[id].moviSize = f.riffs[id].moviSize
<1> DEFINE g == CloseRiff(f, id)  v == f.end - f.riffs[id].start  r == [f.riffs[id] EXCEPT !.size = v]
<1>1. f.riffs \in Seq(Riff) /\ f.end \in Nat /\ f.riffs[id] \in Riff
  BY DEF AviRec
<1>2. v \in Nat
  <2>1. f.riffs[id].start \in Nat
    BY <1>1 DEF Riff
  <2>. QED
    BY <1>1, <2>1
<1>3. g = [f EXCEPT !.riffs = [f.riffs EXCEPT ![id] = r]]
  BY Zenon DEF CloseRiff
<1> HIDE DEF v
<1>4. /\ r \in Riff /\ r.start = f.riffs[id].start /\ r.movi = f.riffs[id].movi /\ r.size = v
      /\ r.moviSize = f.riffs[id].moviSize
  BY <1>1, <1>2 DEF Riff
<1> DEFINE R == [f.riffs EXCEPT ![id] = r]
<1> HIDE DEF r, g
<1>5. /\ R \in Seq(Riff) /\ Len(R) = Len(f.riffs) /\ R[id] = r
      /\ \A i \in 1 .. Len(f.riffs) : i # id => R[i] = f.riffs[i]
  BY <1>1, <1>4
<1> HIDE DEF R
<1>6. g = [f EXCEPT !.riffs = R]
  BY <1>3 DEF R
<1>7. /\ g \in AviRec /\ g.riffs = R /\ g.end = f.end /\ g.master = f.master /\ g.idx1 = f.idx1
      /\ g.frames_hdr = f.frames_hdr /\ g.frames_hdr_all = f.frames_hdr_all /\ SameRest(f, g)
  BY <1>5, <1>6 DEF AviRec, SameRest, SameCounts
<1>8. SameParts(f, g)
  BY <1>4, <1>5, <1>7 DEF SameParts
<1>. QED
  BY <1>4, <1>5, <1>7, <1>8 DEF g, v

(* The index of one stream of the last part.                               *)
LEMMA IxOfFields ==
  ASSUME NEW f \in AviRec, NEW s \in Streams, LastRiff(f) \in 1 .. MaxMaster
  PROVE  LET g == IxOf(f, s)  n == LastRiff(f)
         IN /\ g \in AviRec /\ SameRest(f, g) /\ g.riffs = f.riffs /\ g.idx1 = f.idx1
            /\ g.end = f.end + 32 + 8 * Len(f.entries[s]) /\ g.end >= f.end
            /\ g.master[s][n] = [at |-> f.end, base |-> f.riffs[n].movi, entries |-> f.entries[s]]
            /\ \A t \in Streams, i \in 1 .. MaxMaster : <<t, i>> # <<s, n>> => g.master[t][i] = f.master[t][i]
<1> DEFINE g == IxOf(f, s)  n == LastRiff(f)  L == Len(f.entries[s])  e == f.end + 32 + 8 * L
           ix == [at |-> f.end, base |-> f.riffs[n].movi, entries |-> f.entries[s]]
           M == [f.master EXCEPT ![s] = [f.master[s] EXCEPT ![n] = ix]]
<1>1. /\ f.riffs \in Seq(Riff) /\ f.end \in Nat /\ f.entries \in [Streams -> Seq(Entry)]
      /\ f.master \in [Streams -> [1 .. MaxMaster -> Ix]]
  BY DEF AviRec
<1>2. n \in 1 .. Len(f.riffs) /\ n \in 1 .. MaxMaster
  BY <1>1 DEF LastRiff
<1>3. f.entries[s] \in Seq(Entry) /\ L \in Nat
  BY <1>1
<1>4. ix \in Ix
  <2>0. f.riffs[n] \in Riff
    BY <1>1, <1>2
  <2>1. f.riffs[n].movi \in Nat
    BY <2>0 DEF Riff
  <2>. QED
    BY <1>1, <1>3, <2>1 DEF Ix
<1>5. g = [f EXCEPT !.end = e, !.master = M]
  <2>1. g = [f EXCEPT !.end = @ + 32 + 8 * L, !.master[s][n] = ix]
    BY Zenon DEF IxOf, LastRiff
  <2>. QED
    BY <2>1, Zenon
<1> HIDE DEF ix, g, n, L
<1>6. e \in Nat /\ e >= f.end
  BY <1>1, <1>3
<1> HIDE DEF e
<1>7. /\ M \in [Streams -> [1 .. MaxMaster -> Ix]] /\ M[s][n] = ix
      /\ \A t \in Streams, i \in 1 .. MaxMaster : <<t, i>> # <<s, n>> => M[t][i] = f.master[t][i]
  BY <1>1, <1>2, <1>4
<1> HIDE DEF M
<1>8. /\ g \in AviRec /\ g.riffs = f.riffs /\ g.end = e /\ g.master = M /\ g.idx1 = f.idx1 /\ SameRest(f, g)
  BY <1>5, <1>6, <1>7 DEF AviRec, SameRest, SameCounts
<1>. QED
  BY <1>6, <1>7, <1>8 DEF g, e, L, n, ix

(* A file that grew, with its parts where they were, is safe as before.    *)
LEMMA StaysSafe ==
  ASSUME NEW f, SafeFile(f), NEW g \in AviRec, SameParts(f, g), g.end >= f.end,
         g.entries = f.entries \/ g.entries = clean_indexes(f)
  PROVE  SafeFile(g)
<1>1. /\ Len(f.riffs) \in Nat /\ Len(f.riffs) > 0 /\ f.end \in Nat /\ EntriesOK(f)
      /\ \A i \in 1 .. Len(f.riffs) :
           /\ f.riffs[i].movi \in Nat /\ f.riffs[i].start <= f.riffs[i].movi /\ f.riffs[i].movi + 4 <= f.end
  BY SafeFields
<1>2. g.end \in Nat
  BY DEF AviRec
<1>3. /\ LastRiff(g) = LastRiff(f) /\ LastRiff(f) = Len(f.riffs) /\ LastRiff(g) = Len(g.riffs)
      /\ \A i \in 1 .. Len(f.riffs) : g.riffs[i].start = f.riffs[i].start /\ g.riffs[i].movi = f.riffs[i].movi
  BY DEF SameParts, LastRiff
<1>4. \A i \in 1 .. LastRiff(g) : g.riffs[i].start <= g.riffs[i].movi /\ g.riffs[i].movi + 4 <= g.end
  BY <1>1, <1>2, <1>3, SMTT(30)
<1>5. EntriesOK(g)
  <2>1. CASE g.entries = clean_indexes(f)
    <3>1. \A s \in Streams : g.entries[s] = <<>> /\ Len(g.entries[s]) = 0
      BY <2>1 DEF clean_indexes
    <3>2. Video \in Streams /\ Audio \in Streams
      BY TwoStreams
    <3>. QED
      BY <3>1, <3>2 DEF EntriesOK, Ascending
  <2>2. CASE g.entries = f.entries
    <3>1. ASSUME NEW s \in Streams, NEW j \in 1 .. Len(f.entries[s])
          PROVE  g.riffs[LastRiff(g)].movi + f.entries[s][j].pos + 8 <= g.end
      <4> DEFINE n == LastRiff(f)  m == f.riffs[n].movi  p == f.entries[s][j].pos  y == f.end  z == g.end
      <4>1. m + p + 8 <= f.end /\ m = g.riffs[LastRiff(g)].movi /\ m \in Nat
        <5>1. n \in 1 .. Len(f.riffs) /\ n = LastRiff(g)
          BY <1>1, <1>3
        <5>2. m = g.riffs[LastRiff(g)].movi /\ m \in Nat
          BY <1>1, <1>3, <5>1
        <5>3. m + p + 8 <= f.end
          BY <1>1 DEF EntriesOK
        <5>. QED
          BY <5>2, <5>3
      <4>2. p \in Nat
        <5>1. f.entries \in [Streams -> Seq(Entry)]
          BY SafeFields
        <5>2. f.entries[s][j] \in Entry
          BY <5>1
        <5>. QED
          BY <5>2 DEF Entry
      <4>4. m + p + 8 <= y /\ y <= z /\ y \in Nat /\ z \in Nat /\ m \in Nat
        BY <1>1, <1>2, <4>1
      <4> HIDE DEF m, p, y, z
      <4>3. m + p + 8 <= z
        BY <4>2, <4>4
      <4>. QED
        BY <4>1, <4>3 DEF m, p, z
    <3>. QED
      BY <1>1, <2>2, <3>1 DEF EntriesOK
  <2>. QED
    BY <2>1, <2>2
<1>. QED
  BY <1>1, <1>3, <1>4, <1>5 DEF SafeFile

(* The indexes of both streams of the last part lie before the end.        *)
LEMMA WriteIxFields ==
  ASSUME NEW f, SafeFile(f)
  PROVE  LET g == avi_write_ix(f)  n == LastRiff(f)
         IN /\ g \in AviRec /\ SameRest(f, g) /\ g.riffs = f.riffs /\ g.idx1 = f.idx1 /\ g.end >= f.end
            /\ \A s \in Streams, i \in 1 .. MaxMaster : i # n => g.master[s][i] = f.master[s][i]
            /\ n <= MaxMaster => \A s \in Streams :
                 LET ix == g.master[s][n]
                 IN /\ ix.base = f.riffs[n].movi /\ ix.entries = f.entries[s]
                    /\ f.end <= ix.at /\ ix.at + 32 + 8 * Len(ix.entries) <= g.end
<1> DEFINE g == avi_write_ix(f)  n == LastRiff(f)
<1>1. /\ f \in AviRec /\ n \in Nat /\ n > 0 /\ f.end \in Nat /\ f.entries \in [Streams -> Seq(Entry)]
  BY SafeFields DEF LastRiff
<1>2. CASE n > MaxMaster
  <2>1. g = f
    BY <1>2 DEF avi_write_ix
  <2>2. SameRest(f, f) /\ f.end >= f.end
    BY <1>1 DEF SameRest, SameCounts
  <2>3. ~(n <= MaxMaster)
    BY <1>1, <1>2, AviAssumption DEF AviAssumption
  <2>. QED
    BY <1>1, <2>1, <2>2, <2>3
<1>3. CASE ~(n > MaxMaster)
  <2> DEFINE h == IxOf(f, Video)  V == Len(f.entries[Video])  A == Len(f.entries[Audio])
  <2>1. g = IxOf(h, Audio) /\ n \in 1 .. MaxMaster
    BY <1>1, <1>3, AviAssumption DEF avi_write_ix, AviAssumption
  <2>2. /\ h \in AviRec /\ SameRest(f, h) /\ h.riffs = f.riffs /\ h.idx1 = f.idx1 /\ h.end = f.end + 32 + 8 * V
        /\ h.end >= f.end
        /\ h.master[Video][n] = [at |-> f.end, base |-> f.riffs[n].movi, entries |-> f.entries[Video]]
        /\ \A t \in Streams, i \in 1 .. MaxMaster : <<t, i>> # <<Video, n>> => h.master[t][i] = f.master[t][i]
    BY <1>1, <2>1, IxOfFields, TwoStreams
  <2> HIDE DEF h
  <2>3. LastRiff(h) = n /\ h.entries = f.entries
    BY <2>2 DEF LastRiff, SameRest
  <2>4. /\ g \in AviRec /\ SameRest(h, g) /\ g.riffs = h.riffs /\ g.idx1 = h.idx1 /\ g.end = h.end + 32 + 8 * A
        /\ g.end >= h.end
        /\ g.master[Audio][n] = [at |-> h.end, base |-> f.riffs[n].movi, entries |-> f.entries[Audio]]
        /\ \A t \in Streams, i \in 1 .. MaxMaster : <<t, i>> # <<Audio, n>> => g.master[t][i] = h.master[t][i]
    <3> DEFINE k == IxOf(h, Audio)  m == LastRiff(h)
    <3>1. m \in 1 .. MaxMaster /\ h \in AviRec
      BY <2>1, <2>2, <2>3
    <3>2. /\ k \in AviRec /\ SameRest(h, k) /\ k.riffs = h.riffs /\ k.idx1 = h.idx1
          /\ k.end = h.end + 32 + 8 * Len(h.entries[Audio]) /\ k.end >= h.end
          /\ k.master[Audio][m] = [at |-> h.end, base |-> h.riffs[m].movi, entries |-> h.entries[Audio]]
          /\ \A t \in Streams, i \in 1 .. MaxMaster : <<t, i>> # <<Audio, m>> => k.master[t][i] = h.master[t][i]
      BY <3>1, IxOfFields, TwoStreams
    <3>3. m = n /\ k = g /\ h.entries[Audio] = f.entries[Audio] /\ h.riffs = f.riffs
      BY <2>1, <2>2, <2>3
    <3> HIDE DEF k, m, g, n
    <3>. QED
      BY <3>2, <3>3
  <2>5. SameRest(f, g)
    BY <2>2, <2>4 DEF SameRest, SameCounts
  <2>6. V \in Nat /\ A \in Nat /\ h.end \in Nat /\ g.end \in Nat
    <3>1. f.entries[Video] \in Seq(Entry) /\ f.entries[Audio] \in Seq(Entry)
      BY <1>1, TwoStreams
    <3>2. h.end \in Nat /\ g.end \in Nat
      BY <2>2, <2>4 DEF AviRec
    <3>. QED
      BY <3>1, <3>2
  <2>7. /\ g.end >= f.end /\ f.end <= h.end
        /\ f.end + 32 + 8 * V <= g.end /\ h.end + 32 + 8 * A <= g.end
    BY <1>1, <2>2, <2>4, <2>6, SMTT(30)
  <2>8. ASSUME NEW s \in Streams, NEW i \in 1 .. MaxMaster, i # n PROVE g.master[s][i] = f.master[s][i]
    <3>1. <<s, i>> # <<Audio, n>> /\ <<s, i>> # <<Video, n>>
      BY <2>8
    <3>. QED
      BY <2>2, <2>4, <3>1
  <2>9. g.master[Video][n] = h.master[Video][n]
    <3>1. <<Video, n>> # <<Audio, n>>
      BY TwoStreams
    <3>. QED
      BY <2>1, <2>4, <3>1, TwoStreams
  <2>10. ASSUME NEW s \in Streams
         PROVE  LET ix == g.master[s][n]
                IN /\ ix.base = f.riffs[n].movi /\ ix.entries = f.entries[s]
                   /\ f.end <= ix.at /\ ix.at + 32 + 8 * Len(ix.entries) <= g.end
    <3>1. CASE s = Video
      <4>1. /\ g.master[s][n].at = f.end /\ g.master[s][n].base = f.riffs[n].movi
            /\ g.master[s][n].entries = f.entries[Video]
        BY <2>2, <2>9, <3>1
      <4>2. f.end <= f.end
        BY <1>1
      <4>. QED
        BY <2>7, <3>1, <4>1, <4>2
    <3>2. CASE s = Audio
      <4>1. /\ g.master[s][n].at = h.end /\ g.master[s][n].base = f.riffs[n].movi
            /\ g.master[s][n].entries = f.entries[Audio]
        BY <2>4, <3>2
      <4>. QED
        BY <2>7, <3>2, <4>1
    <3>. QED
      BY <3>1, <3>2, TwoStreams
  <2> HIDE DEF g, n
  <2>11. g.riffs = f.riffs /\ g.idx1 = f.idx1
    BY <2>2, <2>4
  <2>. QED
    BY <2>4, <2>5, <2>7, <2>8, <2>10, <2>11 DEF g, n
<1>. QED
  BY <1>2, <1>3

(* What the headers count when they are written.                           *)
CountsWritten(f, g) ==
  /\ g.frames_hdr = [s \in Streams |-> IF s = Video THEN f.packet_count[s] ELSE f.strm_length]
  /\ g.frames_hdr_all = f.packet_count[Video]

(* The counters of the headers are written, and nothing else.              *)
LEMMA WriteCountersFields ==
  ASSUME NEW f \in AviRec
  PROVE  LET g == avi_write_counters(f)
         IN /\ g \in AviRec /\ SameRest(f, g) /\ g.riffs = f.riffs /\ g.end = f.end /\ g.master = f.master
            /\ g.idx1 = f.idx1 /\ CountsWritten(f, g)
<1> DEFINE g == avi_write_counters(f)
           H == [s \in Streams |-> IF s = Video THEN f.packet_count[s] ELSE f.strm_length]
           a == f.packet_count[Video]
<1>1. f.packet_count \in [Streams -> Nat] /\ f.strm_length \in Nat
  BY DEF AviRec
<1>2. H \in [Streams -> Nat] /\ a \in Nat
  BY <1>1, TwoStreams
<1>3. g = [f EXCEPT !.frames_hdr = H, !.frames_hdr_all = a]
  BY DEF avi_write_counters
<1> HIDE DEF g, H, a
<1>4. /\ g \in AviRec /\ SameRest(f, g) /\ g.riffs = f.riffs /\ g.end = f.end /\ g.master = f.master
      /\ g.idx1 = f.idx1 /\ g.frames_hdr = H /\ g.frames_hdr_all = a
  BY <1>2, <1>3 DEF AviRec, SameRest, SameCounts
<1>. QED
  BY <1>4 DEF CountsWritten, g, H, a

(* idx1 finds what the entries of the streams do, and is in order.         *)
Idx1Holds(f, idx) ==
  /\ idx \in Seq(IdxEntry) /\ Ascending(idx)
  /\ \A s \in Streams, base \in Nat :
       FoundBy({e \in ToSet(idx) : e.stream = s}, base) = FoundBy(ToSet(f.entries[s]), base)

(* idx1 is written at the end of the file, with the counters.              *)
LEMMA WriteIdx1Fields ==
  ASSUME NEW f \in AviRec, EntriesOK(f)
  PROVE  LET g == avi_write_idx1(f)
         IN /\ g \in AviRec /\ SameRest(f, g) /\ g.riffs = f.riffs /\ g.master = f.master
            /\ g.end = f.end + 8 + 16 * Len(g.idx1) /\ Idx1Holds(f, g.idx1) /\ CountsWritten(f, g)
<1> DEFINE g == avi_write_idx1(f)  I == Merged(f)  e == f.end + 8 + 16 * Len(I)
           h == [f EXCEPT !.idx1 = I, !.end = e]
<1>1. f.entries \in [Streams -> Seq(Entry)] /\ f.end \in Nat
  BY DEF AviRec
<1>2. Idx1Holds(f, I)
  BY <1>1, MergedOK, Zenon DEF Idx1Holds
<1>3. g = avi_write_counters(h)
  BY Zenon DEF avi_write_idx1
<1> HIDE DEF I, g
<1>4. I \in Seq(IdxEntry) /\ Len(I) \in Nat
  BY <1>2 DEF Idx1Holds
<1>5. e \in Nat
  BY <1>1, <1>4
<1> HIDE DEF e
<1>6. /\ h \in AviRec /\ h.riffs = f.riffs /\ h.master = f.master /\ h.end = e /\ h.idx1 = I
      /\ SameRest(f, h)
  BY <1>4, <1>5 DEF AviRec, SameRest, SameCounts
<1> HIDE DEF h
<1>7. /\ g \in AviRec /\ SameRest(h, g) /\ g.riffs = h.riffs /\ g.end = h.end /\ g.master = h.master
      /\ g.idx1 = h.idx1 /\ CountsWritten(h, g)
  BY <1>3, <1>6, WriteCountersFields
<1>8. SameRest(f, g) /\ CountsWritten(f, g)
  BY <1>6, <1>7 DEF SameRest, SameCounts, CountsWritten
<1>. QED
  BY <1>2, <1>6, <1>7, <1>8 DEF e, g

(* A part that is closed: its sizes end where it ends.                     *)
Seal(f, id) == CloseIndexed(CloseMovi(f, id), id)

(* The movi list ends where the file did, idx1 follows it in the first     *)
(* part, and the part ends where the file does now.                        *)
LEMMA SealFields ==
  ASSUME NEW f, SafeFile(f), NEW id \in 1 .. Len(f.riffs)
  PROVE  LET g == Seal(f, id)
         IN /\ g \in AviRec /\ SafeFile(g) /\ SameRest(f, g) /\ SameParts(f, g) /\ g.master = f.master /\ g.end >= f.end
            /\ \A i \in 1 .. Len(f.riffs) : i # id => g.riffs[i] = f.riffs[i]
            /\ g.riffs[id].movi + g.riffs[id].moviSize = f.end
            /\ g.riffs[id].start + g.riffs[id].size = g.end
            /\ g.end = f.end + (IF id = 1 THEN 8 + 16 * Len(g.idx1) ELSE 0)
            /\ id = 1 => Idx1Holds(f, g.idx1) /\ CountsWritten(f, g)
            /\ id # 1 => g.idx1 = f.idx1
<1> DEFINE a == CloseMovi(f, id)  b == IF id = 1 THEN avi_write_idx1(a) ELSE a  g == CloseRiff(b, id)
<1>1. /\ f \in AviRec /\ f.end \in Nat /\ f.riffs[id].movi \in Nat /\ f.riffs[id].start \in Nat
      /\ f.riffs[id].movi <= f.end /\ f.riffs[id].start <= f.end
  BY SafeFields
<1>2. /\ a \in AviRec /\ SameRest(f, a) /\ SameParts(f, a) /\ a.end = f.end /\ a.master = f.master /\ a.idx1 = f.idx1
      /\ \A i \in 1 .. Len(f.riffs) : i # id => a.riffs[i] = f.riffs[i]
      /\ a.riffs[id].moviSize = f.end - f.riffs[id].movi
  BY <1>1, CloseMoviFields
<1>3. Seal(f, id) = g
  BY DEF Seal, CloseIndexed
<1> HIDE DEF a
<1>4. SafeFile(a)
  <2>1. a.end >= f.end /\ a.entries = f.entries
    BY <1>1, <1>2 DEF SameRest
  <2>. QED
    BY <1>2, <2>1, StaysSafe
<1>5. /\ b \in AviRec /\ SameRest(a, b) /\ b.riffs = a.riffs /\ b.master = a.master
      /\ b.end = a.end + (IF id = 1 THEN 8 + 16 * Len(b.idx1) ELSE 0)
      /\ id = 1 => Idx1Holds(a, b.idx1) /\ CountsWritten(a, b)
      /\ id # 1 => b.idx1 = a.idx1
  <2>1. CASE id = 1
    <3>1. EntriesOK(a)
      BY <1>4 DEF SafeFile
    <3> DEFINE w == avi_write_idx1(a)
    <3>2. /\ w \in AviRec /\ SameRest(a, w) /\ w.riffs = a.riffs /\ w.master = a.master
          /\ w.end = a.end + 8 + 16 * Len(w.idx1) /\ Idx1Holds(a, w.idx1) /\ CountsWritten(a, w)
      BY <1>2, <3>1, WriteIdx1Fields
    <3>3. b = w /\ (IF id = 1 THEN 8 + 16 * Len(b.idx1) ELSE 0) = 8 + 16 * Len(b.idx1)
      BY <2>1
    <3> HIDE DEF w, b
    <3>4. w.end = a.end + (8 + 16 * Len(w.idx1))
      <4>1. w.idx1 \in Seq(IdxEntry)
        BY <3>2 DEF Idx1Holds
      <4>2. Len(w.idx1) \in Nat /\ a.end \in Nat
        BY <1>1, <1>2, <4>1
      <4>. QED
        BY <3>2, <4>2
    <3>5. b.end = a.end + (IF id = 1 THEN 8 + 16 * Len(b.idx1) ELSE 0)
      BY <3>3, <3>4
    <3>6. id # 1 => b.idx1 = a.idx1
      BY <2>1
    <3>7. Idx1Holds(a, b.idx1) /\ CountsWritten(a, b)
      BY <3>2, <3>3
    <3>. QED
      BY <3>2, <3>3, <3>5, <3>6, <3>7
  <2>2. CASE id # 1
    <3>1. SameRest(a, a)
      BY DEF SameRest, SameCounts
    <3>2. a.end = a.end + 0
      BY <1>1, <1>2
    <3>3. b = a /\ (IF id = 1 THEN 8 + 16 * Len(b.idx1) ELSE 0) = 0
      BY <2>2
    <3> HIDE DEF b
    <3>4. b.end = a.end + (IF id = 1 THEN 8 + 16 * Len(b.idx1) ELSE 0)
      BY <3>2, <3>3
    <3>5. id # 1 => b.idx1 = a.idx1
      BY <3>3
    <3>. QED
      BY <1>2, <2>2, <3>1, <3>3, <3>4, <3>5, Zenon
  <2>. QED
    BY <2>1, <2>2
<1> HIDE DEF b
<1>6. b.end \in Nat /\ b.end >= f.end
  <2>1. b.end \in Nat /\ Len(b.idx1) \in Nat
    BY <1>5 DEF AviRec
  <2>. QED
    BY <1>1, <1>2, <1>5, <2>1
<1>7. Len(b.riffs) = Len(f.riffs) /\ b.riffs[id].start = f.riffs[id].start /\ b.riffs[id].start <= b.end
  <2>1. Len(b.riffs) = Len(f.riffs) /\ b.riffs[id].start = f.riffs[id].start
    BY <1>2, <1>5 DEF SameParts
  <2>. QED
    BY <1>1, <1>6, <2>1
<1>8. /\ g \in AviRec /\ SameRest(b, g) /\ SameParts(b, g) /\ g.end = b.end /\ g.master = b.master /\ g.idx1 = b.idx1
      /\ g.frames_hdr = b.frames_hdr /\ g.frames_hdr_all = b.frames_hdr_all
      /\ \A i \in 1 .. Len(f.riffs) : i # id => g.riffs[i] = b.riffs[i]
      /\ g.riffs[id].size = b.end - b.riffs[id].start /\ g.riffs[id].moviSize = b.riffs[id].moviSize
  <2>1. id \in 1 .. Len(b.riffs)
    BY <1>7
  <2>2. \A i \in 1 .. Len(b.riffs) : i # id => g.riffs[i] = b.riffs[i]
    BY <1>5, <1>7, <2>1, CloseRiffFields
  <2>. QED
    BY <1>5, <1>7, <2>1, <2>2, CloseRiffFields
<1> HIDE DEF g
<1>9. SameRest(f, g)
  BY <1>2, <1>5, <1>8 DEF SameRest, SameCounts
<1>10. SameParts(f, g)
  BY <1>2, <1>5, <1>8 DEF SameParts
<1>11. SafeFile(g)
  <2>1. g.end >= f.end /\ g.entries = f.entries
    BY <1>6, <1>8, <1>9 DEF SameRest
  <2>. QED
    BY <1>8, <1>10, <2>1, StaysSafe
<1>12. g.riffs[id].movi + g.riffs[id].moviSize = f.end
  <2>1. g.riffs[id].movi = f.riffs[id].movi /\ g.riffs[id].moviSize = f.end - f.riffs[id].movi
    BY <1>2, <1>5, <1>8, <1>10 DEF SameParts
  <2>. QED
    BY <1>1, <2>1
<1>13. g.riffs[id].start + g.riffs[id].size = g.end
  <2>1. g.riffs[id].start = f.riffs[id].start /\ g.riffs[id].size = b.end - f.riffs[id].start
    BY <1>7, <1>8, <1>10 DEF SameParts
  <2>. QED
    BY <1>1, <1>6, <1>8, <2>1
<1>14. id = 1 => Idx1Holds(f, g.idx1) /\ CountsWritten(f, g)
  BY <1>2, <1>5, <1>8 DEF Idx1Holds, CountsWritten, SameRest, SameCounts
<1>15. /\ g.master = f.master /\ g.end >= f.end /\ g.end = f.end + (IF id = 1 THEN 8 + 16 * Len(g.idx1) ELSE 0)
       /\ id # 1 => g.idx1 = f.idx1
       /\ \A i \in 1 .. Len(f.riffs) : i # id => g.riffs[i] = f.riffs[i]
  BY <1>2, <1>5, <1>6, <1>8
<1>. QED
  BY <1>3, <1>8, <1>9, <1>10, <1>11, <1>12, <1>13, <1>14, <1>15

(* The next part of a file begins behind the last.                         *)
LEMMA AddRiffFields ==
  ASSUME NEW f, SafeFile(f)
  PROVE  LET g == avi_add_new_riff(f)  n == Len(f.riffs)
         IN /\ g \in AviRec /\ SafeFile(g) /\ SameCounts(f, g) /\ g.master = f.master /\ g.idx1 = f.idx1
            /\ g.entries = clean_indexes(f) /\ Len(g.riffs) = n + 1 /\ g.end >= f.end
            /\ \A i \in 1 .. n : g.riffs[i] = f.riffs[i]
            /\ g.riffs[n + 1].start - 8 = f.end
<1> DEFINE g == avi_add_new_riff(f)  n == Len(f.riffs)  start == f.end + 8  movi == start + 12  e == movi + 4
           r == [start |-> start, movi |-> movi, size |-> 0, moviSize |-> 0]
           R == Append(f.riffs, r)
           C == clean_indexes(f)
<1>1. /\ f \in AviRec /\ f.end \in Nat /\ n \in Nat /\ n > 0 /\ f.riffs \in Seq(Riff)
      /\ \A i \in 1 .. n : f.riffs[i].movi \in Nat /\ f.riffs[i].start <= f.riffs[i].movi /\ f.riffs[i].movi + 4 <= f.end
  BY SafeFields
<1>2. f.riffs # <<>>
  BY <1>1
<1>3. g = [f EXCEPT !.riffs = R, !.end = e, !.entries = C]
  BY <1>2, Zenon DEF avi_add_new_riff
<1>4. start \in Nat /\ movi \in Nat /\ e \in Nat /\ movi + 4 = e /\ f.end <= e /\ start <= movi /\ start - 8 = f.end
  BY <1>1
<1> HIDE DEF start, movi, e, g
<1>5. r \in Riff /\ r.start = start /\ r.movi = movi
  BY <1>4 DEF Riff
<1> HIDE DEF r
<1>6. R \in Seq(Riff) /\ Len(R) = n + 1 /\ R[n + 1] = r /\ \A i \in 1 .. n : R[i] = f.riffs[i]
  BY <1>1, <1>5
<1>7. C \in [Streams -> Seq(Entry)] /\ \A s \in Streams : C[s] = <<>>
  BY DEF clean_indexes
<1> HIDE DEF R, C, n
<1>8. /\ g \in AviRec /\ g.riffs = R /\ g.end = e /\ g.entries = C /\ g.master = f.master /\ g.idx1 = f.idx1
      /\ SameCounts(f, g)
  BY <1>1, <1>3, <1>4, <1>6, <1>7 DEF AviRec, SameCounts
<1>9. EntriesOK(g)
  <2>1. \A s \in Streams : g.entries[s] = <<>> /\ Len(g.entries[s]) = 0
    BY <1>7, <1>8
  <2>. QED
    BY <2>1, TwoStreams DEF EntriesOK, Ascending
<1>10. ASSUME NEW i \in 1 .. n + 1 PROVE g.riffs[i].start <= g.riffs[i].movi /\ g.riffs[i].movi + 4 <= g.end
  <2>1. CASE i = n + 1
    <3>1. g.riffs[i].start = start /\ g.riffs[i].movi = movi
      BY <1>5, <1>6, <1>8, <2>1
    <3>. QED
      BY <1>4, <1>8, <3>1
  <2>2. CASE i # n + 1
    <3>1. i \in 1 .. n
      BY <1>1, <2>2
    <3>2. g.riffs[i] = f.riffs[i]
      BY <1>6, <1>8, <3>1
    <3>. QED
      BY <1>1, <1>4, <1>8, <3>1, <3>2
  <2>. QED
    BY <2>1, <2>2
<1>11. SafeFile(g)
  <2>1. LastRiff(g) = n + 1 /\ n + 1 > 0
    BY <1>1, <1>6, <1>8 DEF LastRiff
  <2>. QED
    BY <1>8, <1>9, <1>10, <2>1 DEF SafeFile
<1>. QED
  BY <1>4, <1>5, <1>6, <1>8, <1>11 DEF g, n, C
-----------------------------------------------------------------------------
(* Parts, places and indexes depend on these fields alone.                 *)
LEMMA SameFile ==
  ASSUME NEW f, NEW g, NEW ch, g.riffs = f.riffs, g.end = f.end, g.entries = f.entries,
         g.master = f.master, g.idx1 = f.idx1
  PROVE  /\ PartsOK(g) <=> PartsOK(f)
         /\ PlacedOK(g, ch) <=> PlacedOK(f, ch)
         /\ IndexOK(g, ch) <=> IndexOK(f, ch)
<1>1. LastRiff(g) = LastRiff(f) /\ \A id : EndOfMovi(g, id) = EndOfMovi(f, id)
  BY DEF LastRiff, EndOfMovi
<1>2. PartsOK(g) <=> PartsOK(f)
  BY <1>1, ZenonT(60) DEF PartsOK
<1>3. PlacedOK(g, ch) <=> PlacedOK(f, ch)
  BY <1>1, ZenonT(60) DEF PlacedOK
<1>4. IndexOK(g, ch) <=> IndexOK(f, ch)
  BY <1>1, ZenonT(60) DEF IndexOK
<1>. QED
  BY <1>2, <1>3, <1>4

(* What closing the last part establishes about it.                        *)
LEMMA NextRiffFields ==
  ASSUME NEW f, SafeFile(f), NEW id \in 1 .. Len(f.riffs)
  PROVE  LET g == NextRiff(f, id)  n == Len(f.riffs)
         IN /\ SafeFile(g) /\ SameCounts(f, g) /\ Len(g.riffs) = n + 1
            /\ g.entries = clean_indexes(f) /\ g.end >= f.end
            /\ \A i \in 1 .. n : g.riffs[i].start = f.riffs[i].start /\ g.riffs[i].movi = f.riffs[i].movi
            /\ id = n =>
                 /\ \A i \in 1 .. n - 1 : g.riffs[i] = f.riffs[i]
                 /\ g.riffs[n].movi + g.riffs[n].moviSize >= f.end
                 /\ g.riffs[n].movi + g.riffs[n].moviSize + (IF n = 1 THEN 8 + 16 * Len(g.idx1) ELSE 0)
                      = g.riffs[n].start + g.riffs[n].size
                 /\ g.riffs[n].start + g.riffs[n].size = g.riffs[n + 1].start - 8
                 /\ n = 1 => Idx1Holds(f, g.idx1)
                 /\ n # 1 => g.idx1 = f.idx1
                 /\ \A s \in Streams, i \in 1 .. MaxMaster : i # n => g.master[s][i] = f.master[s][i]
                 /\ n <= MaxMaster => \A s \in Streams :
                      LET ix == g.master[s][n]
                      IN /\ ix.base = f.riffs[n].movi /\ ix.entries = f.entries[s] /\ f.end <= ix.at
                         /\ ix.at + 32 + 8 * Len(ix.entries) <= g.riffs[n].movi + g.riffs[n].moviSize
<1> DEFINE a == avi_write_ix(f)  b == Seal(a, id)  g == avi_add_new_riff(b)  n == Len(f.riffs)
<1>1. NextRiff(f, id) = g
  BY DEF NextRiff, Seal
<1>2. /\ a \in AviRec /\ SameRest(f, a) /\ a.riffs = f.riffs /\ a.idx1 = f.idx1 /\ a.end >= f.end
      /\ \A s \in Streams, i \in 1 .. MaxMaster : i # n => a.master[s][i] = f.master[s][i]
      /\ n <= MaxMaster => \A s \in Streams :
           LET ix == a.master[s][n]
           IN /\ ix.base = f.riffs[n].movi /\ ix.entries = f.entries[s]
              /\ f.end <= ix.at /\ ix.at + 32 + 8 * Len(ix.entries) <= a.end
  BY WriteIxFields DEF LastRiff
<1> HIDE DEF a
<1>3. SafeFile(a)
  <2>1. SameParts(f, a) /\ a.entries = f.entries
    BY <1>2 DEF SameParts, SameRest
  <2>. QED
    BY <1>2, <2>1, StaysSafe
<1>4. /\ b \in AviRec /\ SafeFile(b) /\ SameRest(a, b) /\ SameParts(a, b) /\ b.master = a.master /\ b.end >= a.end
      /\ \A i \in 1 .. Len(a.riffs) : i # id => b.riffs[i] = a.riffs[i]
      /\ b.riffs[id].movi + b.riffs[id].moviSize = a.end
      /\ b.riffs[id].start + b.riffs[id].size = b.end
      /\ b.end = a.end + (IF id = 1 THEN 8 + 16 * Len(b.idx1) ELSE 0)
      /\ id = 1 => Idx1Holds(a, b.idx1) /\ CountsWritten(a, b)
      /\ id # 1 => b.idx1 = a.idx1
  <2>1. id \in 1 .. Len(a.riffs)
    BY <1>2
  <2>. QED
    BY <1>3, <2>1, SealFields
<1> HIDE DEF b
<1>5. /\ g \in AviRec /\ SafeFile(g) /\ SameCounts(b, g) /\ g.master = b.master /\ g.idx1 = b.idx1
      /\ g.entries = clean_indexes(b) /\ Len(g.riffs) = Len(b.riffs) + 1 /\ g.end >= b.end
      /\ \A i \in 1 .. Len(b.riffs) : g.riffs[i] = b.riffs[i]
      /\ g.riffs[Len(b.riffs) + 1].start - 8 = b.end
  BY <1>4, AddRiffFields
<1> HIDE DEF g, n
<1>6. Len(b.riffs) = n /\ Len(a.riffs) = n /\ n \in Nat /\ n > 0
  BY <1>2, <1>4, SafeFields DEF SameParts, n
<1>7. SameCounts(f, g) /\ g.entries = clean_indexes(f)
  BY <1>2, <1>4, <1>5 DEF SameCounts, SameRest, clean_indexes
<1>8. \A i \in 1 .. n : g.riffs[i].start = f.riffs[i].start /\ g.riffs[i].movi = f.riffs[i].movi
  BY <1>2, <1>4, <1>5, <1>6 DEF SameParts
<1>9. ASSUME id = n
      PROVE  /\ \A i \in 1 .. n - 1 : g.riffs[i] = f.riffs[i]
             /\ g.riffs[n].movi + g.riffs[n].moviSize >= f.end
             /\ g.riffs[n].movi + g.riffs[n].moviSize + (IF n = 1 THEN 8 + 16 * Len(g.idx1) ELSE 0)
                  = g.riffs[n].start + g.riffs[n].size
             /\ g.riffs[n].start + g.riffs[n].size = g.riffs[n + 1].start - 8
             /\ n = 1 => Idx1Holds(f, g.idx1)
             /\ n # 1 => g.idx1 = f.idx1
             /\ \A s \in Streams, i \in 1 .. MaxMaster : i # n => g.master[s][i] = f.master[s][i]
             /\ n <= MaxMaster => \A s \in Streams :
                  LET ix == g.master[s][n]
                  IN /\ ix.base = f.riffs[n].movi /\ ix.entries = f.entries[s] /\ f.end <= ix.at
                     /\ ix.at + 32 + 8 * Len(ix.entries) <= g.riffs[n].movi + g.riffs[n].moviSize
  <2>1. n \in 1 .. n
    BY <1>6
  <2>2. g.riffs[n] = b.riffs[n] /\ g.riffs[n + 1].start - 8 = b.end
    BY <1>5, <1>6, <2>1
  <2>3. g.riffs[n].movi + g.riffs[n].moviSize = a.end /\ g.riffs[n].start + g.riffs[n].size = b.end
    BY <1>4, <1>9, <2>2
  <2>4. ASSUME NEW i \in 1 .. n - 1 PROVE g.riffs[i] = f.riffs[i]
    <3>1. i \in 1 .. n /\ i # n
      BY <1>6
    <3>. QED
      BY <1>2, <1>4, <1>5, <1>6, <1>9, <3>1
  <2>5. b.end = a.end + (IF n = 1 THEN 8 + 16 * Len(g.idx1) ELSE 0)
    BY <1>4, <1>5, <1>9
  <2>6. n = 1 => Idx1Holds(f, g.idx1)
    BY <1>2, <1>4, <1>5, <1>9 DEF Idx1Holds, SameRest
  <2>7. g.master = a.master /\ (n # 1 => g.idx1 = f.idx1)
    BY <1>2, <1>4, <1>5, <1>9
  <2>. QED
    BY <1>2, <2>2, <2>3, <2>4, <2>5, <2>6, <2>7
<1>10. g.end >= f.end
  <2>1. f.end \in Nat /\ a.end \in Nat /\ b.end \in Nat /\ g.end \in Nat
    BY <1>2, <1>4, <1>5, SafeFields DEF AviRec
  <2>. QED
    BY <1>2, <1>4, <1>5, <2>1
<1>. QED
  BY <1>1, <1>5, <1>6, <1>7, <1>8, <1>9, <1>10 DEF n

(* A part is closed before the next begins, and its indexes stay right.    *)
LEMMA NextRiffLayout ==
  ASSUME NEW f, SafeFile(f), NEW ch \in Seq(Chunk), Layout(f, ch)
  PROVE  Layout(NextRiff(f, Len(f.riffs)), ch)
<1> DEFINE n == Len(f.riffs)  g == NextRiff(f, n)  E == g.riffs[n].movi + g.riffs[n].moviSize
<1>1. /\ n \in Nat /\ n > 0 /\ n \in 1 .. n /\ f.end \in Nat /\ EntriesOK(f) /\ LastRiff(f) = n
      /\ \A i \in 1 .. n : f.riffs[i].movi \in Nat /\ f.riffs[i].movi + 4 <= f.end
  BY SafeFields DEF LastRiff
<1>2. /\ SafeFile(g) /\ Len(g.riffs) = n + 1 /\ g.end >= f.end
      /\ g.entries = clean_indexes(f)
      /\ \A i \in 1 .. n : g.riffs[i].start = f.riffs[i].start /\ g.riffs[i].movi = f.riffs[i].movi
      /\ \A i \in 1 .. n - 1 : g.riffs[i] = f.riffs[i]
      /\ E >= f.end
      /\ E + (IF n = 1 THEN 8 + 16 * Len(g.idx1) ELSE 0) = g.riffs[n].start + g.riffs[n].size
      /\ g.riffs[n].start + g.riffs[n].size = g.riffs[n + 1].start - 8
      /\ n = 1 => Idx1Holds(f, g.idx1)
      /\ n # 1 => g.idx1 = f.idx1
      /\ \A s \in Streams, i \in 1 .. MaxMaster : i # n => g.master[s][i] = f.master[s][i]
      /\ n <= MaxMaster => \A s \in Streams :
           LET ix == g.master[s][n]
           IN /\ ix.base = f.riffs[n].movi /\ ix.entries = f.entries[s] /\ f.end <= ix.at
              /\ ix.at + 32 + 8 * Len(ix.entries) <= E
  BY <1>1, NextRiffFields
<1>3. g.end \in Nat /\ LastRiff(g) = n + 1
  BY <1>2, SafeFields DEF LastRiff
<1>4. PartsOK(f) /\ PlacedOK(f, ch) /\ IndexOK(f, ch)
  BY DEF Layout
<1> HIDE DEF g, n
<1>5. /\ \A id \in 1 .. n - 1 : EndOfMovi(g, id) = EndOfMovi(f, id)
      /\ EndOfMovi(g, n) = E /\ EndOfMovi(f, n) = f.end
  <2>1. ASSUME NEW id \in 1 .. n - 1 PROVE EndOfMovi(g, id) = EndOfMovi(f, id)
    <3>1. id < n /\ id < n + 1
      BY <1>1
    <3>2. g.riffs[id] = f.riffs[id]
      BY <1>2
    <3>. QED
      BY <1>1, <1>3, <3>1, <3>2 DEF EndOfMovi
  <2>2. n < n + 1 /\ ~(n < n)
    BY <1>1
  <2>. QED
    BY <1>1, <1>3, <2>1, <2>2 DEF EndOfMovi
<1> HIDE DEF E
<1>6. PartsOK(g)
  <2>1. ASSUME NEW id \in 1 .. n - 1
        PROVE  /\ g.riffs[id].start + g.riffs[id].size = g.riffs[id + 1].start - 8
               /\ EndOfMovi(g, id) + (IF id = 1 THEN 8 + 16 * Len(g.idx1) ELSE 0) = g.riffs[id].start + g.riffs[id].size
    <3>1. id + 1 \in 1 .. n /\ id \in 1 .. n /\ n # 1
      BY <1>1
    <3>2. g.riffs[id] = f.riffs[id] /\ g.riffs[id + 1].start = f.riffs[id + 1].start /\ g.idx1 = f.idx1
      BY <1>2, <3>1
    <3>3. /\ f.riffs[id].start + f.riffs[id].size = f.riffs[id + 1].start - 8
          /\ EndOfMovi(f, id) + (IF id = 1 THEN 8 + 16 * Len(f.idx1) ELSE 0) = f.riffs[id].start + f.riffs[id].size
      BY <1>1, <1>4 DEF PartsOK
    <3>. QED
      BY <1>5, <3>2, <3>3
  <2>2. /\ g.riffs[n].start + g.riffs[n].size = g.riffs[n + 1].start - 8
        /\ EndOfMovi(g, n) + (IF n = 1 THEN 8 + 16 * Len(g.idx1) ELSE 0) = g.riffs[n].start + g.riffs[n].size
    BY <1>2, <1>5
  <2>3. ASSUME NEW id \in 1 .. LastRiff(g) - 1 PROVE id = n \/ id \in 1 .. n - 1
    BY <1>1, <1>3
  <2>4. LastRiff(g) # 1
    BY <1>1, <1>3
  <2>. QED
    BY <2>1, <2>2, <2>3, <2>4 DEF PartsOK
<1>7. PlacedOK(g, ch)
  <2>1. /\ \A k \in 1 .. Len(ch) :
             /\ ch[k].riff \in 1 .. n /\ f.riffs[ch[k].riff].movi < ch[k].data
             /\ ch[k].data + ch[k].len <= EndOfMovi(f, ch[k].riff) /\ ch[k].data + ch[k].len <= f.end
        /\ \A j, k \in 1 .. Len(ch) : j < k => ch[j].data + ch[j].len <= ch[k].data - 8
    BY <1>1, <1>4 DEF PlacedOK
  <2>2. ASSUME NEW k \in 1 .. Len(ch)
        PROVE  /\ ch[k].riff \in 1 .. n + 1 /\ g.riffs[ch[k].riff].movi < ch[k].data
               /\ ch[k].data + ch[k].len <= EndOfMovi(g, ch[k].riff) /\ ch[k].data + ch[k].len <= g.end
    <3> DEFINE r == ch[k].riff  z == ch[k].data + ch[k].len
    <3>1. r \in 1 .. n /\ r \in 1 .. n + 1 /\ f.riffs[r].movi < ch[k].data /\ z <= EndOfMovi(f, r) /\ z <= f.end
      BY <1>1, <2>1
    <3>2. z \in Nat
      <4>1. ch[k] \in Chunk
        OBVIOUS
      <4>2. ch[k].data \in Nat /\ ch[k].len \in Nat
        BY <4>1 DEF Chunk
      <4>. QED
        BY <4>2
    <3> HIDE DEF r, z
    <3>3. z <= g.end /\ (z <= f.end => z <= E)
      <4>1. E \in Int
        <5>1. g.riffs[n] \in Riff
          BY <1>2, <1>1, SafeFields
        <5>2. g.riffs[n].movi \in Nat /\ g.riffs[n].moviSize \in Nat
          BY <5>1 DEF Riff
        <5>. QED
          BY <5>2 DEF E
      <4>. QED
        BY <1>1, <1>2, <1>3, <3>1, <3>2, <4>1, SMTT(30)
    <3>4. z <= EndOfMovi(g, r)
      <4>1. r = n \/ r \in 1 .. n - 1
        BY <1>1, <3>1
      <4>. QED
        BY <1>5, <3>1, <3>3, <4>1
    <3>5. g.riffs[r].movi < ch[k].data
      BY <1>2, <3>1
    <3>. QED
      BY <3>1, <3>3, <3>4, <3>5 DEF r, z
  <2>. QED
    BY <1>3, <2>1, <2>2 DEF PlacedOK
<1>8. IndexOK(g, ch)
  <2>1. ASSUME NEW s \in Streams PROVE FoundBy(ToSet(g.entries[s]), g.riffs[n + 1].movi) = PartOf(ch, s, n + 1)
    <3>1. ToSet(g.entries[s]) = {}
      BY <1>2 DEF clean_indexes, ToSet
    <3>2. \A k \in 1 .. Len(ch) : ch[k].riff # n + 1
      <4>1. \A k \in 1 .. Len(ch) : ch[k].riff \in 1 .. n
        BY <1>1, <1>4 DEF PlacedOK
      <4>. QED
        BY <1>1, <4>1
    <3>3. PartOf(ch, s, n + 1) = {}
      BY <3>2 DEF PartOf
    <3>. QED
      BY <3>1, <3>3 DEF FoundBy
  <2>2. ASSUME NEW s \in Streams, NEW id \in 1 .. n, id <= MaxMaster
        PROVE  LET ix == g.master[s][id]
               IN /\ g.riffs[id].movi < ix.at /\ ix.at + 32 + 8 * Len(ix.entries) <= EndOfMovi(g, id)
                  /\ Ascending(ix.entries)
                  /\ FoundBy(ToSet(ix.entries), ix.base) = PartOf(ch, s, id)
    <3>1. CASE id = n
      <4> DEFINE ix == g.master[s][n]
      <4>1. /\ ix.base = f.riffs[n].movi /\ ix.entries = f.entries[s] /\ f.end <= ix.at
            /\ ix.at + 32 + 8 * Len(ix.entries) <= EndOfMovi(g, n)
        BY <1>2, <1>5, <2>2, <3>1
      <4>2. g.riffs[n].movi < ix.at
        <5>1. g.riffs[n].movi = f.riffs[n].movi /\ f.riffs[n].movi \in Nat /\ f.riffs[n].movi + 4 <= f.end
          BY <1>1, <1>2
        <5>2. ix.at \in Nat
          <6>1. g.master \in [Streams -> [1 .. MaxMaster -> Ix]] /\ n \in 1 .. MaxMaster
            BY <1>1, <1>2, <2>2, <3>1, SafeFields, AviAssumption DEF AviAssumption
          <6>2. ix \in Ix
            BY <6>1
          <6>. QED
            BY <6>2 DEF Ix
        <5>3. f.end <= ix.at /\ f.end \in Nat
          BY <1>1, <4>1
        <5> DEFINE a == ix.at  e == f.end  v == f.riffs[n].movi
        <5>4. a \in Nat /\ e \in Nat /\ v \in Nat /\ v + 4 <= e /\ e <= a
          BY <5>1, <5>2, <5>3
        <5> HIDE DEF a, e, v
        <5>5. v < a
          BY <5>4
        <5>. QED
          BY <5>1, <5>5, Zenon DEF a, v
      <4>3. Ascending(ix.entries)
        BY <1>1, <4>1 DEF EntriesOK
      <4>4. FoundBy(ToSet(ix.entries), ix.base) = PartOf(ch, s, n)
        BY <1>1, <1>4, <4>1 DEF IndexOK
      <4> HIDE DEF ix
      <4>. QED
        BY <3>1, <4>1, <4>2, <4>3, <4>4 DEF ix
    <3>2. CASE id # n
      <4>1. id \in 1 .. n - 1 /\ id \in 1 .. MaxMaster
        BY <1>1, <2>2, <3>2, AviAssumption DEF AviAssumption
      <4>2. g.master[s][id] = f.master[s][id] /\ g.riffs[id] = f.riffs[id] /\ EndOfMovi(g, id) = EndOfMovi(f, id)
        BY <1>2, <1>5, <3>2, <4>1
      <4>3. LET ix == f.master[s][id]
            IN /\ f.riffs[id].movi < ix.at /\ ix.at + 32 + 8 * Len(ix.entries) <= EndOfMovi(f, id)
               /\ Ascending(ix.entries)
               /\ FoundBy(ToSet(ix.entries), ix.base) = PartOf(ch, s, id)
        BY <1>1, <1>4, <2>2, <4>1 DEF IndexOK
      <4>. QED
        BY <4>2, <4>3
    <3>. QED
      BY <3>1, <3>2
  <2>3. /\ Ascending(g.idx1)
        /\ \A s \in Streams :
             FoundBy({e \in ToSet(g.idx1) : e.stream = s}, g.riffs[1].movi) = PartOf(ch, s, 1)
    <3>1. CASE n = 1
      <4>1. f.riffs[1].movi \in Nat /\ g.riffs[1].movi = f.riffs[1].movi
        BY <1>1, <1>2, <3>1
      <4>2. \A s \in Streams : FoundBy(ToSet(f.entries[s]), f.riffs[1].movi) = PartOf(ch, s, 1)
        BY <1>1, <1>4, <3>1 DEF IndexOK
      <4>3. Idx1Holds(f, g.idx1)
        BY <1>2, <3>1
      <4>. QED
        BY <4>1, <4>2, <4>3 DEF Idx1Holds
    <3>2. CASE n # 1
      <4>1. n > 1 /\ 1 \in 1 .. n
        BY <1>1, <3>2
      <4>2. g.idx1 = f.idx1 /\ g.riffs[1].movi = f.riffs[1].movi
        BY <1>2, <3>2, <4>1
      <4>. QED
        BY <1>1, <1>4, <4>1, <4>2 DEF IndexOK
    <3>. QED
      BY <3>1, <3>2
  <2>4. \A id \in 1 .. LastRiff(g) - 1 : id \in 1 .. n
    BY <1>1, <1>3
  <2>. QED
    BY <1>3, <2>1, <2>2, <2>3, <2>4 DEF IndexOK
<1>. QED
  BY <1>6, <1>7, <1>8 DEF Layout, g, n
-----------------------------------------------------------------------------
(* A chunk more, and what an index finds with an entry more.               *)
ChunkAt(f, p) ==
  [stream |-> p.stream, riff |-> LastRiff(f), data |-> f.end + 8, len |-> p.len, key |-> p.key]
EntryAt(f, p) == [pos |-> f.end - f.riffs[LastRiff(f)].movi, len |-> p.len, key |-> p.key]
PacketRec == [stream : Streams, len : Nat, key : BOOLEAN]

(* A chunk more belongs to its part and its stream.                        *)
LEMMA PartOfAppend ==
  ASSUME NEW ch \in Seq(Chunk), NEW c \in Chunk, NEW s, NEW id
  PROVE  PartOf(Append(ch, c), s, id)
           = PartOf(ch, s, id) \cup
             (IF c.stream = s /\ c.riff = id THEN {[data |-> c.data, len |-> c.len, key |-> c.key]} ELSE {})
<1> DEFINE d == Append(ch, c)  n == Len(ch)
           Sel(q) == {j \in 1 .. Len(q) : q[j].stream = s /\ q[j].riff = id}
           Rec(x) == [data |-> x.data, len |-> x.len, key |-> x.key]
<1>1. n \in Nat /\ Len(d) = n + 1 /\ d[n + 1] = c /\ \A k \in 1 .. n : d[k] = ch[k]
  OBVIOUS
<1> HIDE DEF d, n
<1>2. Sel(d) = Sel(ch) \cup (IF c.stream = s /\ c.riff = id THEN {n + 1} ELSE {})
  <2>1. \A k \in 1 .. n + 1 : k = n + 1 \/ k \in 1 .. n
    BY <1>1
  <2>2. Len(ch) = n /\ n + 1 \in 1 .. n + 1 /\ \A k \in 1 .. n : k \in 1 .. n + 1
    BY <1>1 DEF n
  <2>. QED
    BY <1>1, <2>1, <2>2
<1>3. Sel(ch) \subseteq 1 .. n
  BY DEF n
<1>4. PartOf(d, s, id) = {Rec(d[k]) : k \in Sel(d)} /\ PartOf(ch, s, id) = {Rec(ch[k]) : k \in Sel(ch)}
  BY Zenon DEF PartOf
<1> HIDE DEF Sel
<1>5. {Rec(d[k]) : k \in Sel(ch)} = {Rec(ch[k]) : k \in Sel(ch)}
  BY <1>1, <1>3
<1>6. CASE c.stream = s /\ c.riff = id
  <2>1. Sel(d) = Sel(ch) \cup {n + 1}
    BY <1>2, <1>6
  <2>2. {Rec(d[k]) : k \in Sel(d)} = {Rec(d[k]) : k \in Sel(ch)} \cup {Rec(d[n + 1])}
    BY <2>1
  <2>. QED
    BY <1>1, <1>4, <1>5, <1>6, <2>2 DEF d
<1>7. CASE ~(c.stream = s /\ c.riff = id)
  <2>1. Sel(d) = Sel(ch)
    BY <1>2, <1>7
  <2>. QED
    BY <1>4, <1>5, <1>7, <2>1 DEF d
<1>. QED
  BY <1>6, <1>7

(* An entry more finds one chunk more.                                     *)
LEMMA FoundByAppend ==
  ASSUME NEW E \in Seq(Entry), NEW e \in Entry, NEW base
  PROVE  FoundBy(ToSet(Append(E, e)), base)
           = FoundBy(ToSet(E), base) \cup {[data |-> base + e.pos + 8, len |-> e.len, key |-> e.key]}
<1> DEFINE F == Append(E, e)  n == Len(E)
<1>1. n \in Nat /\ Len(F) = n + 1 /\ F[n + 1] = e /\ \A k \in 1 .. n : F[k] = E[k]
  OBVIOUS
<1>2. ToSet(E) = {E[k] : k \in 1 .. n} /\ ToSet(F) = {F[k] : k \in 1 .. n + 1}
  BY <1>1 DEF ToSet
<1> HIDE DEF F, n
<1>3. ToSet(F) = ToSet(E) \cup {e}
  <2>1. \A k \in 1 .. n + 1 : k = n + 1 \/ k \in 1 .. n
    BY <1>1
  <2>2. n + 1 \in 1 .. n + 1 /\ \A k \in 1 .. n : k \in 1 .. n + 1
    BY <1>1
  <2>. QED
    BY <1>1, <1>2, <2>1, <2>2
<1>. QED
  BY <1>3 DEF FoundBy, F

(* A chunk more counts as one frame and as its bytes.                      *)
LEMMA CountsAppend ==
  ASSUME NEW ch \in Seq(Chunk), NEW c \in Chunk, NEW s
  PROVE  /\ Cardinality(ChunksOf(Append(ch, c), s))
              = Cardinality(ChunksOf(ch, s)) + (IF c.stream = s THEN 1 ELSE 0)
         /\ Cardinality(BytesOf(Append(ch, c), s))
              = Cardinality(BytesOf(ch, s)) + (IF c.stream = s THEN c.len ELSE 0)
         /\ Cardinality(ChunksOf(ch, s)) \in Nat /\ Cardinality(BytesOf(ch, s)) \in Nat
<1> DEFINE d == Append(ch, c)  n == Len(ch)  K == ChunksOf(ch, s)  B == BytesOf(ch, s)
           D == ChunksOf(d, s)  R(k) == {k} \X (1 .. ch[k].len)  new == {n + 1} \X (1 .. c.len)
<1>1. n \in Nat /\ Len(d) = n + 1 /\ d[n + 1] = c /\ \A k \in 1 .. n : d[k] = ch[k]
  OBVIOUS
<1>2. c.len \in Nat /\ \A k \in 1 .. n : ch[k].len \in Nat
  <2>1. \A k \in 1 .. n : ch[k] \in Chunk
    OBVIOUS
  <2>. QED
    BY <2>1 DEF Chunk
<1> HIDE DEF d
<1>3. K \subseteq 1 .. n /\ K = {k \in 1 .. n : ch[k].stream = s}
  BY DEF ChunksOf
<1>4. D = {k \in 1 .. n + 1 : d[k].stream = s}
  BY <1>1 DEF ChunksOf
<1>5. B = UNION {R(k) : k \in K}
  BY DEF BytesOf
<1>6. BytesOf(d, s) = UNION {{k} \X (1 .. d[k].len) : k \in D}
  BY DEF BytesOf
<1> HIDE DEF n, K, B, D
<1>7. IsFiniteSet(K)
  BY <1>1, <1>3, FS_Interval, FS_Subset
<1>8. D = K \cup (IF c.stream = s THEN {n + 1} ELSE {}) /\ n + 1 \notin K
  <2>1. \A k \in 1 .. n + 1 : k = n + 1 \/ k \in 1 .. n
    BY <1>1
  <2>2. n + 1 \in 1 .. n + 1 /\ n + 1 \notin 1 .. n /\ \A k \in 1 .. n : k \in 1 .. n + 1
    BY <1>1
  <2>. QED
    BY <1>1, <1>3, <1>4, <2>1, <2>2
<1>9. Cardinality(K) \in Nat
  BY <1>7, FS_CardinalityType
<1>10. Cardinality(D) = Cardinality(K) + (IF c.stream = s THEN 1 ELSE 0)
  <2>1. CASE c.stream = s
    <3>1. D = K \cup {n + 1}
      BY <1>8, <2>1
    <3>2. Cardinality(K \cup {n + 1}) = Cardinality(K) + 1
      BY <1>7, <1>8, FS_AddElement
    <3>. QED
      BY <2>1, <3>1, <3>2
  <2>2. CASE c.stream # s
    <3>1. D = K
      BY <1>8, <2>2
    <3>. QED
      BY <1>9, <2>2, <3>1
  <2>. QED
    BY <2>1, <2>2
<1>11. ASSUME NEW k, NEW l \in Nat
       PROVE  IsFiniteSet({k} \X (1 .. l)) /\ Cardinality({k} \X (1 .. l)) = l
  <2>1. IsFiniteSet({k}) /\ Cardinality({k}) = 1
    BY FS_Singleton
  <2>2. IsFiniteSet(1 .. l) /\ Cardinality(1 .. l) = l
    <3>1. 1 \in Int /\ l \in Int /\ (IF 1 > l THEN 0 ELSE l - 1 + 1) = l
      OBVIOUS
    <3>2. IsFiniteSet(1 .. l) /\ Cardinality(1 .. l) = (IF 1 > l THEN 0 ELSE l - 1 + 1)
      BY <3>1, FS_Interval
    <3>. QED
      BY <3>1, <3>2
  <2>3. IsFiniteSet({k} \X (1 .. l)) /\ Cardinality({k} \X (1 .. l)) = Cardinality({k}) * Cardinality(1 .. l)
    BY <2>1, <2>2, FS_Product
  <2>. QED
    BY <2>1, <2>2, <2>3
<1>12. IsFiniteSet(B)
  <2> DEFINE Z == {R(k) : k \in K}
  <2>1. IsFiniteSet(Z)
    <3> DEFINE h == [k \in K |-> R(k)]
    <3>1. h \in Surjection(K, Z)
      <4>1. h \in [K -> Z]
        OBVIOUS
      <4>2. \A z \in Z : \E k \in K : h[k] = z
        OBVIOUS
      <4>. QED
        BY <4>1, <4>2, Zenon DEF Surjection
    <3> HIDE DEF h, Z
    <3>. QED
      BY <1>7, <3>1, FS_Surjection
  <2>2. ASSUME NEW z \in Z PROVE IsFiniteSet(z)
    <3>1. PICK k \in K : z = R(k)
      OBVIOUS
    <3>2. ch[k].len \in Nat
      BY <1>2, <1>3
    <3>. QED
      BY <1>11, <3>1, <3>2
  <2> HIDE DEF Z
  <2>3. IsFiniteSet(UNION Z)
    BY <2>1, <2>2, FS_UNION
  <2>. QED
    BY <1>5, <2>3 DEF Z
<1>13. Cardinality(B) \in Nat
  BY <1>12, FS_CardinalityType
<1>14. UNION {{k} \X (1 .. d[k].len) : k \in K} = B
  BY <1>1, <1>3, <1>5
<1>15. Cardinality(BytesOf(d, s)) = Cardinality(B) + (IF c.stream = s THEN c.len ELSE 0)
  <2>1. CASE c.stream = s
    <3>1. D = K \cup {n + 1}
      BY <1>8, <2>1
    <3>2. BytesOf(d, s) = B \cup new
      BY <1>1, <1>6, <1>14, <3>1
    <3>3. B \cap new = {}
      <4>1. \A x \in B : x[1] \in K
        BY <1>5
      <4>2. \A x \in new : x[1] = n + 1
        OBVIOUS
      <4>. QED
        BY <1>8, <4>1, <4>2
    <3>4. IsFiniteSet(new) /\ Cardinality(new) = c.len
      BY <1>2, <1>11
    <3> HIDE DEF new
    <3>5. Cardinality(B \cup new) = Cardinality(B) + Cardinality(new) - Cardinality(B \cap new)
      BY <1>12, <3>4, FS_Union
    <3>6. Cardinality(B \cap new) = 0
      BY <3>3, FS_EmptySet
    <3>. QED
      BY <1>2, <1>13, <2>1, <3>2, <3>4, <3>5, <3>6
  <2>2. CASE c.stream # s
    <3>1. D = K
      BY <1>8, <2>2
    <3>2. BytesOf(d, s) = B
      BY <1>6, <1>14, <3>1
    <3>. QED
      BY <1>13, <2>2, <3>2
  <2>. QED
    BY <2>1, <2>2
<1>. QED
  BY <1>9, <1>10, <1>13, <1>15 DEF d, D, K, B

(* What StoreChunk does to the fields of the file.                         *)
LEMMA StoreFields ==
  ASSUME NEW f, SafeFile(f), NEW p \in PacketRec
  PROVE  LET g == StoreChunk(f, p)
         IN /\ g \in AviRec /\ g.riffs = f.riffs /\ g.master = f.master /\ g.idx1 = f.idx1
            /\ g.packet_count = f.packet_count
            /\ g.strm_length = f.strm_length + (IF p.stream = Audio THEN p.len ELSE 0)
            /\ g.end \in Nat /\ g.end >= f.end + 8 + p.len /\ g.end >= f.end
            /\ g.entries[p.stream] = Append(f.entries[p.stream], EntryAt(f, p))
            /\ \A s \in Streams : s # p.stream => g.entries[s] = f.entries[s]
            /\ EntryAt(f, p) \in Entry /\ ChunkAt(f, p) \in Chunk
            /\ f.riffs[Len(f.riffs)].movi + EntryAt(f, p).pos = f.end
<1> DEFINE g == StoreChunk(f, p)  s == p.stream  x == EntryAt(f, p)  m == f.riffs[Len(f.riffs)].movi
           e == f.end + 8 + p.len + (p.len % 2)  l == IF s = Audio THEN f.strm_length + p.len ELSE f.strm_length
           N == [f.entries EXCEPT ![s] = Append(f.entries[s], x)]
<1>1. /\ f \in AviRec /\ Len(f.riffs) \in Nat /\ Len(f.riffs) > 0 /\ Len(f.riffs) \in 1 .. Len(f.riffs) /\ f.end \in Nat
      /\ f.entries \in [Streams -> Seq(Entry)] /\ m \in Nat /\ m <= f.end
  BY SafeFields
<1>2. s \in Streams /\ p.len \in Nat /\ p.key \in BOOLEAN
  BY DEF PacketRec
<1>3. f.strm_length \in Nat
  BY <1>1 DEF AviRec
<1>4. x = [pos |-> f.end - m, len |-> p.len, key |-> p.key]
  BY DEF EntryAt, LastRiff
<1>5. g = [f EXCEPT !.strm_length = l, !.entries = N, !.end = e]
  <2>1. g = [f EXCEPT !.strm_length = IF s = Audio THEN @ + p.len ELSE @,
                      !.entries[s] = Append(@, x), !.end = @ + 8 + p.len + (p.len % 2)]
    BY Zenon DEF StoreChunk, EntryAt
  <2>. QED
    BY <2>1, Zenon
<1> HIDE DEF g, m
<1>6. f.end - m \in Nat /\ m + (f.end - m) = f.end /\ f.end + 8 \in Nat
  BY <1>1
<1>7. x \in Entry /\ m + x.pos = f.end
  BY <1>2, <1>4, <1>6 DEF Entry
<1>8. e \in Nat /\ e >= f.end + 8 + p.len /\ e >= f.end
  <2> DEFINE a == f.end  b == p.len  c == p.len % 2
  <2>1. c \in Nat /\ a \in Nat /\ b \in Nat /\ e = a + 8 + b + c
    BY <1>1, <1>2
  <2> HIDE DEF a, b, c, e
  <2>2. e \in Nat /\ e >= a + 8 + b /\ e >= a
    BY <2>1
  <2>. QED
    BY <2>2 DEF a, b
<1>9. l \in Nat /\ l = f.strm_length + (IF s = Audio THEN p.len ELSE 0)
  BY <1>2, <1>3
<1> HIDE DEF x, e, l
<1>10. /\ N \in [Streams -> Seq(Entry)] /\ N[s] = Append(f.entries[s], x)
       /\ \A t \in Streams : t # s => N[t] = f.entries[t]
  BY <1>1, <1>2, <1>7
<1> HIDE DEF N
<1>11. /\ g \in AviRec /\ g.riffs = f.riffs /\ g.master = f.master /\ g.idx1 = f.idx1
       /\ g.packet_count = f.packet_count /\ g.strm_length = l /\ g.end = e /\ g.entries = N
  BY <1>1, <1>5, <1>8, <1>9, <1>10 DEF AviRec
<1>12. ChunkAt(f, p) \in Chunk
  BY <1>1, <1>2, <1>6 DEF ChunkAt, Chunk, LastRiff
<1>. QED
  BY <1>7, <1>8, <1>9, <1>10, <1>11, <1>12 DEF g, x, m

(* The entry of the new chunk lies behind all others of its part.          *)
LEMMA StoreSafe ==
  ASSUME NEW f, SafeFile(f), NEW p \in PacketRec
  PROVE  SafeFile(StoreChunk(f, p))
<1> DEFINE g == StoreChunk(f, p)  s == p.stream  x == EntryAt(f, p)  n == Len(f.riffs)  m == f.riffs[n].movi
           E(t) == f.entries[t]  F(t) == g.entries[t]
<1>1. /\ n \in Nat /\ n > 0 /\ n \in 1 .. n /\ f.end \in Nat /\ EntriesOK(f) /\ LastRiff(f) = n
      /\ f.entries \in [Streams -> Seq(Entry)] /\ m \in Nat
      /\ \A i \in 1 .. n : /\ f.riffs[i].movi \in Nat /\ f.riffs[i].start <= f.riffs[i].movi
                           /\ f.riffs[i].movi + 4 <= f.end
  <2>1. n \in Nat /\ n > 0 /\ f.end \in Nat /\ EntriesOK(f) /\ f.entries \in [Streams -> Seq(Entry)]
    BY SafeFields
  <2>2. n \in 1 .. n
    BY <2>1
  <2>3. \A i \in 1 .. n : /\ f.riffs[i].movi \in Nat /\ f.riffs[i].start <= f.riffs[i].movi
                          /\ f.riffs[i].movi + 4 <= f.end
    BY SafeFields
  <2>4. m \in Nat
    BY <2>2, <2>3
  <2>. QED
    BY <2>1, <2>2, <2>3, <2>4 DEF LastRiff
<1>2. s \in Streams /\ p.len \in Nat
  BY DEF PacketRec
<1>3. /\ g \in AviRec /\ g.riffs = f.riffs /\ g.end \in Nat /\ g.end >= f.end + 8 + p.len /\ g.end >= f.end
      /\ F(s) = Append(E(s), x) /\ \A t \in Streams : t # s => F(t) = E(t)
      /\ x \in Entry /\ m + x.pos = f.end
  BY StoreFields
<1>4. x.pos \in Nat
  BY <1>3 DEF Entry
<1> HIDE DEF g, x, n, m
<1>5. LastRiff(g) = n
  BY <1>1, <1>3 DEF LastRiff
<1>6. ASSUME NEW t \in Streams
      PROVE  /\ Len(E(t)) \in Nat
             /\ \A j \in 1 .. Len(E(t)) : E(t)[j].pos \in Nat /\ m + E(t)[j].pos + 8 <= f.end /\ E(t)[j].pos < x.pos
             /\ \A j, k \in 1 .. Len(E(t)) : j < k => E(t)[j].pos < E(t)[k].pos
  <2>1. E(t) \in Seq(Entry)
    BY <1>1
  <2>2. ASSUME NEW j \in 1 .. Len(E(t))
        PROVE  E(t)[j].pos \in Nat /\ m + E(t)[j].pos + 8 <= f.end /\ E(t)[j].pos < x.pos
    <3> DEFINE y == E(t)[j].pos
    <3>1. y \in Nat
      <4>1. E(t)[j] \in Entry
        BY <2>1
      <4>. QED
        BY <4>1 DEF Entry
    <3>2. m + y + 8 <= f.end
      BY <1>1 DEF EntriesOK, m
    <3> HIDE DEF y
    <3>3. y < x.pos
      BY <1>1, <1>3, <1>4, <3>1, <3>2
    <3>. QED
      BY <3>1, <3>2, <3>3 DEF y
  <2>3. \A j, k \in 1 .. Len(E(t)) : j < k => E(t)[j].pos < E(t)[k].pos
    BY <1>1 DEF EntriesOK, Ascending
  <2>. QED
    BY <2>1, <2>2, <2>3
<1>7. /\ Len(F(s)) = Len(E(s)) + 1 /\ F(s)[Len(E(s)) + 1] = x
      /\ \A j \in 1 .. Len(E(s)) : F(s)[j] = E(s)[j]
      /\ \A j \in 1 .. Len(F(s)) : j = Len(E(s)) + 1 \/ j \in 1 .. Len(E(s))
  <2>1. E(s) \in Seq(Entry)
    BY <1>1, <1>2
  <2> DEFINE A == E(s)
  <2> HIDE DEF A
  <2>2. A \in Seq(Entry) /\ F(s) = Append(A, x)
    BY <1>3, <2>1 DEF A
  <2>3. /\ Len(F(s)) = Len(A) + 1 /\ F(s)[Len(A) + 1] = x /\ Len(A) \in Nat
        /\ \A j \in 1 .. Len(A) : F(s)[j] = A[j]
    BY <1>3, <2>2
  <2>4. \A j \in 1 .. Len(A) + 1 : j = Len(A) + 1 \/ j \in 1 .. Len(A)
    BY <2>3
  <2>. QED
    BY <2>3, <2>4 DEF A
<1>8. ASSUME NEW t \in Streams
      PROVE  /\ Ascending(F(t))
             /\ \A j \in 1 .. Len(F(t)) : m + F(t)[j].pos + 8 <= g.end
  <2>1. CASE t = s
    <3> DEFINE L == Len(E(s))
    <3>1. L \in Nat
      BY <1>2, <1>6
    <3> HIDE DEF L
    <3>2. ASSUME NEW j \in 1 .. Len(F(s)), NEW k \in 1 .. Len(F(s)), j < k PROVE F(s)[j].pos < F(s)[k].pos
      <4>1. j \in 1 .. L /\ (k = L + 1 \/ k \in 1 .. L)
        BY <1>7, <3>1, <3>2 DEF L
      <4>2. F(s)[j] = E(s)[j] /\ E(s)[j].pos < x.pos
        BY <1>2, <1>6, <1>7, <4>1 DEF L
      <4>. QED
        BY <1>2, <1>6, <1>7, <3>2, <4>1, <4>2 DEF L
    <3>3. ASSUME NEW j \in 1 .. Len(F(s)) PROVE m + F(s)[j].pos + 8 <= g.end
      <4>1. CASE j = L + 1
        <5> DEFINE y == x.pos  z == p.len
        <5>1. F(s)[j].pos = y
          BY <1>7, <4>1 DEF L
        <5>2. y \in Nat /\ m + y = f.end /\ z \in Nat /\ g.end >= f.end + 8 + z
          BY <1>2, <1>3, <1>4
        <5> HIDE DEF y, z
        <5>3. m + y + 8 <= g.end
          BY <1>1, <1>3, <5>2, SMTT(30)
        <5>. QED
          BY <5>1, <5>3
      <4>2. CASE j # L + 1
        <5> DEFINE y == F(s)[j].pos
        <5>1. y \in Nat /\ m + y + 8 <= f.end
          BY <1>2, <1>6, <1>7, <4>2 DEF L
        <5> HIDE DEF y
        <5>2. m + y + 8 <= g.end
          BY <1>1, <1>3, <5>1
        <5>. QED
          BY <5>2 DEF y
      <4>. QED
        BY <4>1, <4>2
    <3>. QED
      BY <2>1, <3>2, <3>3 DEF Ascending
  <2>2. CASE t # s
    <3>1. F(t) = E(t)
      BY <1>3, <2>2
    <3>2. ASSUME NEW j \in 1 .. Len(E(t)) PROVE m + E(t)[j].pos + 8 <= g.end
      <4> DEFINE y == E(t)[j].pos
      <4>1. y \in Nat /\ m + y + 8 <= f.end
        BY <1>6
      <4> HIDE DEF y
      <4>2. m + y + 8 <= g.end
        BY <1>1, <1>3, <4>1
      <4>. QED
        BY <4>2 DEF y
    <3>. QED
      BY <1>6, <3>1, <3>2 DEF Ascending
  <2>. QED
    BY <2>1, <2>2
<1>9. ASSUME NEW i \in 1 .. Len(F(Video)), NEW j \in 1 .. Len(F(Audio)) PROVE F(Video)[i].pos # F(Audio)[j].pos
  <2>1. \A a \in 1 .. Len(E(Video)), b \in 1 .. Len(E(Audio)) : E(Video)[a].pos # E(Audio)[b].pos
    BY <1>1 DEF EntriesOK
  <2>2. CASE s = Video
    <3>1. F(Audio) = E(Audio)
      BY <1>3, <2>2, TwoStreams
    <3>2. E(Audio)[j].pos < x.pos /\ E(Audio)[j].pos \in Nat
      BY <1>6, <3>1, TwoStreams
    <3>3. F(Video)[i] = x \/ (i \in 1 .. Len(E(Video)) /\ F(Video)[i] = E(Video)[i])
      BY <1>7, <2>2
    <3>. QED
      BY <1>4, <2>1, <3>1, <3>2, <3>3
  <2>3. CASE s = Audio
    <3>1. F(Video) = E(Video)
      BY <1>3, <2>3, TwoStreams
    <3>2. E(Video)[i].pos < x.pos /\ E(Video)[i].pos \in Nat
      BY <1>6, <3>1, TwoStreams
    <3>3. F(Audio)[j] = x \/ (j \in 1 .. Len(E(Audio)) /\ F(Audio)[j] = E(Audio)[j])
      BY <1>7, <2>3
    <3>. QED
      BY <1>4, <2>1, <3>1, <3>2, <3>3, SMTT(30)
  <2>. QED
    BY <1>2, <2>2, <2>3, TwoStreams
<1>10. EntriesOK(g)
  BY <1>3, <1>5, <1>8, <1>9 DEF EntriesOK, m
<1>11. ASSUME NEW i \in 1 .. n PROVE g.riffs[i].start <= g.riffs[i].movi /\ g.riffs[i].movi + 4 <= g.end
  <2>1. f.riffs[i].movi \in Nat /\ f.riffs[i].start <= f.riffs[i].movi /\ f.riffs[i].movi + 4 <= f.end
    BY <1>1
  <2>. QED
    BY <1>1, <1>3, <2>1, SMTT(30)
<1>. QED
  BY <1>1, <1>3, <1>5, <1>10, <1>11 DEF SafeFile, g

(* The new chunk lies behind all others, in the last part, and the entry   *)
(* of its stream finds it.                                                 *)
LEMMA StoreLayout ==
  ASSUME NEW f, SafeFile(f), NEW p \in PacketRec, NEW ch \in Seq(Chunk), Layout(f, ch)
  PROVE  Layout(StoreChunk(f, p), Append(ch, ChunkAt(f, p)))
<1> DEFINE g == StoreChunk(f, p)  s == p.stream  x == EntryAt(f, p)  n == Len(f.riffs)  m == f.riffs[n].movi
           c == ChunkAt(f, p)  d == Append(ch, c)
<1>1. /\ n \in Nat /\ n > 0 /\ n \in 1 .. n /\ f.end \in Nat /\ LastRiff(f) = n
      /\ f.entries \in [Streams -> Seq(Entry)] /\ m \in Nat /\ m <= f.end
  BY SafeFields DEF LastRiff
<1>2. s \in Streams /\ p.len \in Nat
  BY DEF PacketRec
<1>3. /\ g.riffs = f.riffs /\ g.master = f.master /\ g.idx1 = f.idx1
      /\ g.end \in Nat /\ g.end >= f.end + 8 + p.len /\ g.end >= f.end
      /\ g.entries[s] = Append(f.entries[s], x) /\ \A t \in Streams : t # s => g.entries[t] = f.entries[t]
      /\ x \in Entry /\ c \in Chunk /\ m + x.pos = f.end
  BY StoreFields
<1>4. /\ c.stream = s /\ c.riff = n /\ c.data = f.end + 8 /\ c.len = p.len /\ c.key = p.key
      /\ x.len = p.len /\ x.key = p.key
  BY <1>1 DEF ChunkAt, EntryAt
<1>5. PartsOK(f) /\ PlacedOK(f, ch) /\ IndexOK(f, ch)
  BY DEF Layout
<1> HIDE DEF g, x, n, m, c
<1>6. LastRiff(g) = n
  BY <1>1, <1>3 DEF LastRiff
<1>7. /\ \A id : id < n => EndOfMovi(g, id) = EndOfMovi(f, id)
      /\ EndOfMovi(g, n) = g.end /\ EndOfMovi(f, n) = f.end
  <2>1. ~(n < n)
    BY <1>1
  <2>. QED
    BY <1>1, <1>3, <1>6, <2>1 DEF EndOfMovi
<1>8. PartsOK(g)
  <2>1. \A id \in 1 .. n - 1 : id < n
    BY <1>1
  <2>. QED
    BY <1>1, <1>3, <1>5, <1>6, <1>7, <2>1, ZenonT(60) DEF PartsOK
<1>9. /\ Len(d) = Len(ch) + 1 /\ d[Len(ch) + 1] = c /\ \A k \in 1 .. Len(ch) : d[k] = ch[k]
      /\ Len(ch) \in Nat /\ \A k \in 1 .. Len(ch) : ch[k] \in Chunk
  BY <1>3
<1> HIDE DEF d
<1> DEFINE N == Len(ch)
<1>10. /\ N \in Nat /\ Len(d) = N + 1 /\ d[N + 1] = c /\ \A k \in 1 .. N : d[k] = ch[k]
       /\ \A k \in 1 .. N : ch[k] \in Chunk
  BY <1>9
<1>11. /\ \A k \in 1 .. N :
            /\ ch[k].riff \in 1 .. n /\ f.riffs[ch[k].riff].movi < ch[k].data
            /\ ch[k].data + ch[k].len <= EndOfMovi(f, ch[k].riff) /\ ch[k].data + ch[k].len <= f.end
       /\ \A j, k \in 1 .. N : j < k => ch[j].data + ch[j].len <= ch[k].data - 8
  BY <1>1, <1>5 DEF PlacedOK
<1> HIDE DEF N
<1>12. ASSUME NEW k \in 1 .. N
       PROVE  /\ ch[k].data + ch[k].len \in Nat
              /\ ch[k].data + ch[k].len <= EndOfMovi(g, ch[k].riff) /\ ch[k].data + ch[k].len <= g.end
  <2> DEFINE z == ch[k].data + ch[k].len  r == ch[k].riff
  <2>1. z \in Nat
    <3>1. ch[k].data \in Nat /\ ch[k].len \in Nat
      BY <1>10 DEF Chunk
    <3>. QED
      BY <3>1, SMTT(30)
  <2>2. r \in 1 .. n /\ z <= EndOfMovi(f, r) /\ z <= f.end
    BY <1>11
  <2> HIDE DEF z, r
  <2>3. z <= g.end
    BY <1>1, <1>3, <2>1, <2>2
  <2>4. r = n \/ r < n
    BY <1>1, <2>2
  <2>5. z <= EndOfMovi(g, r)
    BY <1>7, <2>2, <2>3, <2>4
  <2>. QED
    BY <2>1, <2>3, <2>5 DEF z, r
<1>13. /\ m < c.data /\ c.data + c.len <= g.end /\ c.data - 8 = f.end
  <2> DEFINE l == p.len  a == c.data  b == c.len  z == g.end  y == f.end
  <2>1. l \in Nat /\ z >= y + 8 + l /\ a = y + 8 /\ b = l /\ z \in Nat /\ y \in Nat /\ m <= y
    BY <1>1, <1>2, <1>3, <1>4
  <2> HIDE DEF l, a, b, z, y
  <2>2. m < a /\ a + b <= z /\ a - 8 = y
    BY <1>1, <2>1
  <2>. QED
    BY <2>2 DEF a, b, z, y
<1>14. \A k \in 1 .. N + 1 : k = N + 1 \/ k \in 1 .. N
  BY <1>10
<1>15. PlacedOK(g, d)
  <2>1. ASSUME NEW k \in 1 .. N + 1
        PROVE  /\ d[k].riff \in 1 .. n /\ g.riffs[d[k].riff].movi < d[k].data
               /\ d[k].data + d[k].len <= EndOfMovi(g, d[k].riff) /\ d[k].data + d[k].len <= g.end
    <3>1. CASE k = N + 1
      <4>1. g.riffs[n].movi = m
        BY <1>3 DEF m
      <4>. QED
        BY <1>1, <1>4, <1>7, <1>10, <1>13, <3>1, <4>1
    <3>2. CASE k \in 1 .. N
      BY <1>3, <1>10, <1>11, <1>12, <3>2
    <3>. QED
      BY <1>14, <3>1, <3>2
  <2>2. ASSUME NEW j \in 1 .. N + 1, NEW k \in 1 .. N + 1, j < k PROVE d[j].data + d[j].len <= d[k].data - 8
    <3>1. j \in 1 .. N
      BY <1>10, <2>2
    <3>2. CASE k = N + 1
      BY <1>10, <1>11, <1>13, <3>1, <3>2
    <3>3. CASE k \in 1 .. N
      BY <1>10, <1>11, <2>2, <3>1, <3>3
    <3>. QED
      BY <1>14, <3>2, <3>3
  <2>. QED
    BY <1>6, <1>10, <2>1, <2>2 DEF PlacedOK
<1>16. ASSUME NEW t, NEW id
       PROVE  PartOf(d, t, id) = PartOf(ch, t, id) \cup
                (IF s = t /\ n = id THEN {[data |-> f.end + 8, len |-> p.len, key |-> p.key]} ELSE {})
  BY <1>3, <1>4, PartOfAppend DEF d
<1> DEFINE rec == [data |-> f.end + 8, len |-> p.len, key |-> p.key]
<1> HIDE DEF rec
<1>17. PartOf(d, s, n) = PartOf(ch, s, n) \cup {rec}
  BY <1>16 DEF rec
<1>18. ASSUME NEW t, NEW id, t # s \/ id # n PROVE PartOf(d, t, id) = PartOf(ch, t, id)
  <2>1. (IF s = t /\ n = id THEN {rec} ELSE {}) = {}
    BY <1>18
  <2>2. PartOf(d, t, id) = PartOf(ch, t, id) \cup (IF s = t /\ n = id THEN {rec} ELSE {})
    BY <1>16 DEF rec
  <2>3. PartOf(d, t, id) = PartOf(ch, t, id) \cup {}
    BY <2>1, <2>2
  <2>. QED
    BY <2>3
<1>19. IndexOK(g, d)
  <2>1. ASSUME NEW t \in Streams PROVE FoundBy(ToSet(g.entries[t]), g.riffs[n].movi) = PartOf(d, t, n)
    <3>1. FoundBy(ToSet(f.entries[t]), m) = PartOf(ch, t, n) /\ g.riffs[n].movi = m
      BY <1>1, <1>3, <1>5 DEF IndexOK, m
    <3>2. CASE t = s
      <4>1. f.entries[s] \in Seq(Entry)
        BY <1>1, <1>2
      <4>2. FoundBy(ToSet(Append(f.entries[s], x)), m)
              = FoundBy(ToSet(f.entries[s]), m) \cup {[data |-> m + x.pos + 8, len |-> x.len, key |-> x.key]}
        BY <1>3, <4>1, FoundByAppend
      <4>3. [data |-> m + x.pos + 8, len |-> x.len, key |-> x.key] = rec
        BY <1>3, <1>4 DEF rec
      <4>4. FoundBy(ToSet(g.entries[s]), m) = PartOf(ch, s, n) \cup {rec}
        BY <1>3, <3>1, <3>2, <4>2, <4>3
      <4>. QED
        BY <1>17, <3>1, <3>2, <4>4
    <3>3. CASE t # s
      <4>1. PartOf(d, t, n) = PartOf(ch, t, n)
        BY <1>18, <3>3
      <4>. QED
        BY <1>3, <3>1, <3>3, <4>1
    <3>. QED
      BY <3>2, <3>3
  <2>2. ASSUME NEW t \in Streams, NEW id \in 1 .. n - 1, id <= MaxMaster
        PROVE  LET ix == g.master[t][id]
               IN /\ g.riffs[id].movi < ix.at /\ ix.at + 32 + 8 * Len(ix.entries) <= EndOfMovi(g, id)
                  /\ Ascending(ix.entries)
                  /\ FoundBy(ToSet(ix.entries), ix.base) = PartOf(d, t, id)
    <3>1. id < n /\ n # id
      BY <1>1
    <3>2. PartOf(d, t, id) = PartOf(ch, t, id) /\ EndOfMovi(g, id) = EndOfMovi(f, id)
      BY <1>7, <1>18, <3>1
    <3>3. LET ix == f.master[t][id]
          IN /\ f.riffs[id].movi < ix.at /\ ix.at + 32 + 8 * Len(ix.entries) <= EndOfMovi(f, id)
             /\ Ascending(ix.entries)
             /\ FoundBy(ToSet(ix.entries), ix.base) = PartOf(ch, t, id)
      BY <1>1, <1>5, <2>2 DEF IndexOK
    <3>. QED
      BY <1>3, <3>2, <3>3
  <2>3. ASSUME n > 1
        PROVE  /\ Ascending(g.idx1)
               /\ \A t \in Streams :
                    FoundBy({e \in ToSet(g.idx1) : e.stream = t}, g.riffs[1].movi) = PartOf(d, t, 1)
    <3>1. \A t : PartOf(d, t, 1) = PartOf(ch, t, 1)
      <4>1. n # 1
        BY <1>1, <2>3
      <4>. QED
        BY <1>18, <4>1
    <3>. QED
      BY <1>1, <1>3, <1>5, <2>3, <3>1 DEF IndexOK
  <2>. QED
    BY <1>6, <2>1, <2>2, <2>3 DEF IndexOK
<1>. QED
  BY <1>8, <1>15, <1>19 DEF Layout, g, d, c
-----------------------------------------------------------------------------
(* A chunk is written: in the last part, or in one that looked so.         *)
LEMMA CountedFields ==
  ASSUME NEW f, SafeFile(f), NEW s \in Streams
  PROVE  LET g == Counted(f, s)
         IN /\ SafeFile(g) /\ g.riffs = f.riffs /\ g.strm_length = f.strm_length
            /\ g.packet_count = [f.packet_count EXCEPT ![s] = f.packet_count[s] + 1]
            /\ \A ch : Layout(g, ch) <=> Layout(f, ch)
<1> DEFINE g == Counted(f, s)  P == [f.packet_count EXCEPT ![s] = f.packet_count[s] + 1]
<1>1. f \in AviRec /\ f.packet_count \in [Streams -> Nat] /\ f.end \in Nat
  BY SafeFields DEF AviRec
<1>2. P \in [Streams -> Nat]
  <2>1. f.packet_count[s] \in Nat
    BY <1>1
  <2> DEFINE v == f.packet_count[s] + 1
  <2>2. v \in Nat
    BY <2>1
  <2> HIDE DEF v
  <2>3. [f.packet_count EXCEPT ![s] = v] \in [Streams -> Nat]
    BY <1>1, <2>2
  <2>. QED
    BY <2>3 DEF v
<1>3. g = [f EXCEPT !.packet_count = P]
  BY Zenon DEF Counted
<1> HIDE DEF g, P
<1>4. /\ g \in AviRec /\ g.riffs = f.riffs /\ g.strm_length = f.strm_length /\ g.packet_count = P
      /\ g.end = f.end /\ g.entries = f.entries /\ g.master = f.master /\ g.idx1 = f.idx1
  BY <1>1, <1>2, <1>3 DEF AviRec
<1>5. SafeFile(g)
  <2>1. SameParts(f, g) /\ g.end >= f.end
    BY <1>1, <1>4 DEF SameParts
  <2>. QED
    BY <1>4, <2>1, StaysSafe
<1>6. ASSUME NEW ch PROVE Layout(g, ch) <=> Layout(f, ch)
  BY <1>4, SameFile DEF Layout
<1>. QED
  BY <1>4, <1>5, <1>6 DEF g, P

(* A part that is full is closed first; the caller may be wrong about      *)
(* which one is the last, but what it closes then began before the end.    *)
LEMMA InPartOK ==
  ASSUME NEW f, SafeFile(f), NEW s \in Streams, NEW id \in 1 .. Len(f.riffs)
  PROVE  LET g == InPart(f, s, id)
         IN /\ SafeFile(g) /\ g.strm_length = f.strm_length /\ Len(g.riffs) >= Len(f.riffs)
            /\ g.packet_count = [f.packet_count EXCEPT ![s] = f.packet_count[s] + 1]
            /\ id = Len(f.riffs) => \A ch \in Seq(Chunk) : Layout(f, ch) => Layout(g, ch)
<1> DEFINE h == Counted(f, s)  g == InPart(f, s, id)
<1>1. /\ SafeFile(h) /\ h.riffs = f.riffs /\ h.strm_length = f.strm_length
      /\ h.packet_count = [f.packet_count EXCEPT ![s] = f.packet_count[s] + 1]
      /\ \A ch : Layout(h, ch) <=> Layout(f, ch)
  BY CountedFields
<1>2. g = IF Exceeds(f, id) THEN NextRiff(h, id) ELSE h
  BY DEF InPart
<1> HIDE DEF h, g
<1>3. Len(f.riffs) \in Nat
  BY SafeFields
<1>4. CASE Exceeds(f, id)
  <2>1. id \in 1 .. Len(h.riffs) /\ g = NextRiff(h, id)
    BY <1>1, <1>2, <1>4
  <2>2. SafeFile(g) /\ SameCounts(h, g) /\ Len(g.riffs) = Len(h.riffs) + 1
    BY <1>1, <2>1, NextRiffFields
  <2>3. Len(g.riffs) >= Len(f.riffs)
    BY <1>1, <1>3, <2>2
  <2>4. ASSUME id = Len(f.riffs), NEW ch \in Seq(Chunk), Layout(f, ch) PROVE Layout(g, ch)
    <3>1. Layout(h, ch) /\ id = Len(h.riffs)
      BY <1>1, <2>4
    <3>. QED
      BY <1>1, <2>1, <3>1, NextRiffLayout
  <2>. QED
    BY <1>1, <2>2, <2>3, <2>4 DEF SameCounts, g
<1>5. CASE ~Exceeds(f, id)
  <2>1. g = h /\ Len(g.riffs) >= Len(f.riffs)
    BY <1>1, <1>2, <1>3, <1>5
  <2>. QED
    BY <1>1, <2>1 DEF g
<1>. QED
  BY <1>4, <1>5

Pairs == [file : AviRec, chunks : Seq(Chunk)]

(* A chunk keeps the counters in any case, and the layout if the part that *)
(* was looked up is the last one.                                          *)
LEMMA WriteChunkOK ==
  ASSUME NEW a \in Pairs, SafeOK(a.file, a.chunks), NEW p \in PacketRec, NEW id \in 1 .. Len(a.file.riffs)
  PROVE  LET b == WriteChunk(a, p, id)
         IN /\ b \in Pairs /\ SafeOK(b.file, b.chunks) /\ Len(b.file.riffs) >= Len(a.file.riffs)
            /\ (id = Len(a.file.riffs) /\ Layout(a.file, a.chunks)) => Layout(b.file, b.chunks)
<1> DEFINE F == a.file  ch == a.chunks  s == p.stream  f == InPart(F, s, id)  g == StoreChunk(f, p)
           c == ChunkAt(f, p)  d == Append(ch, c)
<1>1. SafeFile(F) /\ Counts(F, ch) /\ ch \in Seq(Chunk) /\ F \in AviRec
  BY DEF SafeOK, Counts, Pairs
<1>2. s \in Streams /\ p.len \in Nat
  BY DEF PacketRec
<1>3. WriteChunk(a, p, id) = [file |-> g, chunks |-> d]
  BY DEF WriteChunk, ChunkAt
<1>4. /\ SafeFile(f) /\ f.strm_length = F.strm_length /\ Len(f.riffs) >= Len(F.riffs)
      /\ f.packet_count = [F.packet_count EXCEPT ![s] = F.packet_count[s] + 1]
      /\ id = Len(F.riffs) => (Layout(F, ch) => Layout(f, ch))
  <2>1. id \in 1 .. Len(F.riffs)
    OBVIOUS
  <2> HIDE DEF F, ch, s
  <2>2. /\ SafeFile(f) /\ f.strm_length = F.strm_length /\ Len(f.riffs) >= Len(F.riffs)
        /\ f.packet_count = [F.packet_count EXCEPT ![s] = F.packet_count[s] + 1]
        /\ id = Len(F.riffs) => \A h \in Seq(Chunk) : Layout(F, h) => Layout(f, h)
    BY <1>1, <1>2, <2>1, InPartOK, Zenon
  <2> HIDE DEF f
  <2>. QED
    BY <1>1, <2>2
<1> HIDE DEF F, ch, f
<1>5. /\ g \in AviRec /\ g.riffs = f.riffs /\ g.packet_count = f.packet_count /\ c \in Chunk
      /\ g.strm_length = f.strm_length + (IF s = Audio THEN p.len ELSE 0)
  BY <1>4, StoreFields
<1>6. SafeFile(g) /\ (Layout(f, ch) => Layout(g, d))
  BY <1>1, <1>4, StoreSafe, StoreLayout
<1>7. c.stream = s /\ c.len = p.len
  BY DEF ChunkAt
<1> HIDE DEF g, c
<1>8. Counts(g, d)
  <2>1. F.packet_count \in [Streams -> Nat] /\ F.strm_length \in Nat
    BY <1>1 DEF AviRec
  <2>2. ASSUME NEW t \in Streams PROVE g.packet_count[t] = Cardinality(ChunksOf(d, t))
    <3>1. Cardinality(ChunksOf(d, t)) = Cardinality(ChunksOf(ch, t)) + (IF s = t THEN 1 ELSE 0)
      BY <1>1, <1>5, <1>7, CountsAppend
    <3>2. F.packet_count[t] = Cardinality(ChunksOf(ch, t)) /\ F.packet_count[t] \in Nat
      BY <1>1, <2>1 DEF Counts
    <3>3. CASE s = t
      <4>1. g.packet_count[t] = F.packet_count[t] + 1
        BY <1>4, <1>5, <2>1, <3>3
      <4>. QED
        BY <3>1, <3>2, <3>3, <4>1
    <3>4. CASE s # t
      <4>1. g.packet_count[t] = F.packet_count[t]
        BY <1>4, <1>5, <2>1, <3>4
      <4>. QED
        BY <3>1, <3>2, <3>4, <4>1
    <3>. QED
      BY <3>3, <3>4
  <2>3. g.strm_length = Cardinality(BytesOf(d, Audio))
    <3>1. Cardinality(BytesOf(d, Audio)) = Cardinality(BytesOf(ch, Audio)) + (IF s = Audio THEN p.len ELSE 0)
      BY <1>1, <1>5, <1>7, CountsAppend
    <3>2. f.strm_length = Cardinality(BytesOf(ch, Audio))
      BY <1>1, <1>4 DEF Counts
    <3>. QED
      BY <1>5, <3>1, <3>2
  <2>4. d \in Seq(Chunk)
    BY <1>1, <1>5
  <2>. QED
    BY <2>2, <2>3, <2>4 DEF Counts
<1>9. d \in Seq(Chunk)
  BY <1>1, <1>5
<1> HIDE DEF d
<1>. QED
  BY <1>3, <1>4, <1>5, <1>6, <1>8, <1>9 DEF SafeOK, Pairs, F, ch

(* A set that a packet does not leave is not left by any number of them.   *)
LEMMA CatchUpStays ==
  ASSUME NEW s, NEW n \in Nat, NEW S, NEW a \in S, \A b \in S : WriteEmpty(b, s) \in S
  PROVE  CatchUp(a, s, n) \in S
<1> DEFINE G == [x \in S |-> WriteEmpty(x, s)]
           T == [k \in 0 .. n |-> S]
           b == CHOOSE g : g = [k \in 0 .. n |-> IF k = 0 THEN a ELSE WriteEmpty(g[k - 1], s)]
<1>1. \A x \in S : G[x] = WriteEmpty(x, s)
  OBVIOUS
<1> HIDE DEF G
<1>2. PICK g : Iterates(n, a, G, g)
  BY FunctionByRecursion, Zenon
<1>3. g = [k \in 0 .. n |-> IF k = 0 THEN a ELSE G[g[k - 1]]]
  BY <1>2 DEF Iterates
<1>4. \A k \in 0 .. n : T[k] = S
  OBVIOUS
<1> HIDE DEF T
<1>5. \A k \in 0 .. n : g[k] \in T[k]
  <2>1. g[0] \in T[0]
    BY <1>3, <1>4
  <2>2. ASSUME NEW k \in 1 .. n, g[k - 1] \in T[k - 1] PROVE g[k] \in T[k]
    <3>1. k \in 0 .. n /\ k # 0 /\ k - 1 \in 0 .. n
      OBVIOUS
    <3>2. g[k] = G[g[k - 1]] /\ g[k - 1] \in S
      BY <1>3, <1>4, <2>2, <3>1
    <3>. QED
      BY <1>1, <1>4, <3>1, <3>2
  <2>. QED
    BY <2>1, <2>2, FamilyInduction
<1>6. g = [k \in 0 .. n |-> IF k = 0 THEN a ELSE WriteEmpty(g[k - 1], s)]
  <2>1. ASSUME NEW k \in 0 .. n, k # 0 PROVE G[g[k - 1]] = WriteEmpty(g[k - 1], s)
    <3>1. k - 1 \in 0 .. n
      BY <2>1
    <3>. QED
      BY <1>1, <1>4, <1>5, <3>1
  <2>. QED
    BY <1>3, <2>1
<1>7. b = [k \in 0 .. n |-> IF k = 0 THEN a ELSE WriteEmpty(b[k - 1], s)]
  BY <1>6, Zenon
<1>8. CatchUp(a, s, n) = b[n]
  BY Zenon DEF CatchUp
<1> HIDE DEF b
<1>9. \A k \in 0 .. n : b[k] \in T[k]
  <2>1. b[0] \in T[0]
    BY <1>4, <1>7
  <2>2. ASSUME NEW k \in 1 .. n, b[k - 1] \in T[k - 1] PROVE b[k] \in T[k]
    <3>1. k \in 0 .. n /\ k # 0 /\ k - 1 \in 0 .. n
      OBVIOUS
    <3>2. b[k] = WriteEmpty(b[k - 1], s) /\ b[k - 1] \in S
      BY <1>4, <1>7, <2>2, <3>1
    <3>. QED
      BY <1>4, <3>1, <3>2
  <2>. QED
    BY <2>1, <2>2, FamilyInduction
<1>. QED
  BY <1>4, <1>8, <1>9

(* The packets that catch up with dts are packets.                         *)
LEMMA EmptyPacket ==
  ASSUME NEW s \in Streams
  PROVE  Empty(s) \in PacketRec
  BY DEF Empty, PacketRec

(* What the encoders hand over are packets.                                *)
LEMMA AviPacketsTyped ==
  ASSUME NEW p \in Packets
  PROVE  p \in PacketRec
  BY TwoStreams, AviAssumption DEF Packets, PacketRec, AviAssumption

(* Unless a part was closed while dts was caught up with, the part that    *)
(* was looked up before is the last one still.                             *)
LEMMA AviWriteOK ==
  ASSUME SafeOK(avi, chunks), split \in BOOLEAN, ~split => Layout(avi, chunks),
         NEW p \in Packets, NEW ahead \in Ahead, avi_write_packet(p, ahead)
  PROVE  SafeOK(avi', chunks') /\ split' \in BOOLEAN /\ (~split' => Layout(avi', chunks'))
<1> DEFINE s == p.stream  riff == LastRiff(avi)
           a0 == [file |-> avi, chunks |-> chunks]
           a == CatchUp(a0, s, ahead)
           b == WriteChunk(a, p, riff)
           S == {x \in Pairs : /\ SafeOK(x.file, x.chunks) /\ Len(x.file.riffs) >= riff
                               /\ ~split => Layout(x.file, x.chunks)}
<1>1. p \in PacketRec /\ s \in Streams
  BY AviPacketsTyped DEF PacketRec
<1>2. ahead \in Nat
  BY AviAssumption DEF AviAssumption
<1>3. riff \in Nat /\ riff > 0 /\ riff = Len(avi.riffs) /\ avi \in AviRec /\ chunks \in Seq(Chunk)
  BY SafeFields DEF SafeOK, Counts, LastRiff
<1>4. avi' = b.file /\ chunks' = b.chunks /\ split' = (split \/ LastRiff(a.file) # riff)
  BY Zenon DEF avi_write_packet
<1> HIDE DEF riff
<1>5. a0 \in S
  BY <1>3 DEF Pairs
<1>6. ASSUME NEW x \in S PROVE WriteEmpty(x, s) \in S
  <2> DEFINE n == Len(x.file.riffs)  y == WriteChunk(x, Empty(s), n)
  <2>1. x \in Pairs /\ SafeOK(x.file, x.chunks) /\ n >= riff /\ (~split => Layout(x.file, x.chunks))
    OBVIOUS
  <2>2. n \in Nat /\ n > 0 /\ n \in 1 .. n
    <3>1. n \in Nat /\ n > 0
      BY <2>1, SafeFields DEF SafeOK
    <3>. QED
      BY <3>1
  <2>3. WriteEmpty(x, s) = y
    BY DEF WriteEmpty, LastRiff
  <2>4. Empty(s) \in PacketRec
    BY <1>1, EmptyPacket
  <2>5. /\ y \in Pairs /\ SafeOK(y.file, y.chunks) /\ Len(y.file.riffs) >= n
        /\ Layout(x.file, x.chunks) => Layout(y.file, y.chunks)
    BY <2>1, <2>2, <2>4, WriteChunkOK
  <2>6. Len(y.file.riffs) \in Nat
    BY <2>5, SafeFields DEF SafeOK
  <2> HIDE DEF y, n
  <2>7. Len(y.file.riffs) >= riff
    BY <1>3, <2>1, <2>2, <2>5, <2>6
  <2>. QED
    BY <2>1, <2>3, <2>5, <2>7
<1> HIDE DEF S, a0
<1>7. a \in S
  BY <1>2, <1>5, <1>6, CatchUpStays
<1> HIDE DEF a
<1>8. a \in Pairs /\ SafeOK(a.file, a.chunks) /\ Len(a.file.riffs) >= riff /\ (~split => Layout(a.file, a.chunks))
  BY <1>7 DEF S
<1>9. Len(a.file.riffs) \in Nat
  BY <1>8, SafeFields DEF SafeOK
<1>10. riff \in 1 .. Len(a.file.riffs)
  BY <1>3, <1>8, <1>9
<1>11. /\ SafeOK(b.file, b.chunks)
       /\ (riff = Len(a.file.riffs) /\ Layout(a.file, a.chunks)) => Layout(b.file, b.chunks)
  BY <1>1, <1>8, <1>10, WriteChunkOK
<1> HIDE DEF b
<1>12. ~split' => ~split /\ riff = Len(a.file.riffs)
  BY <1>4 DEF LastRiff
<1>13. split' \in BOOLEAN
  BY <1>4
<1>. QED
  BY <1>4, <1>8, <1>11, <1>12, <1>13
-----------------------------------------------------------------------------
(* The file is closed.                                                     *)
LEMMA CloseFields ==
  ASSUME NEW f, SafeFile(f)
  PROVE  LET g == avi_close(f)  n == Len(f.riffs)
         IN /\ SafeFile(g) /\ SameCounts(f, g) /\ SameParts(f, g) /\ CountsWritten(f, g)
            /\ \A i \in 1 .. n - 1 : g.riffs[i] = f.riffs[i]
            /\ MoviTo(g, n) >= f.end /\ RiffTo(g, n) = g.end
            /\ MoviTo(g, n) + (IF n = 1 THEN 8 + 16 * Len(g.idx1) ELSE 0) = RiffTo(g, n)
            /\ n = 1 => Idx1Holds(f, g.idx1)
            /\ n # 1 => /\ g.idx1 = f.idx1 /\ g.odml = OdmlFrames(f)
                        /\ \A s \in Streams, i \in 1 .. MaxMaster : i # n => g.master[s][i] = f.master[s][i]
                        /\ n <= MaxMaster => \A s \in Streams :
                             LET ix == g.master[s][n]
                             IN /\ ix.base = f.riffs[n].movi /\ ix.entries = f.entries[s] /\ f.end <= ix.at
                                /\ ix.at + 32 + 8 * Len(ix.entries) <= MoviTo(g, n)
<1> DEFINE n == Len(f.riffs)
           a == IF n = 1 THEN f ELSE avi_write_ix(f)
           b == Seal(a, n)
           o == [b EXCEPT !.odml = OdmlFrames(b)]
           c == IF n = 1 THEN b ELSE avi_write_counters(o)
           g == [c EXCEPT !.entries = clean_indexes(c)]
<1>1. avi_close(f) = g
  <2>1. CASE n = 1
    <3>1. b = CloseRiff(avi_write_idx1(CloseMovi(f, n)), n)
      BY <2>1 DEF Seal, CloseIndexed
    <3>2. c = CloseRiff(avi_write_idx1(CloseMovi(f, n)), n)
      BY <2>1, <3>1
    <3> HIDE DEF a, b, o, c
    <3>. QED
      BY <2>1, <3>2, Zenon DEF avi_close, LastRiff
  <2>2. CASE n # 1
    <3>1. b = CloseRiff(CloseMovi(avi_write_ix(f), n), n)
      BY <2>2 DEF Seal, CloseIndexed
    <3>2. c = avi_write_counters([b EXCEPT !.odml = OdmlFrames(b)])
      BY <2>2
    <3> HIDE DEF a, b, o, c
    <3>. QED
      BY <2>2, <3>1, <3>2, Zenon DEF avi_close, LastRiff
  <2>. QED
    BY <2>1, <2>2
<1>2. n \in Nat /\ n > 0 /\ n \in 1 .. n /\ f.end \in Nat /\ f \in AviRec
  BY SafeFields
<1>3. /\ a \in AviRec /\ SameRest(f, a) /\ a.riffs = f.riffs /\ a.idx1 = f.idx1 /\ a.end >= f.end
      /\ n # 1 =>
           /\ \A s \in Streams, i \in 1 .. MaxMaster : i # n => a.master[s][i] = f.master[s][i]
           /\ n <= MaxMaster => \A s \in Streams :
                LET ix == a.master[s][n]
                IN /\ ix.base = f.riffs[n].movi /\ ix.entries = f.entries[s]
                   /\ f.end <= ix.at /\ ix.at + 32 + 8 * Len(ix.entries) <= a.end
  <2>1. CASE n = 1
    <3>1. a = f /\ SameRest(f, f) /\ f.end >= f.end
      BY <1>2, <2>1 DEF SameRest, SameCounts
    <3> HIDE DEF a
    <3>. QED
      BY <1>2, <2>1, <3>1
  <2>2. CASE n # 1
    <3>1. a = avi_write_ix(f)
      BY <2>2
    <3> HIDE DEF a
    <3>. QED
      BY <2>2, <3>1, WriteIxFields, ZenonT(60) DEF LastRiff
  <2>. QED
    BY <2>1, <2>2
<1> HIDE DEF a
<1>4. SafeFile(a)
  <2>1. SameParts(f, a) /\ a.entries = f.entries
    BY <1>3 DEF SameParts, SameRest
  <2>. QED
    BY <1>3, <2>1, StaysSafe
<1>5. /\ b \in AviRec /\ SafeFile(b) /\ SameRest(a, b) /\ SameParts(a, b) /\ b.master = a.master /\ b.end >= a.end
      /\ \A i \in 1 .. n : i # n => b.riffs[i] = a.riffs[i]
      /\ MoviTo(b, n) = a.end /\ RiffTo(b, n) = b.end
      /\ b.end = a.end + (IF n = 1 THEN 8 + 16 * Len(b.idx1) ELSE 0)
      /\ n = 1 => Idx1Holds(a, b.idx1) /\ CountsWritten(a, b)
      /\ n # 1 => b.idx1 = a.idx1
  <2>1. n \in 1 .. Len(a.riffs) /\ Len(a.riffs) = n
    BY <1>2, <1>3
  <2> HIDE DEF n
  <2>. QED
    BY <1>4, <2>1, SealFields DEF MoviTo, RiffTo
<1> HIDE DEF b
<1>6. SameRest(f, b) /\ SameParts(f, b)
  BY <1>3, <1>5 DEF SameRest, SameParts, SameCounts
<1>7. /\ c \in AviRec /\ SameCounts(b, c) /\ c.riffs = b.riffs /\ c.end = b.end /\ c.master = b.master /\ c.idx1 = b.idx1
      /\ CountsWritten(f, c) /\ (n # 1 => c.odml = OdmlFrames(f))
  <2>1. CASE n = 1
    <3>1. c = b /\ CountsWritten(f, b)
      BY <1>3, <1>5, <2>1 DEF CountsWritten, SameRest, SameCounts
    <3> HIDE DEF c
    <3>. QED
      BY <1>5, <2>1, <3>1 DEF SameCounts
  <2>2. CASE n # 1
    <3> DEFINE v == OdmlFrames(b)
    <3>1. v = OdmlFrames(f) /\ v \in Nat
      <4>1. b.packet_count = f.packet_count /\ f.packet_count \in [Streams -> Nat]
        BY <1>2, <1>6 DEF SameRest, SameCounts, AviRec
      <4>2. f.packet_count[Video] \in Nat /\ f.packet_count[Audio] \in Nat
        BY <4>1, TwoStreams
      <4>3. v = OdmlFrames(f)
        BY <4>1, Zenon DEF OdmlFrames
      <4> DEFINE x == f.packet_count[Video]  y == f.packet_count[Audio]
      <4> HIDE DEF x, y
      <4>4. x \in Nat /\ y \in Nat /\ v = x + (IF mpegAudio THEN y ELSE 0)
        BY <4>2, <4>3 DEF x, y, OdmlFrames
      <4> HIDE DEF v
      <4>5. v \in Nat
        BY <4>4
      <4>. QED
        BY <4>3, <4>5
    <3> HIDE DEF v
    <3>2. o = [b EXCEPT !.odml = v]
      BY DEF v
    <3> HIDE DEF o
    <3>3. /\ o \in AviRec /\ o.odml = v /\ o.riffs = b.riffs /\ o.end = b.end /\ o.master = b.master /\ o.idx1 = b.idx1
          /\ SameCounts(b, o)
      BY <1>5, <3>1, <3>2 DEF AviRec, SameCounts
    <3>4. c = avi_write_counters(o)
      BY <2>2
    <3> HIDE DEF c
    <3>5. /\ c \in AviRec /\ SameRest(o, c) /\ c.riffs = o.riffs /\ c.end = o.end /\ c.master = o.master
          /\ c.idx1 = o.idx1 /\ CountsWritten(o, c)
      BY <3>3, <3>4, WriteCountersFields
    <3>6. SameCounts(b, c) /\ CountsWritten(f, c) /\ c.odml = v
      BY <1>6, <3>3, <3>5 DEF SameRest, SameCounts, CountsWritten
    <3>. QED
      BY <3>1, <3>3, <3>5, <3>6
  <2>. QED
    BY <2>1, <2>2
<1> HIDE DEF c
<1>8. clean_indexes(c) = clean_indexes(f) /\ clean_indexes(f) \in [Streams -> Seq(Entry)]
  BY DEF clean_indexes
<1>9. /\ g \in AviRec /\ SameCounts(c, g) /\ g.riffs = c.riffs /\ g.end = c.end /\ g.master = c.master /\ g.idx1 = c.idx1
      /\ g.frames_hdr = c.frames_hdr /\ g.frames_hdr_all = c.frames_hdr_all /\ g.odml = c.odml
      /\ g.entries = clean_indexes(f)
  BY <1>7, <1>8 DEF AviRec, SameCounts
<1> HIDE DEF g
<1>10. SameCounts(f, g) /\ CountsWritten(f, g) /\ SameParts(f, g)
  BY <1>6, <1>7, <1>9 DEF SameCounts, SameRest, CountsWritten, SameParts
<1>11. a.end \in Nat /\ b.end \in Nat /\ b.end >= f.end
  <2>1. a.end \in Nat /\ b.end \in Nat
    BY <1>3, <1>5 DEF AviRec
  <2>. QED
    BY <1>2, <1>3, <1>5, <2>1
<1>12. SafeFile(g)
  BY <1>7, <1>9, <1>10, <1>11, StaysSafe
<1>13. MoviTo(g, n) = a.end /\ RiffTo(g, n) = b.end /\ g.end = b.end
  BY <1>5, <1>7, <1>9 DEF MoviTo, RiffTo
<1>14. \A i \in 1 .. n - 1 : g.riffs[i] = f.riffs[i]
  <2>1. \A i \in 1 .. n - 1 : i \in 1 .. n /\ i # n
    BY <1>2
  <2>. QED
    BY <1>3, <1>5, <1>7, <1>9, <2>1
<1>15. g.idx1 = b.idx1 /\ g.master = a.master /\ (n # 1 => g.odml = OdmlFrames(f) /\ g.idx1 = f.idx1)
  BY <1>3, <1>5, <1>7, <1>9
<1>16. n = 1 => Idx1Holds(f, g.idx1)
  BY <1>3, <1>5, <1>15 DEF Idx1Holds, SameRest
<1> HIDE DEF n
<1>. QED
  BY <1>1, <1>3, <1>5, <1>10, <1>12, <1>13, <1>14, <1>15, <1>16 DEF n

(* The headers of a closed file count its chunks.                          *)
LEMMA CloseCounts ==
  ASSUME NEW f, NEW ch, SafeOK(f, ch)
  PROVE  SafeOK(avi_close(f), ch) /\ CountsOK(avi_close(f), ch, mpegAudio)
<1> DEFINE g == avi_close(f)  n == Len(f.riffs)
<1>1. SafeFile(f) /\ Counts(f, ch)
  BY DEF SafeOK
<1>2. /\ SafeFile(g) /\ SameCounts(f, g) /\ SameParts(f, g) /\ CountsWritten(f, g)
      /\ n # 1 => g.odml = OdmlFrames(f)
  BY <1>1, CloseFields
<1> HIDE DEF g
<1>3. SafeOK(g, ch)
  BY <1>1, <1>2 DEF SafeOK, Counts, SameCounts
<1>4. /\ \A s \in Streams : f.packet_count[s] = Cardinality(ChunksOf(ch, s))
      /\ f.strm_length = Cardinality(BytesOf(ch, Audio))
  BY <1>1 DEF Counts
<1>5. g.frames_hdr = [s \in Streams |-> IF s = Video THEN Cardinality(ChunksOf(ch, s)) ELSE Cardinality(BytesOf(ch, s))]
  <2>1. g.frames_hdr = [s \in Streams |-> IF s = Video THEN f.packet_count[s] ELSE f.strm_length]
    BY <1>2 DEF CountsWritten
  <2>2. ASSUME NEW s \in Streams
        PROVE  (IF s = Video THEN f.packet_count[s] ELSE f.strm_length)
                 = (IF s = Video THEN Cardinality(ChunksOf(ch, s)) ELSE Cardinality(BytesOf(ch, s)))
    <3>1. CASE s = Video
      BY <1>4, <3>1
    <3>2. CASE s # Video
      <4>1. s = Audio
        BY <3>2, TwoStreams
      <4>. QED
        BY <1>4, <3>2, <4>1
    <3>. QED
      BY <3>1, <3>2
  <2>. QED
    BY <2>1, <2>2
<1>6. g.frames_hdr_all = Cardinality(ChunksOf(ch, Video))
  BY <1>2, <1>4, TwoStreams DEF CountsWritten
<1>7. ASSUME LastRiff(g) > 1
      PROVE  g.odml = Cardinality(ChunksOf(ch, Video)) + (IF mpegAudio THEN Cardinality(ChunksOf(ch, Audio)) ELSE 0)
  <2>1. n # 1
    <3>1. LastRiff(g) = n
      BY <1>2 DEF SameParts, LastRiff
    <3>2. n > 1
      BY <1>7, <3>1
    <3> HIDE DEF n
    <3>. QED
      BY <3>2
  <2>2. g.odml = OdmlFrames(f)
    BY <1>2, <2>1
  <2>. QED
    BY <1>4, <2>2, TwoStreams DEF OdmlFrames
<1>. QED
  BY <1>3, <1>5, <1>6, <1>7 DEF CountsOK, g

(* The parts of a closed file adjoin, and its indexes find its chunks.     *)
LEMMA CloseFinds ==
  ASSUME NEW f, SafeFile(f), NEW ch \in Seq(Chunk), Layout(f, ch)
  PROVE  SealedOK(avi_close(f), ch) /\ FoundOK(avi_close(f), ch)
<1> DEFINE n == Len(f.riffs)  g == avi_close(f)  E == MoviTo(g, n)
<1>1. /\ n \in Nat /\ n > 0 /\ n \in 1 .. n /\ 1 \in 1 .. n /\ f.end \in Nat /\ EntriesOK(f) /\ LastRiff(f) = n
      /\ \A i \in 1 .. n : f.riffs[i].movi \in Nat /\ f.riffs[i].movi + 4 <= f.end
  <2>1. /\ n \in Nat /\ n > 0 /\ f.end \in Nat /\ EntriesOK(f) /\ LastRiff(f) = n
        /\ \A i \in 1 .. n : f.riffs[i].movi \in Nat /\ f.riffs[i].movi + 4 <= f.end
    BY SafeFields DEF LastRiff
  <2>2. n \in 1 .. n /\ 1 \in 1 .. n
    BY <2>1
  <2>. QED
    BY <2>1, <2>2
<1>2. /\ SafeFile(g) /\ SameParts(f, g)
      /\ \A i \in 1 .. n - 1 : g.riffs[i] = f.riffs[i]
      /\ E >= f.end /\ RiffTo(g, n) = g.end
      /\ E + (IF n = 1 THEN 8 + 16 * Len(g.idx1) ELSE 0) = RiffTo(g, n)
      /\ n = 1 => Idx1Holds(f, g.idx1)
      /\ n # 1 => /\ g.idx1 = f.idx1
                  /\ \A s \in Streams, i \in 1 .. MaxMaster : i # n => g.master[s][i] = f.master[s][i]
                  /\ n <= MaxMaster => \A s \in Streams :
                       LET ix == g.master[s][n]
                       IN /\ ix.base = f.riffs[n].movi /\ ix.entries = f.entries[s] /\ f.end <= ix.at
                          /\ ix.at + 32 + 8 * Len(ix.entries) <= E
  BY CloseFields, ZenonT(60)
<1>3. /\ LastRiff(g) = n /\ Len(g.riffs) = n
      /\ \A i \in 1 .. n : g.riffs[i].start = f.riffs[i].start /\ g.riffs[i].movi = f.riffs[i].movi
  BY <1>2 DEF LastRiff, SameParts
<1>4. PartsOK(f) /\ PlacedOK(f, ch) /\ IndexOK(f, ch)
  BY DEF Layout
<1> HIDE DEF g, n
<1>5. /\ \A id \in 1 .. n - 1 : MoviTo(g, id) = EndOfMovi(f, id) /\ id < n /\ id + 1 \in 1 .. n /\ id \in 1 .. n
      /\ EndOfMovi(f, n) = f.end
      /\ \A id \in 1 .. n : id = n \/ id \in 1 .. n - 1
  <2>1. ASSUME NEW id \in 1 .. n - 1 PROVE MoviTo(g, id) = EndOfMovi(f, id)
    <3>1. id < n /\ g.riffs[id] = f.riffs[id]
      BY <1>1, <1>2
    <3>. QED
      BY <1>1, <3>1 DEF EndOfMovi, MoviTo
  <2>2. ~(n < n) /\ (\A id \in 1 .. n - 1 : id < n /\ id + 1 \in 1 .. n /\ id \in 1 .. n)
        /\ \A id \in 1 .. n : id = n \/ id \in 1 .. n - 1
    BY <1>1
  <2>. QED
    BY <1>1, <2>1, <2>2 DEF EndOfMovi
<1>6. E \in Int
  <2>1. g.riffs[n] \in Riff
    BY <1>1, <1>2, <1>3, SafeFields
  <2>2. g.riffs[n].movi \in Nat /\ g.riffs[n].moviSize \in Nat
    BY <2>1 DEF Riff
  <2>. QED
    BY <2>2 DEF MoviTo
<1> HIDE DEF E
<1>7. ASSUME NEW id \in 1 .. n
      PROVE  /\ RiffTo(g, id) = (IF id = n THEN g.end ELSE g.riffs[id + 1].start - 8)
             /\ MoviTo(g, id) + (IF id = 1 THEN 8 + 16 * Len(g.idx1) ELSE 0) = RiffTo(g, id)
  <2>1. CASE id = n
    BY <1>2, <2>1 DEF E
  <2>2. CASE id # n
    <3>1. id \in 1 .. n - 1 /\ id + 1 \in 1 .. n /\ n # 1
      BY <1>1, <1>5, <2>2
    <3>2. g.riffs[id] = f.riffs[id] /\ g.riffs[id + 1].start = f.riffs[id + 1].start /\ g.idx1 = f.idx1
      BY <1>2, <1>3, <3>1
    <3>3. /\ f.riffs[id].start + f.riffs[id].size = f.riffs[id + 1].start - 8
          /\ EndOfMovi(f, id) + (IF id = 1 THEN 8 + 16 * Len(f.idx1) ELSE 0) = f.riffs[id].start + f.riffs[id].size
      BY <1>1, <1>4, <3>1 DEF PartsOK
    <3>4. RiffTo(g, id) = f.riffs[id].start + f.riffs[id].size
      BY <3>2 DEF RiffTo
    <3>. QED
      BY <1>5, <2>2, <3>1, <3>2, <3>3, <3>4
  <2>. QED
    BY <2>1, <2>2
<1>8. ASSUME NEW k \in 1 .. Len(ch)
      PROVE  g.riffs[ch[k].riff].movi < ch[k].data /\ ch[k].data + ch[k].len <= MoviTo(g, ch[k].riff)
  <2> DEFINE r == ch[k].riff  z == ch[k].data + ch[k].len
  <2>1. r \in 1 .. n /\ f.riffs[r].movi < ch[k].data /\ z <= EndOfMovi(f, r) /\ z <= f.end
    BY <1>1, <1>4 DEF PlacedOK
  <2>2. z \in Nat
    <3>1. ch[k] \in Chunk
      OBVIOUS
    <3>2. ch[k].data \in Nat /\ ch[k].len \in Nat
      BY <3>1 DEF Chunk
    <3>. QED
      BY <3>2
  <2> HIDE DEF r, z
  <2>3. z <= E
    BY <1>1, <1>2, <1>6, <2>1, <2>2
  <2>4. z <= MoviTo(g, r)
    BY <1>5, <2>1, <2>3 DEF E
  <2>5. g.riffs[r].movi < ch[k].data
    BY <1>3, <2>1
  <2>. QED
    BY <2>4, <2>5 DEF r, z
<1>9. SealedOK(g, ch)
  BY <1>3, <1>7, <1>8 DEF SealedOK
<1>10. ASSUME NEW s \in Streams, NEW id \in 1 .. n, id <= MaxMaster, n > 1
       PROVE  LET ix == g.master[s][id]
              IN /\ g.riffs[id].movi < ix.at /\ ix.at + 32 + 8 * Len(ix.entries) <= MoviTo(g, id)
                 /\ Ascending(ix.entries)
                 /\ FoundBy(ToSet(ix.entries), ix.base) = PartOf(ch, s, id)
  <2>0. n # 1
    BY <1>1, <1>10
  <2>1. CASE id = n
    <3> DEFINE ix == g.master[s][n]
    <3>1. /\ ix.base = f.riffs[n].movi /\ ix.entries = f.entries[s] /\ f.end <= ix.at
          /\ ix.at + 32 + 8 * Len(ix.entries) <= MoviTo(g, n)
      BY <1>2, <1>10, <2>0, <2>1 DEF E
    <3>2. g.riffs[n].movi < ix.at
      <4>1. g.riffs[n].movi = f.riffs[n].movi /\ f.riffs[n].movi \in Nat /\ f.riffs[n].movi + 4 <= f.end
        BY <1>1, <1>3
      <4>2. ix.at \in Nat
        <5>1. g.master \in [Streams -> [1 .. MaxMaster -> Ix]] /\ n \in 1 .. MaxMaster
          BY <1>1, <1>2, <1>10, <2>1, SafeFields, AviAssumption DEF AviAssumption
        <5>2. ix \in Ix
          BY <5>1
        <5>. QED
          BY <5>2 DEF Ix
      <4>3. f.end <= ix.at /\ f.end \in Nat
        BY <1>1, <3>1
      <4> DEFINE a == ix.at  e == f.end  v == f.riffs[n].movi
      <4>4. a \in Nat /\ e \in Nat /\ v \in Nat /\ v + 4 <= e /\ e <= a
        BY <4>1, <4>2, <4>3
      <4> HIDE DEF a, e, v
      <4>5. v < a
        BY <4>4
      <4>. QED
        BY <4>1, <4>5, Zenon DEF a, v
    <3>3. Ascending(ix.entries)
      BY <1>1, <3>1 DEF EntriesOK
    <3>4. FoundBy(ToSet(ix.entries), ix.base) = PartOf(ch, s, n)
      BY <1>1, <1>4, <3>1 DEF IndexOK
    <3> HIDE DEF ix
    <3>. QED
      BY <2>1, <3>1, <3>2, <3>3, <3>4 DEF ix
  <2>2. CASE id # n
    <3>1. id \in 1 .. n - 1 /\ id \in 1 .. MaxMaster
      BY <1>1, <1>5, <1>10, <2>2, AviAssumption DEF AviAssumption
    <3>2. g.master[s][id] = f.master[s][id] /\ g.riffs[id] = f.riffs[id] /\ MoviTo(g, id) = EndOfMovi(f, id)
      BY <1>2, <1>5, <2>0, <2>2, <3>1
    <3>3. LET ix == f.master[s][id]
          IN /\ f.riffs[id].movi < ix.at /\ ix.at + 32 + 8 * Len(ix.entries) <= EndOfMovi(f, id)
             /\ Ascending(ix.entries)
             /\ FoundBy(ToSet(ix.entries), ix.base) = PartOf(ch, s, id)
      BY <1>1, <1>4, <1>10, <3>1 DEF IndexOK
    <3>. QED
      BY <3>2, <3>3
  <2>. QED
    BY <2>1, <2>2
<1>11. /\ Ascending(g.idx1)
       /\ \A s \in Streams :
            FoundBy({e \in ToSet(g.idx1) : e.stream = s}, g.riffs[1].movi) = PartOf(ch, s, 1)
  <2>0. f.riffs[1].movi \in Nat /\ g.riffs[1].movi = f.riffs[1].movi
    BY <1>1, <1>3
  <2>1. CASE n = 1
    <3>1. \A s \in Streams : FoundBy(ToSet(f.entries[s]), f.riffs[1].movi) = PartOf(ch, s, 1)
      BY <1>1, <1>4, <2>1 DEF IndexOK
    <3>2. Idx1Holds(f, g.idx1)
      BY <1>2, <2>1
    <3>. QED
      BY <2>0, <3>1, <3>2 DEF Idx1Holds
  <2>2. CASE n # 1
    <3>1. n > 1 /\ g.idx1 = f.idx1
      BY <1>1, <1>2, <2>2
    <3>. QED
      BY <1>1, <1>4, <2>0, <3>1 DEF IndexOK
  <2>. QED
    BY <2>1, <2>2
<1>12. \A j, k \in 1 .. Len(ch) : j < k => ch[j].data + ch[j].len <= ch[k].data - 8
  BY <1>4 DEF PlacedOK
<1>13. FoundOK(g, ch)
  BY <1>3, <1>10, <1>11, <1>12 DEF FoundOK
<1>. QED
  BY <1>9, <1>13 DEF g
-----------------------------------------------------------------------------
(* The file begins with one part and no chunk.                             *)
LEMMA AviInitOK == AviInit => AviInv
<1> SUFFICES ASSUME AviInit PROVE AviInv
  OBVIOUS
<1> DEFINE H == HeaderSize  e == H + 4
           r == [start |-> 8, movi |-> H, size |-> 0, moviSize |-> 0]
<1>1. H \in Nat /\ H >= 20 /\ MaxMaster \in Nat
  BY AviAssumption DEF AviAssumption
<1>2. /\ avi = avi_add_new_riff(EmptyAvi) /\ chunks = <<>> /\ split = FALSE /\ aviOpen = TRUE /\ mpegAudio \in BOOLEAN
  BY DEF AviInit
<1>3. /\ EmptyAvi.end = 0 /\ EmptyAvi.riffs = <<>> /\ EmptyAvi.idx1 = <<>>
      /\ EmptyAvi.packet_count = [s \in Streams |-> 0] /\ EmptyAvi.strm_length = 0
  BY DEF EmptyAvi
<1>4. EmptyAvi \in AviRec
  <2>1. NoIx \in Ix
    BY DEF NoIx, Ix
  <2>. QED
    BY <2>1 DEF EmptyAvi, AviRec
<1>5. avi = [EmptyAvi EXCEPT !.riffs = <<r>>, !.end = e, !.entries = clean_indexes(EmptyAvi)]
  <2>1. 0 + 8 = 8 /\ 0 + HeaderSize = HeaderSize
    BY <1>1
  <2>2. Append(<<>>, r) = <<r>>
    OBVIOUS
  <2>. QED
    BY <1>2, <1>3, <2>1, <2>2 DEF avi_add_new_riff
<1>6. e \in Nat /\ H + 4 <= e /\ H <= e
  BY <1>1
<1>7. r \in Riff /\ r.start = 8 /\ r.movi = H
  BY <1>1 DEF Riff
<1>8. clean_indexes(EmptyAvi) \in [Streams -> Seq(Entry)] /\ \A s \in Streams : clean_indexes(EmptyAvi)[s] = <<>>
  BY DEF clean_indexes
<1> HIDE DEF r, e, H
<1> DEFINE C == clean_indexes(EmptyAvi)  R == <<r>>
<1>9. R \in Seq(Riff) /\ Len(R) = 1 /\ R[1] = r
  BY <1>7
<1>10. C \in [Streams -> Seq(Entry)] /\ \A s \in Streams : C[s] = <<>>
  BY <1>8
<1> HIDE DEF C, R
<1>11. avi = [EmptyAvi EXCEPT !.riffs = R, !.end = e, !.entries = C]
  BY <1>5 DEF C, R
<1>12. /\ avi \in AviRec /\ avi.riffs = R /\ avi.end = e /\ avi.entries = C /\ avi.idx1 = <<>>
       /\ avi.packet_count = [s \in Streams |-> 0] /\ avi.strm_length = 0
  BY <1>3, <1>4, <1>6, <1>9, <1>10, <1>11 DEF AviRec
<1>13. /\ LastRiff(avi) = 1 /\ avi.riffs[1] = r
       /\ \A s \in Streams : avi.entries[s] = <<>> /\ Len(avi.entries[s]) = 0 /\ ToSet(avi.entries[s]) = {}
  <2>1. Len(<<>>) = 0
    OBVIOUS
  <2>2. ToSet(<<>>) = {}
    BY DEF ToSet
  <2>. QED
    BY <1>9, <1>10, <1>12, <2>1, <2>2 DEF LastRiff
<1>14. SafeFile(avi)
  <2>1. EntriesOK(avi)
    BY <1>13, TwoStreams DEF EntriesOK, Ascending
  <2>2. ASSUME NEW id \in 1 .. 1 PROVE avi.riffs[id].start <= avi.riffs[id].movi /\ avi.riffs[id].movi + 4 <= avi.end
    <3>1. id = 1
      OBVIOUS
    <3>2. avi.riffs[id].start = 8 /\ avi.riffs[id].movi = H
      BY <1>7, <1>13, <3>1
    <3>. QED
      BY <1>1, <1>6, <1>12, <3>2 DEF H
  <2>. QED
    BY <1>12, <1>13, <2>1, <2>2 DEF SafeFile
<1>15. Counts(avi, chunks)
  <2>1. Len(chunks) = 0 /\ chunks \in Seq(Chunk) /\ 1 .. 0 = {}
    BY <1>2
  <2>2. ASSUME NEW s PROVE ChunksOf(chunks, s) = {}
    BY <2>1 DEF ChunksOf
  <2>3. BytesOf(chunks, Audio) = {}
    BY <2>2 DEF BytesOf
  <2>4. Cardinality({}) = 0
    BY FS_EmptySet
  <2>. QED
    BY <1>12, <2>1, <2>2, <2>3, <2>4 DEF Counts
<1>16. Layout(avi, chunks)
  <2>1. Len(chunks) = 0 /\ 1 .. 0 = {} /\ 1 .. 1 - 1 = {}
    BY <1>2
  <2>2. PartsOK(avi)
    BY <1>12, <1>13, <2>1 DEF PartsOK
  <2>3. PlacedOK(avi, chunks)
    BY <2>1 DEF PlacedOK
  <2>4. \A s, id : PartOf(chunks, s, id) = {}
    BY <2>1 DEF PartOf
  <2>5. \A s \in Streams : FoundBy(ToSet(avi.entries[s]), avi.riffs[1].movi) = PartOf(chunks, s, 1)
    BY <1>13, <2>4 DEF FoundBy
  <2>6. IndexOK(avi, chunks)
    BY <1>13, <2>1, <2>5 DEF IndexOK
  <2>. QED
    BY <2>2, <2>3, <2>6 DEF Layout
<1>. QED
  BY <1>2, <1>14, <1>15, <1>16 DEF AviInv, SafeOK

(* A packet and the end of the file keep the invariant.                    *)
LEMMA AviNextOK == AviInv /\ [AviNext]_aviVars => AviInv'
<1> SUFFICES ASSUME AviInv, [AviNext]_aviVars PROVE AviInv'
  OBVIOUS
<1>1. /\ split \in BOOLEAN /\ aviOpen \in BOOLEAN /\ mpegAudio \in BOOLEAN /\ SafeOK(avi, chunks)
      /\ (aviOpen /\ ~split) => Layout(avi, chunks)
      /\ ~aviOpen => /\ CountsOK(avi, chunks, mpegAudio)
                     /\ ~split => SealedOK(avi, chunks) /\ FoundOK(avi, chunks)
  BY DEF AviInv
<1>2. CASE AviWrite
  <2>1. aviOpen /\ aviOpen' = aviOpen /\ mpegAudio' = mpegAudio
    BY <1>2 DEF AviWrite
  <2>2. PICK p \in Packets : \E ahead \in Ahead : avi_write_packet(p, ahead)
    BY <1>2, Zenon DEF AviWrite
  <2>3. PICK ahead \in Ahead : avi_write_packet(p, ahead)
    BY <2>2
  <2>4. SafeOK(avi', chunks') /\ split' \in BOOLEAN /\ (~split' => Layout(avi', chunks'))
    BY <1>1, <2>1, <2>3, AviWriteOK
  <2>. QED
    BY <1>1, <2>1, <2>4 DEF AviInv
<1>3. CASE AviClose
  <2>1. aviOpen /\ ~aviOpen' /\ aviOpen' \in BOOLEAN /\ avi' = avi_close(avi)
        /\ chunks' = chunks /\ split' = split /\ mpegAudio' = mpegAudio
    BY <1>3 DEF AviClose
  <2>2. SafeFile(avi) /\ chunks \in Seq(Chunk)
    BY <1>1 DEF SafeOK, Counts
  <2>3. SafeOK(avi', chunks') /\ CountsOK(avi', chunks', mpegAudio')
    BY <1>1, <2>1, CloseCounts
  <2>4. ~split' => SealedOK(avi', chunks') /\ FoundOK(avi', chunks')
    BY <1>1, <2>1, <2>2, CloseFinds
  <2>. QED
    BY <1>1, <2>1, <2>3, <2>4 DEF AviInv
<1>4. CASE UNCHANGED aviVars
  BY <1>1, <1>4 DEF aviVars, AviInv
<1>. QED
  BY <1>2, <1>3, <1>4 DEF AviNext

(* The invariant says of a closed file what the properties do.             *)
LEMMA AviInvImplies == AviInv => AviTypeOK /\ AviPatched /\ AviIndex
<1> SUFFICES ASSUME AviInv PROVE AviTypeOK /\ AviPatched /\ AviIndex
  OBVIOUS
<1>1. SafeFile(avi) /\ avi \in AviRec
  BY DEF AviInv, SafeOK, SafeFile
<1>2. AviTypeOK
  <2>1. avi.end \in Nat /\ avi.packet_count \in [Streams -> Nat]
    BY <1>1 DEF AviRec
  <2>2. \A id \in 1 .. LastRiff(avi) : avi.riffs[id] \in Riff
    BY <1>1, SafeFields DEF LastRiff
  <2>. QED
    BY <2>1, <2>2 DEF AviTypeOK, AviInv, Riff
<1>3. \A s : Frames(s) = Cardinality(ChunksOf(chunks, s)) /\ Bytes(s) = Cardinality(BytesOf(chunks, s))
  BY Zenon DEF Frames, Bytes, FramesOf, ChunksOf, BytesOf
<1>4. \A id : RiffTo(avi, id) = RiffEnd(id) /\ MoviTo(avi, id) = MoviEnd(id)
  BY DEF RiffTo, RiffEnd, MoviTo, MoviEnd
<1>5. \A s, id : PartOf(chunks, s, id) = InFile(s, id)
  BY Zenon DEF PartOf, InFile
<1>6. AviPatched
  <2> SUFFICES ASSUME ~aviOpen PROVE AviPatched
    BY DEF AviPatched
  <2>1. CountsOK(avi, chunks, mpegAudio) /\ (~split => SealedOK(avi, chunks))
    BY DEF AviInv
  <2>2. /\ avi.frames_hdr = [s \in Streams |-> IF s = Video THEN Frames(s) ELSE Bytes(s)]
        /\ avi.frames_hdr_all = Frames(Video)
        /\ LastRiff(avi) > 1 => avi.odml = Frames(Video) + (IF mpegAudio THEN Frames(Audio) ELSE 0)
    BY <1>3, <2>1 DEF CountsOK
  <2>3. ASSUME ~split
        PROVE  /\ \A id \in 1 .. LastRiff(avi) : PartClosed(id)
               /\ \A k \in 1 .. Len(chunks) : ChunkInMovi(chunks[k])
    BY <1>4, <2>1, <2>3 DEF SealedOK, PartClosed, ChunkInMovi
  <2>. QED
    BY <2>2, <2>3 DEF AviPatched
<1>7. AviIndex
  <2> SUFFICES ASSUME ~aviOpen, ~split PROVE AviIndex
    BY DEF AviIndex
  <2>1. FoundOK(avi, chunks)
    BY DEF AviInv
  <2>. QED
    BY <1>4, <1>5, <2>1, Zenon DEF FoundOK, AviIndex
<1>. QED
  BY <1>2, <1>6, <1>7

(* Whatever packets come, and however far dts is ahead: the parts of the   *)
(* open file adjoin and its indexes find the chunks so far, unless a part  *)
(* was closed while dts was caught up with; the counters are right in any  *)
(* case (avilib.c).                                                        *)
THEOREM AviInvariant == AviSpec => []AviInv
  BY AviInitOK, AviNextOK, PTL DEF AviSpec

(* The offsets, sizes and counters of the AVI writer stay natural numbers, *)
(* for every limit of a part and of the master index.                      *)
THEOREM AviTypeCorrect == AviSpec => []AviTypeOK
  BY AviInvariant, AviInvImplies, PTL

(* avi_close leaves a file whose parts adjoin, whose chunks lie in the     *)
(* movi lists and whose headers count the frames and bytes of the whole    *)
(* file, for every limit of a part, every length of packets and any number *)
(* of chunks.                                                              *)
THEOREM AviSizes == AviSpec => []AviPatched
  BY AviInvariant, AviInvImplies, PTL

(* The indexes that avi_write_ix and avi_write_idx1 leave find every       *)
(* chunk, in order, with its size and key flag, for every limit of a part  *)
(* and every number of parts.                                              *)
THEOREM AviSeeks == AviSpec => []AviIndex
  BY AviInvariant, AviInvImplies, PTL
-----------------------------------------------------------------------------
(* The Matroska writer: what the records of the file are.                  *)
BlockRec == [id : Nat, stream : Streams, time : Int]
ClusterRec == [at : Nat, timecode : Nat, size : Int, blocks : Seq(BlockRec)]
CueRec == [pts : Nat, cluster_pos : Int]
MkvPacket == [id : Nat, stream : Streams, size : Nat, key : BOOLEAN, pts : Nat, duration : Nat]

FileRec ==
  [end : Nat, clusters : Seq(ClusterRec), cluster_pos : Nat, cluster_pts : Nat,
   cached : Seq(MkvPacket), cues : Seq(CueRec), seekhead : SUBSET [element : {"cues"}, pos : Int],
   duration : Nat, segment : Int, duration_written : Nat]

(* The clusters of m lie one behind the other; only the last may be open.  *)
EndOf(m, c) == m.clusters[c].at + MasterHead + m.clusters[c].size
AtOf(m, c, end) == IF c \in 1 .. Len(m.clusters) THEN m.clusters[c].at ELSE end
IsOpen(m, c) == m.cluster_pos # 0 /\ c = Len(m.clusters)

ClustersOK(m) ==
  /\ HeaderEnd <= m.end
  /\ AtOf(m, 1, m.end) = HeaderEnd
  /\ \A c \in 1 .. Len(m.clusters) : ~IsOpen(m, c) => EndOf(m, c) = AtOf(m, c + 1, m.end)
  /\ m.cluster_pos # 0 =>
       LET c == Len(m.clusters)
       IN /\ c > 0 /\ m.clusters[c].at = m.cluster_pos /\ m.clusters[c].timecode = m.cluster_pts
          /\ m.clusters[c].at + MasterHead <= m.end

(* The blocks of m are the first n packets of w.                           *)
FirstOf(m, n, c) == IF c \in 1 .. Len(m.clusters) THEN m.clusters[c].blocks[1].id ELSE n + 1
IdsOK(m, n) ==
  /\ FirstOf(m, n, 1) = 1
  /\ \A c \in 1 .. Len(m.clusters) :
       LET blocks == m.clusters[c].blocks
       IN /\ Len(blocks) > 0 /\ FirstOf(m, n, c) + Len(blocks) = FirstOf(m, n, c + 1)
          /\ \A k \in 1 .. Len(blocks) : blocks[k].id = FirstOf(m, n, c) + k - 1 /\ blocks[k].id \in 1 .. n

BlockOK(m, w, c, b) ==
  /\ b.stream = w[b.id].stream
  /\ InReach(Ts(w[b.id]), m.clusters[c].timecode) =>
       m.clusters[c].timecode + Signed(b.time) = Ts(w[b.id])
BlocksOK(m, w) ==
  \A c \in 1 .. Len(m.clusters) : \A k \in 1 .. Len(m.clusters[c].blocks) :
     BlockOK(m, w, c, m.clusters[c].blocks[k])

DurationOK(m, w, n) == \A k \in 1 .. n : Ts(w[k]) + w[k].duration <= m.duration

KeysTo(w, k) == {j \in 1 .. k : IsKeyframe(w[j])}
Holds(m, c, id) == \E k \in 1 .. Len(m.clusters[c].blocks) : m.clusters[c].blocks[k].id = id
CueOK(m, w, k, cue) ==
  /\ cue.pts = Ts(w[k])
  /\ \E c \in 1 .. Len(m.clusters) :
       /\ m.clusters[c].at = SegmentAt + cue.cluster_pos
       /\ Holds(m, c, k)
       /\ (k > 1 /\ w[k - 1].stream = Audio) => Holds(m, c, k - 1)
CuesOK(m, w, n) ==
  /\ Len(m.cues) = Cardinality(KeysTo(w, n))
  /\ \A k \in KeysTo(w, n) : CueOK(m, w, k, m.cues[Cardinality(KeysTo(w, k))])

FileOK(m, w, n) ==
  /\ m \in FileRec /\ w \in Seq(MkvPacket) /\ n \in 0 .. Len(w)
  /\ \A k \in 1 .. Len(w) : w[k].id = k
  /\ ClustersOK(m) /\ IdsOK(m, n) /\ BlocksOK(m, w) /\ DurationOK(m, w, n) /\ CuesOK(m, w, n)

(* The packet kept back is the last one written, a sound packet.           *)
CachedOK(m, w) ==
  IF w # <<>> /\ w[Len(w)].stream = Audio THEN m.cached = <<w[Len(w)]>> ELSE m.cached = <<>>

MkvInv ==
  /\ mkvOpen \in BOOLEAN
  /\ mkvOpen =>
       /\ CachedOK(mkv, written) /\ FileOK(mkv, written, Len(written) - Len(mkv.cached))
       /\ mkv.seekhead = {}
  /\ ~mkvOpen => MkvTypeOK /\ MkvBlocks /\ MkvCues
-----------------------------------------------------------------------------
USE MkvAssumption

(* The stamps of packets, in the units of the file, are natural.           *)
LEMMA StampTyped == ASSUME NEW p \in MkvPacket PROVE Ts(p) \in Nat
  BY DEF MkvPacket, Ts

(* The remainder of a number between -n and -1.                            *)
LEMMA ModBelowZero ==
  ASSUME NEW n \in Nat \ {0}, NEW r \in 0 .. n - 1
  PROVE  (r - n) % n = r
<1> DEFINE d == r - n  q == -1 - (d \div n)
<1>1. d % n \in 0 .. n - 1 /\ d = n * (d \div n) + (d % n) /\ q \in Int
  BY Z3
<1>2. (d % n) - r = n * q
  BY <1>1, Z3
<1>3. q >= 1 => n * q >= n
  BY <1>1, Z3
<1>4. q <= -1 => n * q <= -n
  BY <1>1, Z3
<1>5. q <= -1 \/ q = 0 \/ q >= 1
  BY <1>1
<1> HIDE DEF q
<1>. QED
  BY <1>1, <1>2, <1>3, <1>4, <1>5

(* A time that is in the reach of 16 bits is read back from them.          *)
LEMMA TimeInReach ==
  ASSUME NEW ts \in Nat, NEW t \in Nat, InReach(ts, t)
  PROVE  t + Signed((ts - t) % (2 * RelativeHalf)) = ts
<1> DEFINE d == ts - t
<1>1. d \in -RelativeHalf .. RelativeHalf - 1 /\ RelativeHalf \in Nat \ {0}
  BY DEF InReach
<1>2. CASE d >= 0
  <2>1. d % (2 * RelativeHalf) = d
    BY <1>1, <1>2
  <2>. QED
    BY <1>1, <1>2, <2>1 DEF Signed
<1>3. CASE d < 0
  <2>1. d % (2 * RelativeHalf) = d + 2 * RelativeHalf
    <3>1. d + 2 * RelativeHalf \in 0 .. 2 * RelativeHalf - 1 /\ 2 * RelativeHalf \in Nat \ {0}
      BY <1>1, <1>3
    <3>2. (d + 2 * RelativeHalf - 2 * RelativeHalf) % (2 * RelativeHalf) = d + 2 * RelativeHalf
      BY <3>1, ModBelowZero
    <3>. QED
      BY <3>2
  <2>. QED
    BY <1>1, <1>3, <2>1 DEF Signed
<1>. QED
  BY <1>1, <1>2, <1>3

(* The keyframes among the first k packets are finitely many.              *)
LEMMA KeysFinite ==
  ASSUME NEW w, NEW n \in Nat
  PROVE  IsFiniteSet(KeysTo(w, n)) /\ Cardinality(KeysTo(w, n)) \in Nat
<1>1. KeysTo(w, n) \subseteq 1 .. n
  BY DEF KeysTo
<1>. QED
  <2>1. IsFiniteSet(1 .. n)
    BY FS_Interval
  <2>2. IsFiniteSet(KeysTo(w, n))
    BY <1>1, <2>1, FS_Subset, Zenon
  <2>. QED
    BY <2>2, FS_CardinalityType, Zenon

(* Packet k + 1 adds itself to the keyframes, if it is one.                *)
LEMMA KeysNext ==
  ASSUME NEW w, NEW n \in Nat
  PROVE  /\ ~IsKeyframe(w[n + 1]) => KeysTo(w, n + 1) = KeysTo(w, n)
         /\ IsKeyframe(w[n + 1]) => /\ KeysTo(w, n + 1) = KeysTo(w, n) \cup {n + 1}
                                    /\ Cardinality(KeysTo(w, n + 1)) = Cardinality(KeysTo(w, n)) + 1
<1>1. 1 .. n + 1 = (1 .. n) \cup {n + 1} /\ n + 1 \notin 1 .. n
  OBVIOUS
<1>2. IsKeyframe(w[n + 1]) => KeysTo(w, n + 1) = KeysTo(w, n) \cup {n + 1}
  BY <1>1, Zenon DEF KeysTo
<1>3. n + 1 \notin KeysTo(w, n)
  BY <1>1 DEF KeysTo
<1>4. ~IsKeyframe(w[n + 1]) => KeysTo(w, n + 1) = KeysTo(w, n)
  BY <1>1, Zenon DEF KeysTo
<1>. QED
  BY <1>2, <1>3, <1>4, KeysFinite, FS_AddElement

(* Some cue of the keyframes up to n belongs to each of them.              *)
LEMMA KeysRank ==
  ASSUME NEW w, NEW n \in Nat, NEW k \in KeysTo(w, n)
  PROVE  /\ Cardinality(KeysTo(w, k)) \in 1 .. Cardinality(KeysTo(w, n))
<1>1. k \in Nat /\ KeysTo(w, k) \subseteq KeysTo(w, n) /\ k \in KeysTo(w, k)
  BY DEF KeysTo
<1>2. Cardinality(KeysTo(w, k)) <= Cardinality(KeysTo(w, n))
  BY <1>1, KeysFinite, FS_Subset
<1>3. Cardinality(KeysTo(w, k)) # 0
  BY <1>1, KeysFinite, FS_EmptySet
<1>. QED
  BY <1>1, <1>2, <1>3, KeysFinite
-----------------------------------------------------------------------------
(* A block: it goes into the open cluster, or into one that is started.    *)
Opened(m, p) == IF m.cluster_pos = 0 THEN StartCluster(m, Ts(p)) ELSE m
Placed(m, p) == mkv_write_block(Opened(m, p), p)
NewBlock(m, p) ==
  [id |-> p.id, stream |-> p.stream,
   time |-> (Ts(p) - Opened(m, p).cluster_pts) % (2 * RelativeHalf)]
LastOf(m) == IF m.cluster_pos = 0 THEN Len(m.clusters) + 1 ELSE Len(m.clusters)
OldBlocks(m) == IF m.cluster_pos = 0 THEN <<>> ELSE m.clusters[Len(m.clusters)].blocks

(* What a new cluster does to the fields of the file.                      *)
LEMMA OpenedFields ==
  ASSUME NEW m \in FileRec, ClustersOK(m), NEW p \in MkvPacket
  PROVE  LET o == Opened(m, p)  l == LastOf(m)
         IN /\ o \in FileRec /\ Len(o.clusters) = l /\ l \in Nat \ {0}
            /\ \A c \in 1 .. l - 1 : o.clusters[c] = m.clusters[c] /\ c \in 1 .. Len(m.clusters)
            /\ o.clusters[l].blocks = OldBlocks(m) /\ o.clusters[l].size \in Int
            /\ o.clusters[l].at = o.cluster_pos /\ o.clusters[l].timecode = o.cluster_pts
            /\ m.cluster_pos = 0 => o.cluster_pos = m.end /\ o.end = m.end + MasterHead + Timecode
            /\ m.cluster_pos # 0 => o.cluster_pos = m.cluster_pos /\ o.end = m.end
            /\ o.clusters[l].at + MasterHead <= o.end
            /\ o.cluster_pos # 0 /\ o.end \in Nat
            /\ o.cues = m.cues /\ o.duration = m.duration /\ o.seekhead = m.seekhead
            /\ o.cached = m.cached /\ o.segment = m.segment /\ o.duration_written = m.duration_written
            /\ m.cluster_pos # 0 => o = m
<1>1. CASE m.cluster_pos # 0
  <2>1. Opened(m, p) = m /\ LastOf(m) = Len(m.clusters) /\ OldBlocks(m) = m.clusters[Len(m.clusters)].blocks
    BY <1>1 DEF Opened, LastOf, OldBlocks
  <2>2. /\ Len(m.clusters) > 0 /\ m.clusters[Len(m.clusters)].at = m.cluster_pos
        /\ m.clusters[Len(m.clusters)].timecode = m.cluster_pts
        /\ m.clusters[Len(m.clusters)].at + MasterHead <= m.end
    BY <1>1, Zenon DEF ClustersOK
  <2>3. m.clusters \in Seq(ClusterRec) /\ m.end \in Nat
    BY DEF FileRec
  <2>4. m.clusters[Len(m.clusters)] \in ClusterRec
    BY <2>2, <2>3
  <2>5. m.clusters[Len(m.clusters)].size \in Int
    BY <2>4 DEF ClusterRec
  <2>. QED
    BY <1>1, <2>1, <2>2, <2>3, <2>5
<1>2. CASE m.cluster_pos = 0
  <2> DEFINE new == [at |-> m.end, timecode |-> Ts(p), size |-> Open, blocks |-> <<>>]
             o == StartCluster(m, Ts(p))
  <2>1. Opened(m, p) = o /\ LastOf(m) = Len(m.clusters) + 1 /\ OldBlocks(m) = <<>>
    BY <1>2 DEF Opened, LastOf, OldBlocks
  <2>2. m.end \in Nat /\ Ts(p) \in Nat /\ m.clusters \in Seq(ClusterRec) /\ HeaderEnd <= m.end
    BY StampTyped DEF FileRec, ClustersOK
  <2>3. new \in ClusterRec
    BY <2>2 DEF ClusterRec, Open
  <2>4. /\ o.clusters = Append(m.clusters, new) /\ o.cluster_pos = m.end /\ o.cluster_pts = Ts(p)
        /\ o.end = m.end + MasterHead + Timecode
        /\ o.cues = m.cues /\ o.duration = m.duration /\ o.seekhead = m.seekhead
        /\ o.cached = m.cached /\ o.segment = m.segment /\ o.duration_written = m.duration_written
    BY DEF StartCluster, FileRec
  <2>5. o.clusters \in Seq(ClusterRec)
    BY <2>2, <2>3, <2>4
  <2>6. o \in FileRec
    <3>1. m.end + MasterHead + Timecode \in Nat
      BY <2>2 DEF MasterHead, Timecode
    <3>. QED
      BY <2>2, <2>4, <2>5, <3>1 DEF StartCluster, FileRec
  <2>7. /\ Len(o.clusters) = Len(m.clusters) + 1 /\ o.clusters[Len(m.clusters) + 1] = new
        /\ \A c \in 1 .. Len(m.clusters) : o.clusters[c] = m.clusters[c]
    BY <2>2, <2>3, <2>4
  <2>8. /\ new.at = m.end /\ new.timecode = Ts(p) /\ new.size \in Int /\ new.blocks = <<>>
    BY DEF Open
  <2> HIDE DEF new, o
  <2>. QED
    BY <1>2, <2>1, <2>2, <2>4, <2>6, <2>7, <2>8, SMTT(30) DEF MasterHead, Timecode
<1>. QED
  BY <1>1, <1>2

(* What a new block does to the fields of the file.                        *)
LEMMA PlacedFields ==
  ASSUME NEW m \in FileRec, ClustersOK(m), NEW p \in MkvPacket
  PROVE  LET b == Placed(m, p)  l == LastOf(m)  blocks == OldBlocks(m)
         IN /\ b \in FileRec /\ Len(b.clusters) = l /\ l \in Nat \ {0}
            /\ \A c \in 1 .. l - 1 : b.clusters[c] = m.clusters[c] /\ c \in 1 .. Len(m.clusters)
            /\ blocks \in Seq(BlockRec) /\ NewBlock(m, p) \in BlockRec
            /\ b.clusters[l].blocks = Append(blocks, NewBlock(m, p))
            /\ b.clusters[l].at = b.cluster_pos /\ b.clusters[l].timecode = b.cluster_pts
            /\ b.cluster_pts = Opened(m, p).cluster_pts
            /\ b.cluster_pos = IF m.cluster_pos = 0 THEN m.end ELSE m.cluster_pos
            /\ m.cluster_pos # 0 => b.clusters[l].timecode = m.clusters[l].timecode
            /\ b.clusters[l].at + MasterHead <= b.end
            /\ b.cluster_pos # 0 /\ b.end >= m.end
            /\ b.cues = m.cues /\ b.duration = m.duration /\ b.seekhead = m.seekhead
            /\ b.cached = m.cached /\ b.segment = m.segment /\ b.duration_written = m.duration_written
<1> DEFINE o == Opened(m, p)  l == LastOf(m)  nb == NewBlock(m, p)  old == OldBlocks(m)
           b == Placed(m, p)
           last == [o.clusters[l] EXCEPT !.blocks = Append(@, nb)]
<1>1. /\ o \in FileRec /\ Len(o.clusters) = l /\ l \in Nat \ {0}
      /\ \A c \in 1 .. l - 1 : o.clusters[c] = m.clusters[c] /\ c \in 1 .. Len(m.clusters)
      /\ o.clusters[l].blocks = old
      /\ o.clusters[l].at = o.cluster_pos /\ o.clusters[l].timecode = o.cluster_pts
      /\ m.cluster_pos = 0 => o.cluster_pos = m.end /\ o.end = m.end + MasterHead + Timecode
      /\ m.cluster_pos # 0 => o.cluster_pos = m.cluster_pos /\ o.end = m.end /\ o = m
      /\ o.clusters[l].at + MasterHead <= o.end
      /\ o.cluster_pos # 0 /\ o.end \in Nat
      /\ o.cues = m.cues /\ o.duration = m.duration /\ o.seekhead = m.seekhead
      /\ o.cached = m.cached /\ o.segment = m.segment /\ o.duration_written = m.duration_written
  BY OpenedFields
<1>2. /\ p.id \in Nat /\ p.stream \in Streams /\ p.size \in Nat /\ Ts(p) \in Nat
      /\ o.cluster_pts \in Nat /\ o.clusters \in Seq(ClusterRec) /\ m.end \in Nat
  BY <1>1, StampTyped DEF FileRec, MkvPacket
<1>3. nb \in BlockRec
  <2>1. (Ts(p) - o.cluster_pts) % (2 * RelativeHalf) \in Int
    BY <1>2
  <2>. QED
    BY <1>2, <2>1 DEF NewBlock, BlockRec
<1>4. b = [o EXCEPT !.clusters = [o.clusters EXCEPT ![l] = last], !.end = o.end + BlockHead + p.size]
  <2>1. b = mkv_write_block(o, p) /\ l = Len(o.clusters)
    BY <1>1 DEF Placed
  <2>2. mkv_write_block(o, p) =
          [o EXCEPT !.clusters = [o.clusters EXCEPT ![Len(o.clusters)] = [o.clusters[Len(o.clusters)] EXCEPT !.blocks = Append(@, nb)]],
                    !.end = o.end + BlockHead + p.size]
    BY Zenon DEF mkv_write_block, NewBlock
  <2> HIDE DEF o, b, nb, l
  <2>. QED
    BY <2>1, <2>2
<1> HIDE DEF o, b, nb, l, old, last
<1>5. o.clusters[l] \in ClusterRec
  BY <1>1, <1>2
<1>6. /\ last \in ClusterRec /\ last.blocks = Append(old, nb) /\ old \in Seq(BlockRec)
      /\ last.at = o.clusters[l].at /\ last.timecode = o.clusters[l].timecode
  <2>1. old \in Seq(BlockRec)
    BY <1>1, <1>5 DEF ClusterRec
  <2>2. Append(old, nb) \in Seq(BlockRec)
    BY <1>3, <2>1
  <2>3. last = [o.clusters[l] EXCEPT !.blocks = Append(old, nb)]
    BY <1>1 DEF last
  <2>. QED
    BY <1>5, <2>1, <2>2, <2>3 DEF ClusterRec
<1> DEFINE cl == [o.clusters EXCEPT ![l] = last]
<1>7. /\ cl \in Seq(ClusterRec) /\ Len(cl) = l /\ cl[l] = last
      /\ \A c \in 1 .. l - 1 : cl[c] = o.clusters[c]
  BY <1>1, <1>2, <1>6
<1> DEFINE e == o.end + BlockHead + p.size
<1>8. b = [o EXCEPT !.clusters = cl, !.end = e]
  BY <1>4
<1> HIDE DEF cl
<1>9. e \in Nat /\ e >= o.end
  BY <1>1, <1>2 DEF BlockHead
<1> HIDE DEF e
<1>10. b \in FileRec
  BY <1>1, <1>7, <1>8, <1>9 DEF FileRec
<1>11. /\ b.clusters = cl /\ b.end = e
       /\ b.cluster_pos = o.cluster_pos /\ b.cluster_pts = o.cluster_pts
       /\ b.cues = o.cues /\ b.duration = o.duration /\ b.seekhead = o.seekhead
       /\ b.cached = o.cached /\ b.segment = o.segment /\ b.duration_written = o.duration_written
  BY <1>1, <1>8 DEF FileRec
<1>12. o.end >= m.end
  BY <1>1, <1>2 DEF MasterHead, Timecode
<1>13. b.end >= o.end /\ b.end \in Nat /\ o.end \in Nat
  BY <1>1, <1>9, <1>11
<1>14. b.end >= m.end
  BY <1>12, <1>13, <1>2
<1>15. b.clusters[l].at \in Nat /\ b.clusters[l].at + MasterHead <= b.end
  BY <1>1, <1>5, <1>6, <1>7, <1>11, <1>13 DEF ClusterRec, MasterHead
<1>. QED
  BY <1>1, <1>3, <1>6, <1>7, <1>10, <1>11, <1>14, <1>15 DEF o, b, nb, l, old

(* The clusters with the block in them.                                    *)
LEMMA PlacedClusters ==
  ASSUME NEW m, NEW w, NEW n, FileOK(m, w, n), n < Len(w), NEW p, p = w[n + 1]
  PROVE  LET b == Placed(m, p)  l == LastOf(m)
         IN /\ ClustersOK(b) /\ IdsOK(b, n + 1) /\ Holds(b, l, n + 1)
            /\ (m.cluster_pos # 0 /\ n > 0) => Holds(b, l, n)
            /\ \A c \in 1 .. Len(m.clusters) : b.clusters[c].at = m.clusters[c].at
            /\ \A c \in 1 .. Len(m.clusters), id \in Nat : Holds(m, c, id) => Holds(b, c, id)
<1> DEFINE b == Placed(m, p)  l == LastOf(m)  old == OldBlocks(m)  nb == NewBlock(m, p)  L == Len(m.clusters)
<1>1. /\ m \in FileRec /\ w \in Seq(MkvPacket) /\ n \in 0 .. Len(w) /\ p \in MkvPacket /\ p.id = n + 1
      /\ ClustersOK(m) /\ IdsOK(m, n) /\ n \in Nat /\ m.clusters \in Seq(ClusterRec) /\ L \in Nat
  <2>1. m \in FileRec /\ w \in Seq(MkvPacket) /\ n \in 0 .. Len(w) /\ ClustersOK(m) /\ IdsOK(m, n)
    BY DEF FileOK
  <2>2. n + 1 \in 1 .. Len(w)
    BY <2>1
  <2>3. p \in MkvPacket /\ p.id = n + 1
    BY <2>1, <2>2 DEF FileOK
  <2>. QED
    BY <2>1, <2>3 DEF FileRec
<1>0. n \in Nat /\ L \in Nat
  BY <1>1
<1>2. /\ b \in FileRec /\ Len(b.clusters) = l /\ l \in Nat \ {0}
      /\ \A c \in 1 .. l - 1 : b.clusters[c] = m.clusters[c] /\ c \in 1 .. L
      /\ old \in Seq(BlockRec) /\ nb \in BlockRec
      /\ b.clusters[l].blocks = Append(old, nb)
      /\ b.clusters[l].at = b.cluster_pos /\ b.clusters[l].timecode = b.cluster_pts
      /\ b.cluster_pos = IF m.cluster_pos = 0 THEN m.end ELSE m.cluster_pos
      /\ b.clusters[l].at + MasterHead <= b.end
      /\ b.cluster_pos # 0 /\ b.end >= m.end
  BY <1>1, PlacedFields, SMTT(30)
<1>3. nb.id = n + 1
  BY <1>1 DEF NewBlock
<1>4. /\ m.cluster_pos = 0 => l = L + 1 /\ old = <<>>
      /\ m.cluster_pos # 0 => l = L /\ L > 0 /\ old = m.clusters[L].blocks /\ m.clusters[L].at = m.cluster_pos
  BY <1>1 DEF LastOf, OldBlocks, ClustersOK
<1>5. m.end \in Nat /\ b.end \in Nat /\ HeaderEnd <= m.end
  BY <1>1, <1>2 DEF ClustersOK, FileRec
<1> HIDE DEF b, l, old, nb, L
<1>6. ASSUME NEW c \in 1 .. L PROVE b.clusters[c].at = m.clusters[c].at /\ c \in 1 .. l
  <2>1. CASE c \in 1 .. l - 1
    BY <1>1, <1>2, <2>1
  <2>2. CASE c \notin 1 .. l - 1
    <3>1. c = l /\ l = L /\ m.cluster_pos # 0
      BY <1>1, <1>2, <1>4, <2>2
    <3>. QED
      BY <1>2, <1>4, <3>1
  <2>. QED
    BY <2>1, <2>2
<1>7. ClustersOK(b)
  <2>1. HeaderEnd <= b.end
    BY <1>2, <1>5
  <2>2. AtOf(m, 1, m.end) = HeaderEnd
    BY <1>1 DEF ClustersOK
  <2>3. AtOf(b, 1, b.end) = HeaderEnd
    <3>1. CASE L = 0
      BY <1>1, <1>2, <1>4, <2>2, <3>1 DEF AtOf, L
    <3>2. CASE L # 0
      BY <1>1, <1>2, <1>6, <2>2, <3>2, SMTT(30) DEF AtOf, L
    <3>. QED
      BY <3>1, <3>2
  <2>4. ASSUME NEW c \in 1 .. Len(b.clusters), ~IsOpen(b, c)
        PROVE  EndOf(b, c) = AtOf(b, c + 1, b.end)
    <3>1. c \in 1 .. l - 1 /\ c \in 1 .. L /\ c + 1 \in 1 .. l
      BY <1>2, <2>4 DEF IsOpen
    <3>2. ~IsOpen(m, c)
      BY <1>1, <1>4, <3>1 DEF IsOpen, L
    <3>3. EndOf(m, c) = AtOf(m, c + 1, m.end)
      BY <1>1, <3>1, <3>2 DEF ClustersOK, L
    <3>4. EndOf(b, c) = EndOf(m, c)
      BY <1>2, <3>1 DEF EndOf
    <3>5. AtOf(b, c + 1, b.end) = b.clusters[c + 1].at
      BY <1>2, <3>1 DEF AtOf
    <3>6. b.clusters[c + 1].at = AtOf(m, c + 1, m.end)
      <4>1. CASE c + 1 \in 1 .. L
        BY <1>6, <4>1 DEF AtOf, L
      <4>2. CASE c + 1 \notin 1 .. L
        <5>1. c + 1 = l /\ m.cluster_pos = 0
          BY <1>1, <1>2, <1>4, <3>1, <4>2
        <5>. QED
          BY <1>2, <4>2, <5>1 DEF AtOf, L
      <4>. QED
        BY <4>1, <4>2
    <3>. QED
      BY <3>3, <3>4, <3>5, <3>6
  <2>5. /\ Len(b.clusters) > 0 /\ b.clusters[Len(b.clusters)].at = b.cluster_pos
        /\ b.clusters[Len(b.clusters)].timecode = b.cluster_pts
        /\ b.clusters[Len(b.clusters)].at + MasterHead <= b.end
    BY <1>2
  <2>. QED
    BY <2>1, <2>3, <2>4, <2>5, Zenon DEF ClustersOK
<1>8. \A c \in 1 .. L, id \in Nat : Holds(m, c, id) => Holds(b, c, id)
  <2> SUFFICES ASSUME NEW c \in 1 .. L, NEW id \in Nat, Holds(m, c, id)
               PROVE  Holds(b, c, id)
    OBVIOUS
  <2>0. PICK k \in 1 .. Len(m.clusters[c].blocks) : m.clusters[c].blocks[k].id = id
    BY Zenon DEF Holds
  <2>1. CASE c \in 1 .. l - 1
    <3>1. b.clusters[c] = m.clusters[c]
      BY <1>2, <2>1
    <3>. QED
      BY <2>0, <3>1, Zenon DEF Holds
  <2>2. CASE c \notin 1 .. l - 1
    <3>1. c = l /\ l = L /\ old = m.clusters[c].blocks
      BY <1>1, <1>2, <1>4, <1>6, <2>2
    <3>2. k \in 1 .. Len(Append(old, nb)) /\ Append(old, nb)[k] = old[k]
      BY <1>2, <2>0, <3>1
    <3>3. b.clusters[c].blocks[k].id = id /\ k \in 1 .. Len(b.clusters[c].blocks)
      BY <1>2, <2>0, <3>1, <3>2
    <3>. QED
      BY <3>3, Zenon DEF Holds
  <2>. QED
    BY <2>1, <2>2
<1>9. Holds(b, l, n + 1)
  <2>1. Len(Append(old, nb)) \in 1 .. Len(Append(old, nb)) /\ Append(old, nb)[Len(Append(old, nb))] = nb
    BY <1>2
  <2>. QED
    BY <1>2, <1>3, <2>1 DEF Holds
<1>10. ASSUME NEW c \in 1 .. L
       PROVE  /\ Len(m.clusters[c].blocks) > 0
              /\ FirstOf(m, n, c) + Len(m.clusters[c].blocks) = FirstOf(m, n, c + 1)
              /\ \A k \in 1 .. Len(m.clusters[c].blocks) :
                   /\ m.clusters[c].blocks[k].id = FirstOf(m, n, c) + k - 1
                   /\ m.clusters[c].blocks[k].id \in 1 .. n
              /\ m.clusters[c].blocks \in Seq(BlockRec) /\ FirstOf(m, n, c) \in Nat
  <2>1. m.clusters[c] \in ClusterRec
    BY <1>1 DEF L
  <2>2. m.clusters[c].blocks \in Seq(BlockRec)
    BY <2>1 DEF ClusterRec
  <2>3. Len(m.clusters[c].blocks) > 0
    BY <1>1 DEF IdsOK, L
  <2>4. m.clusters[c].blocks[1] \in BlockRec
    BY <2>2, <2>3
  <2>5. FirstOf(m, n, c) \in Nat
    BY <2>4 DEF FirstOf, L, BlockRec
  <2>. QED
    BY <1>1, <2>2, <2>5 DEF IdsOK, L
<1>11. ASSUME NEW c \in 1 .. l PROVE FirstOf(b, n + 1, c) = FirstOf(m, n, c)
  <2>1. FirstOf(b, n + 1, c) = b.clusters[c].blocks[1].id
    BY <1>2 DEF FirstOf
  <2>2. CASE c \in 1 .. l - 1
    BY <1>2, <2>1, <2>2 DEF FirstOf, L
  <2>3. CASE c = l /\ m.cluster_pos = 0
    <3>1. Append(old, nb)[1] = nb /\ c = L + 1 /\ c \notin 1 .. L
      BY <1>1, <1>2, <1>4, <2>3
    <3>2. FirstOf(m, n, c) = n + 1
      BY <3>1, Zenon DEF FirstOf, L
    <3>3. b.clusters[c].blocks = Append(old, nb) /\ nb.id = n + 1
      BY <1>2, <1>3, <2>3
    <3>. QED
      BY <2>1, <3>1, <3>2, <3>3
  <2>4. CASE c = l /\ m.cluster_pos # 0
    <3>1. c = L /\ c \in 1 .. L /\ old = m.clusters[c].blocks /\ Len(old) > 0
      BY <1>1, <1>2, <1>4, <2>4, <1>10
    <3>2. Append(old, nb)[1] = old[1]
      BY <1>2, <3>1
    <3>. QED
      BY <1>2, <2>1, <2>4, <3>1, <3>2 DEF FirstOf, L
  <2>. QED
    BY <1>2, <2>2, <2>3, <2>4
<1>12. ASSUME m.cluster_pos # 0
       PROVE  /\ L \in 1 .. L /\ l = L /\ Len(old) > 0 /\ Len(old) \in Nat
              /\ FirstOf(m, n, L) + Len(old) = n + 1
  <2>1. L \in 1 .. L /\ l = L /\ old = m.clusters[L].blocks
    BY <1>1, <1>4, <1>12
  <2>2. FirstOf(m, n, L + 1) = n + 1
    BY <1>1 DEF FirstOf, L
  <2>. QED
    BY <1>2, <1>10, <2>1, <2>2
<1>13. ASSUME m.cluster_pos # 0, n > 0 PROVE Holds(b, l, n)
  <2>1. Len(old) \in 1 .. Len(old) /\ old[Len(old)].id = n
    <3>1. L \in 1 .. L /\ old = m.clusters[L].blocks /\ Len(old) > 0 /\ Len(old) \in Nat
      BY <1>4, <1>12, <1>13
    <3>2. Len(old) \in 1 .. Len(old) /\ FirstOf(m, n, L) + Len(old) = n + 1
      BY <1>12, <1>13, <3>1
    <3>3. old[Len(old)].id = FirstOf(m, n, L) + Len(old) - 1 /\ FirstOf(m, n, L) \in Nat
      BY <1>10, <3>1, <3>2, Zenon
    <3> DEFINE z == Len(old)  f == FirstOf(m, n, L)
    <3>4. z \in Nat /\ f \in Nat /\ f + z = n + 1 /\ old[z].id = f + z - 1
      BY <3>1, <3>2, <3>3
    <3> HIDE DEF z, f
    <3>5. old[z].id = n
      BY <1>0, <3>4
    <3>. QED
      BY <3>2, <3>5 DEF z
  <2>2. Len(old) \in 1 .. Len(Append(old, nb)) /\ Append(old, nb)[Len(old)] = old[Len(old)]
    BY <1>2, <2>1
  <2>. QED
    BY <1>2, <2>1, <2>2 DEF Holds
<1>14. IdsOK(b, n + 1)
  <2>1. FirstOf(b, n + 1, 1) = 1
    BY <1>1, <1>2, <1>11 DEF IdsOK
  <2>2. ASSUME NEW c \in 1 .. l
        PROVE  /\ Len(b.clusters[c].blocks) > 0
               /\ FirstOf(b, n + 1, c) + Len(b.clusters[c].blocks) = FirstOf(b, n + 1, c + 1)
               /\ \A k \in 1 .. Len(b.clusters[c].blocks) :
                    /\ b.clusters[c].blocks[k].id = FirstOf(b, n + 1, c) + k - 1
                    /\ b.clusters[c].blocks[k].id \in 1 .. n + 1
    <3>1. CASE c \in 1 .. l - 1
      <4>1. c \in 1 .. L /\ b.clusters[c] = m.clusters[c] /\ c + 1 \in 1 .. l
        BY <1>2, <3>1
      <4>2. FirstOf(b, n + 1, c) = FirstOf(m, n, c) /\ FirstOf(b, n + 1, c + 1) = FirstOf(m, n, c + 1)
        BY <1>11, <4>1
      <4>3. 1 .. n \subseteq 1 .. n + 1
        BY <1>0
      <4>. QED
        BY <1>10, <4>1, <4>2, <4>3
    <3>2. CASE c = l
      <4>1. FirstOf(b, n + 1, c + 1) = n + 2 /\ FirstOf(b, n + 1, c) = FirstOf(m, n, c)
        BY <1>1, <1>2, <1>11, <3>2 DEF FirstOf
      <4>2. /\ Len(Append(old, nb)) = Len(old) + 1 /\ Len(old) \in Nat
            /\ Append(old, nb)[Len(old) + 1] = nb
            /\ \A k \in 1 .. Len(old) : Append(old, nb)[k] = old[k]
        BY <1>2
      <4>3. FirstOf(m, n, c) \in Nat /\ FirstOf(m, n, c) + Len(old) = n + 1
        <5>1. CASE m.cluster_pos # 0
          BY <1>10, <1>12, <3>2, <5>1
        <5>2. CASE m.cluster_pos = 0
          BY <1>1, <1>2, <1>4, <3>2, <5>2 DEF FirstOf, L
        <5>. QED
          BY <5>1, <5>2
      <4>4. ASSUME NEW k \in 1 .. Len(Append(old, nb))
            PROVE  /\ Append(old, nb)[k].id = FirstOf(m, n, c) + k - 1
                   /\ Append(old, nb)[k].id \in 1 .. n + 1
        <5>1. CASE k = Len(old) + 1
          BY <1>1, <1>3, <4>2, <4>3, <5>1
        <5>2. CASE k # Len(old) + 1
          <6>1. k \in 1 .. Len(old)
            BY <4>2, <5>2
          <6>2. m.cluster_pos # 0
            BY <1>4, <6>1
          <6>3. L \in 1 .. L /\ c = L /\ old = m.clusters[L].blocks
            BY <1>4, <1>12, <3>2, <6>2
          <6>4. old[k].id = FirstOf(m, n, c) + k - 1 /\ old[k].id \in 1 .. n
            BY <1>10, <6>1, <6>3
          <6>. QED
            BY <1>0, <4>2, <6>1, <6>4
        <5>. QED
          BY <5>1, <5>2
      <4>. QED
        <5>1. b.clusters[c].blocks = Append(old, nb)
          BY <1>2, <3>2
        <5>2. Len(Append(old, nb)) > 0 /\ FirstOf(m, n, c) + Len(Append(old, nb)) = n + 2
          BY <1>1, <4>2, <4>3
        <5>. QED
          BY <4>1, <4>4, <5>1, <5>2
    <3>. QED
      BY <1>2, <3>1, <3>2
  <2>. QED
    BY <1>2, <2>1, <2>2 DEF IdsOK
<1>. QED
  BY <1>6, <1>7, <1>8, <1>9, <1>13, <1>14 DEF b, l, L

(* The new block has the stream of its packet and, in reach, its time.     *)
LEMMA PlacedBlocks ==
  ASSUME NEW m, NEW w, NEW n, FileOK(m, w, n), n < Len(w), NEW p, p = w[n + 1]
  PROVE  BlocksOK(Placed(m, p), w)
<1> DEFINE b == Placed(m, p)  l == LastOf(m)  old == OldBlocks(m)  nb == NewBlock(m, p)  L == Len(m.clusters)
           t == Opened(m, p).cluster_pts
<1>1. /\ m \in FileRec /\ p \in MkvPacket /\ p.id = n + 1
      /\ ClustersOK(m) /\ BlocksOK(m, w) /\ m.clusters \in Seq(ClusterRec) /\ L \in Nat
  <2>1. m \in FileRec /\ w \in Seq(MkvPacket) /\ n \in 0 .. Len(w) /\ ClustersOK(m) /\ BlocksOK(m, w)
    BY DEF FileOK
  <2>2. n + 1 \in 1 .. Len(w)
    BY <2>1
  <2>3. p \in MkvPacket /\ p.id = n + 1
    BY <2>1, <2>2 DEF FileOK
  <2>. QED
    BY <2>1, <2>3 DEF FileRec
<1>2. /\ b \in FileRec /\ Len(b.clusters) = l /\ l \in Nat \ {0}
      /\ \A c \in 1 .. l - 1 : b.clusters[c] = m.clusters[c] /\ c \in 1 .. L
      /\ old \in Seq(BlockRec) /\ b.clusters[l].blocks = Append(old, nb)
      /\ b.clusters[l].timecode = b.cluster_pts /\ b.cluster_pts = t
      /\ m.cluster_pos # 0 => b.clusters[l].timecode = m.clusters[l].timecode
  BY <1>1, PlacedFields
<1>3. nb.id = n + 1 /\ nb.stream = p.stream /\ nb.time = (Ts(p) - t) % (2 * RelativeHalf)
  BY <1>1 DEF NewBlock
<1>4. t \in Nat /\ Ts(p) \in Nat
  BY <1>1, <1>2, StampTyped DEF FileRec
<1>5. /\ m.cluster_pos = 0 => old = <<>>
      /\ m.cluster_pos # 0 => l = L /\ L > 0 /\ old = m.clusters[L].blocks
  BY <1>1 DEF LastOf, OldBlocks, ClustersOK
<1>6. BlockOK(b, w, l, nb)
  <2>1. w[nb.id] = p
    BY <1>3
  <2>2. InReach(Ts(p), t) => t + Signed((Ts(p) - t) % (2 * RelativeHalf)) = Ts(p)
    BY <1>4, TimeInReach
  <2> HIDE DEF t
  <2>. QED
    BY <1>2, <1>3, <2>1, <2>2 DEF BlockOK
<1> HIDE DEF b, l, old, nb, L, t
<1> SUFFICES ASSUME NEW c \in 1 .. l, NEW k \in 1 .. Len(b.clusters[c].blocks)
             PROVE  BlockOK(b, w, c, b.clusters[c].blocks[k])
  BY <1>2 DEF BlocksOK, b
<1>7. CASE c \in 1 .. l - 1
  <2>1. b.clusters[c] = m.clusters[c] /\ c \in 1 .. L
    BY <1>2, <1>7
  <2>2. BlockOK(m, w, c, m.clusters[c].blocks[k])
    BY <1>1, <2>1 DEF BlocksOK, L
  <2>. QED
    BY <2>1, <2>2 DEF BlockOK
<1>8. CASE c = l
  <2>1. /\ Len(Append(old, nb)) = Len(old) + 1 /\ Len(old) \in Nat
        /\ Append(old, nb)[Len(old) + 1] = nb
        /\ \A j \in 1 .. Len(old) : Append(old, nb)[j] = old[j]
    BY <1>2
  <2>2. CASE k = Len(old) + 1
    BY <1>2, <1>6, <1>8, <2>1, <2>2
  <2>3. CASE k # Len(old) + 1
    <3>1. k \in 1 .. Len(old)
      BY <1>2, <1>8, <2>1, <2>3
    <3>2. m.cluster_pos # 0
      BY <1>5, <3>1
    <3>3. l = L /\ L \in 1 .. L /\ old = m.clusters[L].blocks
      BY <1>1, <1>5, <3>2
    <3>4. BlockOK(m, w, L, old[k])
      BY <1>1, <3>1, <3>3 DEF BlocksOK, L
    <3>5. b.clusters[c].blocks[k] = old[k]
      BY <1>2, <1>8, <2>1, <3>1
    <3>6. b.clusters[c].timecode = m.clusters[L].timecode
      BY <1>2, <1>8, <3>2, <3>3
    <3>. QED
      BY <3>4, <3>5, <3>6 DEF BlockOK
  <2>. QED
    BY <2>2, <2>3
<1>. QED
  BY <1>2, <1>7, <1>8

(* All of mkv_write_packet_internal: the block, its cue and the duration.  *)
LEMMA InternalOK ==
  ASSUME NEW m, NEW w, NEW n, FileOK(m, w, n), n < Len(w), NEW p, p = w[n + 1],
         (IsKeyframe(p) /\ n > 0 /\ w[n].stream = Audio) => m.cluster_pos # 0
  PROVE  LET r == mkv_write_packet_internal(m, p)
         IN /\ FileOK(r, w, n + 1) /\ r.cluster_pos # 0
            /\ r.cached = m.cached /\ r.seekhead = m.seekhead
<1> DEFINE b == Placed(m, p)  l == LastOf(m)  L == Len(m.clusters)
           cue == [pts |-> Ts(p), cluster_pos |-> b.cluster_pos - SegmentAt]
           x == IF IsKeyframe(p) THEN mkv_add_cuepoint(b, Ts(p), b.cluster_pos) ELSE b
           r == mkv_write_packet_internal(m, p)
           d == Later(b.duration, Ts(p) + p.duration)
<1>1. /\ m \in FileRec /\ w \in Seq(MkvPacket) /\ n \in 0 .. Len(w) /\ n \in Nat /\ n + 1 \in 1 .. Len(w)
      /\ p \in MkvPacket /\ ClustersOK(m) /\ \A k \in 1 .. Len(w) : w[k].id = k
  <2>1. m \in FileRec /\ w \in Seq(MkvPacket) /\ n \in 0 .. Len(w) /\ ClustersOK(m)
        /\ \A k \in 1 .. Len(w) : w[k].id = k
    BY DEF FileOK
  <2>2. n + 1 \in 1 .. Len(w)
    BY <2>1
  <2>. QED
    BY <2>1, <2>2
<1>2. /\ b \in FileRec /\ Len(b.clusters) = l /\ l \in Nat \ {0}
      /\ b.clusters[l].at = b.cluster_pos /\ b.cluster_pos # 0
      /\ b.cues = m.cues /\ b.duration = m.duration /\ b.seekhead = m.seekhead /\ b.cached = m.cached
  BY <1>1, PlacedFields
<1>3. /\ ClustersOK(b) /\ IdsOK(b, n + 1) /\ Holds(b, l, n + 1)
      /\ (m.cluster_pos # 0 /\ n > 0) => Holds(b, l, n)
      /\ \A c \in 1 .. L : b.clusters[c].at = m.clusters[c].at
      /\ \A c \in 1 .. L, id \in Nat : Holds(m, c, id) => Holds(b, c, id)
  BY PlacedClusters
<1>4. BlocksOK(b, w)
  BY PlacedBlocks
<1>5. r = [x EXCEPT !.duration = Later(x.duration, Ts(p) + p.duration)]
  BY DEF mkv_write_packet_internal, Placed, Opened
<1>6. /\ L \in Nat /\ Ts(p) \in Nat /\ p.duration \in Nat /\ b.cluster_pos \in Nat /\ b.duration \in Nat
      /\ b.cues \in Seq(CueRec) /\ L <= l
  <2>1. L \in Nat
    BY <1>1 DEF FileRec
  <2>2. L <= l
    BY <2>1 DEF LastOf
  <2>. QED
    BY <1>1, <1>2, <2>1, <2>2, StampTyped DEF FileRec, MkvPacket
<1> HIDE DEF b, l, L
<1>7. cue \in CueRec /\ d \in Nat /\ b.duration <= d /\ Ts(p) + p.duration <= d
  <2>1. b.cluster_pos - SegmentAt \in Int
    BY <1>6
  <2>. QED
    BY <1>6, <2>1, SMTT(30) DEF CueRec, Later
<1> DEFINE cues == IF IsKeyframe(p) THEN Append(b.cues, cue) ELSE b.cues
<1>8. cues \in Seq(CueRec)
  BY <1>6, <1>7
<1>9. x = [b EXCEPT !.cues = cues]
  BY <1>2 DEF mkv_add_cuepoint, FileRec
<1>10. x.duration = b.duration
  BY <1>2, <1>9 DEF FileRec
<1>11. r = [[b EXCEPT !.cues = cues] EXCEPT !.duration = d]
  BY <1>5, <1>9, <1>10
<1> HIDE DEF x, r, d, cues
<1>12. /\ r \in FileRec /\ r.cues = cues /\ r.duration = d
       /\ r.clusters = b.clusters /\ r.end = b.end /\ r.cluster_pos = b.cluster_pos
       /\ r.cluster_pts = b.cluster_pts /\ r.cached = b.cached /\ r.seekhead = b.seekhead
  <2> DEFINE g == [b EXCEPT !.cues = cues]
  <2>1. /\ g \in FileRec /\ g.cues = cues /\ g.clusters = b.clusters /\ g.end = b.end
        /\ g.cluster_pos = b.cluster_pos /\ g.cluster_pts = b.cluster_pts
        /\ g.cached = b.cached /\ g.seekhead = b.seekhead
    BY <1>2, <1>8 DEF FileRec
  <2>2. r = [g EXCEPT !.duration = d]
    BY <1>11
  <2> HIDE DEF g
  <2>3. d \in Nat
    BY <1>7
  <2>4. /\ r \in FileRec /\ r.cues = g.cues /\ r.duration = d /\ r.clusters = g.clusters /\ r.end = g.end
        /\ r.cluster_pos = g.cluster_pos /\ r.cluster_pts = g.cluster_pts
        /\ r.cached = g.cached /\ r.seekhead = g.seekhead
    BY <2>1, <2>2, <2>3 DEF FileRec
  <2>. QED
    BY <2>1, <2>4
<1>13. ClustersOK(r) /\ IdsOK(r, n + 1) /\ BlocksOK(r, w)
  <2>1. ClustersOK(r)
    BY <1>3, <1>12 DEF ClustersOK, AtOf, EndOf, IsOpen
  <2>2. IdsOK(r, n + 1)
    BY <1>3, <1>12 DEF IdsOK, FirstOf
  <2>3. BlocksOK(r, w)
    <3>1. ASSUME NEW c, NEW e, BlockOK(b, w, c, e) PROVE BlockOK(r, w, c, e)
      BY <1>12, <3>1, Zenon DEF BlockOK
    <3>. QED
      BY <1>4, <1>12, <3>1 DEF BlocksOK
  <2>. QED
    BY <2>1, <2>2, <2>3
<1>14. DurationOK(r, w, n + 1)
  <2> SUFFICES ASSUME NEW k \in 1 .. n + 1 PROVE Ts(w[k]) + w[k].duration <= d
    BY <1>12 DEF DurationOK
  <2>1. CASE k = n + 1
    BY <1>7, <2>1
  <2>2. CASE k # n + 1
    <3>1. k \in 1 .. n /\ k \in 1 .. Len(w)
      BY <1>1, <2>2
    <3>2. Ts(w[k]) + w[k].duration <= b.duration
      BY <1>2, <3>1 DEF FileOK, DurationOK
    <3>3. w[k] \in MkvPacket
      BY <1>1, <3>1
    <3>4. Ts(w[k]) \in Nat /\ w[k].duration \in Nat
      BY <3>3, StampTyped DEF MkvPacket
    <3> DEFINE v == b.duration  y == Ts(w[k])  z == w[k].duration
    <3>5. v \in Nat /\ d \in Nat /\ v <= d /\ y \in Nat /\ z \in Nat /\ y + z <= v
      BY <1>6, <1>7, <3>2, <3>4
    <3> HIDE DEF v, y, z
    <3>6. y + z <= d
      BY <3>5
    <3>. QED
      BY <3>6 DEF y, z
  <2>. QED
    BY <2>1, <2>2
<1>15. CuesOK(r, w, n + 1)
  <2>1. /\ Len(b.cues) = Cardinality(KeysTo(w, n))
        /\ \A k \in KeysTo(w, n) : CueOK(m, w, k, b.cues[Cardinality(KeysTo(w, k))])
    BY <1>2 DEF FileOK, CuesOK
  <2>2. ASSUME NEW k \in KeysTo(w, n)
        PROVE  /\ CueOK(r, w, k, b.cues[Cardinality(KeysTo(w, k))])
               /\ cues[Cardinality(KeysTo(w, k))] = b.cues[Cardinality(KeysTo(w, k))]
    <3>1. CueOK(m, w, k, b.cues[Cardinality(KeysTo(w, k))])
      BY <2>1
    <3>2. PICK c \in 1 .. L :
            /\ m.clusters[c].at = SegmentAt + b.cues[Cardinality(KeysTo(w, k))].cluster_pos
            /\ Holds(m, c, k)
            /\ (k > 1 /\ w[k - 1].stream = Audio) => Holds(m, c, k - 1)
      BY <3>1 DEF CueOK, L
    <3>3. k \in Nat /\ (k > 1 => k - 1 \in Nat) /\ c \in 1 .. l
      BY <1>2, <1>6 DEF KeysTo
    <3>4. /\ b.clusters[c].at = m.clusters[c].at /\ Holds(b, c, k)
          /\ (k > 1 /\ w[k - 1].stream = Audio) => Holds(b, c, k - 1)
      BY <1>3, <3>2, <3>3
    <3>5. CueOK(r, w, k, b.cues[Cardinality(KeysTo(w, k))])
      <4>1. b.cues[Cardinality(KeysTo(w, k))].pts = Ts(w[k])
        BY <3>1 DEF CueOK
      <4>2. c \in 1 .. Len(r.clusters)
        BY <1>2, <1>12, <3>3
      <4>3. r.clusters[c].at = SegmentAt + b.cues[Cardinality(KeysTo(w, k))].cluster_pos
        BY <1>12, <3>2, <3>4
      <4>4. Holds(r, c, k) /\ ((k > 1 /\ w[k - 1].stream = Audio) => Holds(r, c, k - 1))
        BY <1>12, <3>4 DEF Holds
      <4>. QED
        BY <4>1, <4>2, <4>3, <4>4, Zenon DEF CueOK
    <3>6. Cardinality(KeysTo(w, k)) \in 1 .. Len(b.cues)
      BY <1>1, <2>1, KeysRank
    <3>7. cues[Cardinality(KeysTo(w, k))] = b.cues[Cardinality(KeysTo(w, k))]
      BY <1>6, <1>7, <3>6 DEF cues
    <3>. QED
      BY <3>5, <3>7
  <2>3. CASE IsKeyframe(p)
    <3>1. /\ KeysTo(w, n + 1) = KeysTo(w, n) \cup {n + 1}
          /\ Cardinality(KeysTo(w, n + 1)) = Cardinality(KeysTo(w, n)) + 1
      BY <1>1, <2>3, KeysNext
    <3>2. cues = Append(b.cues, cue)
      BY <2>3 DEF cues
    <3>3. Len(cues) = Len(b.cues) + 1 /\ cues[Len(b.cues) + 1] = cue
      BY <1>6, <1>7, <3>2
    <3>4. ASSUME NEW k, k = n + 1 PROVE CueOK(r, w, k, cue)
      <4>1. cue.pts = Ts(w[k])
        BY <3>4
      <4>2. r.clusters[l].at = SegmentAt + cue.cluster_pos
        BY <1>2, <1>6, <1>12
      <4>3. Holds(r, l, n + 1) /\ (n > 0 /\ w[n].stream = Audio => Holds(r, l, n))
        BY <1>3, <1>12, <2>3 DEF Holds
      <4>4. k - 1 = n /\ l \in 1 .. Len(r.clusters) /\ (k > 1 => n > 0)
        BY <1>1, <1>2, <1>12, <3>4
      <4>5. Holds(r, l, k) /\ ((k > 1 /\ w[k - 1].stream = Audio) => Holds(r, l, k - 1))
        BY <3>4, <4>3, <4>4
      <4> HIDE DEF cue
      <4>. QED
        BY <4>1, <4>2, <4>4, <4>5, Zenon DEF CueOK
    <3>. QED
      BY <1>12, <2>1, <2>2, <3>1, <3>3, <3>4 DEF CuesOK
  <2>4. CASE ~IsKeyframe(p)
    <3>1. KeysTo(w, n + 1) = KeysTo(w, n)
      BY <1>1, <2>4, KeysNext
    <3>2. cues = b.cues
      BY <2>4 DEF cues
    <3>. QED
      BY <1>12, <2>1, <2>2, <3>1, <3>2 DEF CuesOK
  <2>. QED
    BY <2>3, <2>4
<1>. QED
  BY <1>1, <1>2, <1>12, <1>13, <1>14, <1>15 DEF FileOK, r
-----------------------------------------------------------------------------
(* What is said of the blocks depends on nothing but the blocks.           *)
LEMMA SameBlocks ==
  ASSUME NEW m, NEW w, NEW n, NEW e,
         IdsOK(m, n), BlocksOK(m, w), CuesOK(m, w, n), DurationOK(m, w, n),
         e.cues = m.cues, e.duration = m.duration, Len(e.clusters) = Len(m.clusters),
         \A c \in 1 .. Len(m.clusters) :
           /\ e.clusters[c].at = m.clusters[c].at /\ e.clusters[c].timecode = m.clusters[c].timecode
           /\ e.clusters[c].blocks = m.clusters[c].blocks
  PROVE  IdsOK(e, n) /\ BlocksOK(e, w) /\ CuesOK(e, w, n) /\ DurationOK(e, w, n)
<1>1. IdsOK(e, n)
  <2>1. \A c : FirstOf(e, n, c) = FirstOf(m, n, c)
    BY DEF FirstOf
  <2>. QED
    BY <2>1, Zenon DEF IdsOK
<1>2. BlocksOK(e, w)
  <2> SUFFICES ASSUME NEW c \in 1 .. Len(m.clusters), NEW k \in 1 .. Len(m.clusters[c].blocks)
               PROVE  BlockOK(e, w, c, m.clusters[c].blocks[k])
    BY Zenon DEF BlocksOK
  <2>1. BlockOK(m, w, c, m.clusters[c].blocks[k])
    BY Zenon DEF BlocksOK
  <2>. QED
    BY <2>1, Zenon DEF BlockOK
<1>3. CuesOK(e, w, n)
  <2>1. ASSUME NEW c \in 1 .. Len(m.clusters), NEW id PROVE Holds(e, c, id) <=> Holds(m, c, id)
    BY Zenon DEF Holds
  <2>2. ASSUME NEW k, NEW cue, CueOK(m, w, k, cue) PROVE CueOK(e, w, k, cue)
    BY <2>1, <2>2, Zenon DEF CueOK
  <2>. QED
    BY <2>2, Zenon DEF CuesOK
<1>4. DurationOK(e, w, n)
  BY Zenon DEF DurationOK
<1>. QED
  BY <1>1, <1>2, <1>3, <1>4

(* A cluster is ended where the file ends.                                 *)
LEMMA EndClusterOK ==
  ASSUME NEW m, NEW w, NEW n, FileOK(m, w, n), m.cluster_pos # 0
  PROVE  LET e == EndCluster(m)
         IN /\ FileOK(e, w, n) /\ e.cluster_pos = 0 /\ e.end = m.end /\ e.duration = m.duration
            /\ e.cached = m.cached /\ e.seekhead = m.seekhead /\ e.cues = m.cues
<1> DEFINE L == Len(m.clusters)
           last == [m.clusters[L] EXCEPT !.size = m.end - (m.clusters[L].at + MasterHead)]
           cl == [m.clusters EXCEPT ![L] = last]
           e == EndCluster(m)
<1>1. m \in FileRec /\ ClustersOK(m) /\ IdsOK(m, n) /\ BlocksOK(m, w) /\ CuesOK(m, w, n) /\ DurationOK(m, w, n)
  BY DEF FileOK
<1>2. /\ m.clusters \in Seq(ClusterRec) /\ m.end \in Nat /\ L \in Nat
  BY <1>1 DEF FileRec
<1>3. L > 0 /\ m.clusters[L].at = m.cluster_pos
  BY <1>1 DEF ClustersOK
<1>4. m.clusters[L] \in ClusterRec
  BY <1>2, <1>3
<1>5. m.clusters[L].at \in Nat
  BY <1>4 DEF ClusterRec
<1>6. e = [m EXCEPT !.clusters = cl, !.cluster_pos = 0]
  BY DEF EndCluster
<1> DEFINE sz == m.end - (m.clusters[L].at + MasterHead)
<1>7. sz \in Int /\ m.clusters[L].at + MasterHead + sz = m.end
  BY <1>2, <1>5, SMTT(30) DEF MasterHead
<1>8. last = [m.clusters[L] EXCEPT !.size = sz]
  OBVIOUS
<1> HIDE DEF last, cl, e, sz, L
<1>9. /\ last \in ClusterRec /\ last.size = sz /\ last.blocks = m.clusters[L].blocks
      /\ last.at = m.clusters[L].at /\ last.timecode = m.clusters[L].timecode
  BY <1>4, <1>7, <1>8 DEF ClusterRec
<1>10. /\ cl \in Seq(ClusterRec) /\ Len(cl) = L /\ cl[L] = last
       /\ \A c \in 1 .. L : c # L => cl[c] = m.clusters[c]
  BY <1>2, <1>3, <1>9 DEF cl, L
<1>11. /\ e \in FileRec /\ e.clusters = cl /\ e.cluster_pos = 0 /\ e.end = m.end
       /\ e.cached = m.cached /\ e.seekhead = m.seekhead /\ e.cues = m.cues /\ e.duration = m.duration
  BY <1>1, <1>6, <1>10 DEF FileRec
<1>12. ASSUME NEW c \in 1 .. L
       PROVE  /\ cl[c].at = m.clusters[c].at /\ cl[c].timecode = m.clusters[c].timecode
              /\ cl[c].blocks = m.clusters[c].blocks
  BY <1>9, <1>10
<1>13. ClustersOK(e)
  <2>1. HeaderEnd <= e.end /\ AtOf(e, 1, e.end) = HeaderEnd
    BY <1>1, <1>10, <1>11, <1>12 DEF ClustersOK, AtOf, L
  <2>2. ASSUME NEW c \in 1 .. L PROVE EndOf(e, c) = AtOf(e, c + 1, e.end)
    <3>1. CASE c = L
      BY <1>2, <1>7, <1>9, <1>10, <1>11, <3>1 DEF EndOf, AtOf
    <3>2. CASE c # L
      <4>1. c + 1 \in 1 .. L
        BY <1>2, <3>2
      <4>2. EndOf(m, c) = AtOf(m, c + 1, m.end)
        BY <1>1, <3>2 DEF ClustersOK, IsOpen, L
      <4>. QED
        BY <1>10, <1>11, <1>12, <3>2, <4>1, <4>2 DEF EndOf, AtOf, L
    <3>. QED
      BY <3>1, <3>2
  <2>. QED
    BY <1>10, <1>11, <2>1, <2>2 DEF ClustersOK
<1>14. IdsOK(e, n) /\ BlocksOK(e, w) /\ CuesOK(e, w, n) /\ DurationOK(e, w, n)
  BY <1>1, <1>10, <1>11, <1>12, SameBlocks DEF L
<1>. QED
  BY <1>11, <1>13, <1>14 DEF FileOK, e

(* The packet kept back is written behind the others.                      *)
LEMMA ReleasedOK ==
  ASSUME NEW m, NEW w, FileOK(m, w, Len(w) - Len(m.cached)), CachedOK(m, w)
  PROVE  LET r == Released(m)
         IN /\ FileOK(r, w, Len(w)) /\ r.cached = <<>> /\ r.seekhead = m.seekhead
            /\ (w # <<>> /\ w[Len(w)].stream = Audio) => r.cluster_pos # 0
<1> DEFINE n == Len(w)
<1>1. m \in FileRec /\ w \in Seq(MkvPacket) /\ n \in Nat
  BY DEF FileOK
<1>2. CASE w # <<>> /\ w[n].stream = Audio
  <2> DEFINE u == [m EXCEPT !.cached = <<>>]
  <2>0. m.cached = <<w[n]>> /\ n > 0
    BY <1>1, <1>2 DEF CachedOK
  <2>1. n > 0 /\ Len(m.cached) = 1 /\ m.cached[1] = w[n] /\ m.cached # <<>>
    BY <2>0
  <2>2. Released(m) = mkv_write_packet_internal(u, w[n])
    BY <2>1 DEF Released
  <2>3. <<>> \in Seq(MkvPacket)
    OBVIOUS
  <2>4. /\ u \in FileRec /\ u.cached = <<>> /\ u.seekhead = m.seekhead /\ u.clusters = m.clusters
        /\ u.cluster_pos = m.cluster_pos /\ u.cluster_pts = m.cluster_pts /\ u.end = m.end
        /\ u.cues = m.cues /\ u.duration = m.duration
    BY <1>1, <2>3 DEF FileRec
  <2> HIDE DEF u
  <2>5. FileOK(u, w, n - 1)
    <3>1. FileOK(m, w, n - 1)
      BY <2>1
    <3>2. ClustersOK(u)
      BY <2>4, <3>1 DEF FileOK, ClustersOK, AtOf, EndOf, IsOpen
    <3>3. IdsOK(u, n - 1) /\ BlocksOK(u, w) /\ CuesOK(u, w, n - 1) /\ DurationOK(u, w, n - 1)
      BY <2>4, <3>1, SameBlocks, Zenon DEF FileOK
    <3>. QED
      BY <2>4, <3>1, <3>2, <3>3 DEF FileOK
  <2>6. ~IsKeyframe(w[n])
    BY <1>2 DEF IsKeyframe, Video, Audio
  <2>7. n - 1 < Len(w) /\ n - 1 + 1 = n
    BY <1>1
  <2>8. LET r == mkv_write_packet_internal(u, w[n])
        IN FileOK(r, w, n - 1 + 1) /\ r.cluster_pos # 0 /\ r.cached = u.cached /\ r.seekhead = u.seekhead
    BY <2>5, <2>6, <2>7, InternalOK
  <2>. QED
    BY <2>2, <2>4, <2>7, <2>8
<1>3. CASE ~(w # <<>> /\ w[n].stream = Audio)
  <2>1. m.cached = <<>> /\ Released(m) = m /\ Len(m.cached) = 0
    BY <1>3 DEF CachedOK, Released
  <2>. QED
    BY <1>1, <1>3, <2>1
<1>. QED
  BY <1>2, <1>3

(* A packet more is written, but not into the file yet.                    *)
LEMMA AppendOK ==
  ASSUME NEW m, NEW w, NEW n, FileOK(m, w, n), NEW p \in MkvPacket, p.id = Len(w) + 1
  PROVE  /\ FileOK(m, Append(w, p), n) /\ Append(w, p)[Len(w) + 1] = p
         /\ Len(Append(w, p)) = Len(w) + 1 /\ \A k \in 1 .. Len(w) : Append(w, p)[k] = w[k]
<1> DEFINE v == Append(w, p)
<1>1. /\ w \in Seq(MkvPacket) /\ n \in 0 .. Len(w) /\ m \in FileRec /\ ClustersOK(m) /\ IdsOK(m, n)
      /\ BlocksOK(m, w) /\ CuesOK(m, w, n) /\ DurationOK(m, w, n) /\ \A k \in 1 .. Len(w) : w[k].id = k
  BY DEF FileOK
<1>2. /\ v \in Seq(MkvPacket) /\ v[Len(w) + 1] = p /\ Len(v) = Len(w) + 1 /\ Len(w) \in Nat
      /\ \A k \in 1 .. Len(w) : v[k] = w[k]
  BY <1>1
<1> HIDE DEF v
<1>3. \A k \in 1 .. n : k \in 1 .. Len(w) /\ v[k] = w[k]
  BY <1>1, <1>2
<1>4. n \in 0 .. Len(v) /\ n \in Nat
  BY <1>1, <1>2
<1>5. \A k \in 1 .. Len(v) : v[k].id = k
  <2> TAKE k \in 1 .. Len(v)
  <2>1. k \in 1 .. Len(w) \/ k = Len(w) + 1
    BY <1>2
  <2>. QED
    BY <1>1, <1>2, <2>1
<1>6. BlocksOK(m, v)
  <2> SUFFICES ASSUME NEW c \in 1 .. Len(m.clusters), NEW k \in 1 .. Len(m.clusters[c].blocks)
               PROVE  BlockOK(m, v, c, m.clusters[c].blocks[k])
    BY DEF BlocksOK
  <2> DEFINE id == m.clusters[c].blocks[k].id
  <2>1. BlockOK(m, w, c, m.clusters[c].blocks[k])
    BY <1>1 DEF BlocksOK
  <2>2. id \in 1 .. n
    BY <1>1, Zenon DEF IdsOK
  <2>3. v[id] = w[id]
    BY <1>3, <2>2
  <2>. QED
    BY <2>1, <2>3, Zenon DEF BlockOK
<1>7. DurationOK(m, v, n)
  BY <1>1, <1>3 DEF DurationOK
<1>8. CuesOK(m, v, n)
  <2>1. ASSUME NEW k \in 0 .. n PROVE KeysTo(v, k) = KeysTo(w, k)
    <3>1. \A j \in 1 .. k : j \in 1 .. n
      BY <1>4
    <3>. QED
      BY <1>3, <3>1 DEF KeysTo
  <2>2. ASSUME NEW k \in 1 .. n, NEW cue, CueOK(m, w, k, cue) PROVE CueOK(m, v, k, cue)
    <3>1. v[k] = w[k] /\ (k > 1 => v[k - 1] = w[k - 1])
      BY <1>3, <1>4
    <3>. QED
      BY <2>2, <3>1, Zenon DEF CueOK
  <2>3. KeysTo(w, n) \subseteq 1 .. n /\ \A k \in 1 .. n : k \in 0 .. n
    BY <1>4 DEF KeysTo
  <2>4. n \in 0 .. n
    BY <1>4
  <2>. QED
    BY <1>1, <2>1, <2>2, <2>3, <2>4 DEF CuesOK
<1>. QED
  BY <1>1, <1>2, <1>4, <1>5, <1>6, <1>7, <1>8 DEF FileOK, v

(* All of mkv_write_packet.                                                *)
LEMMA MkvWriteOK ==
  ASSUME NEW m, NEW w, FileOK(m, w, Len(w) - Len(m.cached)), CachedOK(m, w),
         NEW p \in MkvPacket, p.id = Len(w) + 1
  PROVE  LET q == mkv_write_packet(m, p)  v == Append(w, p)
         IN FileOK(q, v, Len(v) - Len(q.cached)) /\ CachedOK(q, v) /\ q.seekhead = m.seekhead
<1> DEFINE c == IF m.cluster_pos # 0 /\ ClusterFull(m, p) THEN EndCluster(m) ELSE m
           r == Released(c)  q == mkv_write_packet(m, p)  v == Append(w, p)  n == Len(w)
<1>1. FileOK(c, w, n - Len(c.cached)) /\ c.cached = m.cached /\ c.seekhead = m.seekhead
  BY EndClusterOK
<1>2. CachedOK(c, w)
  BY <1>1 DEF CachedOK
<1>3. q = IF p.stream = Audio THEN [r EXCEPT !.cached = <<p>>] ELSE mkv_write_packet_internal(r, p)
  BY DEF mkv_write_packet
<1> SUFFICES FileOK(q, v, Len(v) - Len(q.cached)) /\ CachedOK(q, v) /\ q.seekhead = m.seekhead
  OBVIOUS
<1> HIDE DEF c
<1>4. /\ FileOK(r, w, n) /\ r.cached = <<>> /\ r.seekhead = m.seekhead
      /\ (w # <<>> /\ w[n].stream = Audio) => r.cluster_pos # 0
  BY <1>1, <1>2, ReleasedOK
<1> HIDE DEF r, q
<1>5. /\ FileOK(r, v, n) /\ v[n + 1] = p /\ Len(v) = n + 1 /\ \A k \in 1 .. n : v[k] = w[k]
  BY <1>4, AppendOK
<1>6. r \in FileRec /\ n \in Nat /\ v # <<>> /\ n < Len(v) /\ n + 1 - 1 = n /\ n + 1 - 0 = n + 1
  BY <1>4, <1>5 DEF FileOK
<1> HIDE DEF v
<1>7. CASE p.stream = Audio
  <2>1. q = [r EXCEPT !.cached = <<p>>] /\ <<p>> \in Seq(MkvPacket) /\ Len(<<p>>) = 1
    BY <1>3, <1>7
  <2>2. /\ q \in FileRec /\ q.cached = <<p>> /\ q.seekhead = r.seekhead /\ q.clusters = r.clusters
        /\ q.cluster_pos = r.cluster_pos /\ q.cluster_pts = r.cluster_pts /\ q.end = r.end
        /\ q.cues = r.cues /\ q.duration = r.duration
    BY <1>6, <2>1 DEF FileRec
  <2>3. ClustersOK(q)
    BY <1>5, <2>2 DEF FileOK, ClustersOK, AtOf, EndOf, IsOpen
  <2>4. IdsOK(q, n) /\ BlocksOK(q, v) /\ CuesOK(q, v, n) /\ DurationOK(q, v, n)
    BY <1>5, <2>2, SameBlocks, Zenon DEF FileOK
  <2>5. FileOK(q, v, n)
    BY <1>5, <2>2, <2>3, <2>4 DEF FileOK
  <2>6. Len(v) - Len(q.cached) = n
    BY <1>5, <1>6, <2>1, <2>2
  <2>. QED
    BY <1>4, <1>5, <1>6, <1>7, <2>2, <2>5, <2>6 DEF CachedOK
<1>8. CASE p.stream # Audio
  <2>1. q = mkv_write_packet_internal(r, p)
    BY <1>3, <1>8
  <2>2. (IsKeyframe(p) /\ n > 0 /\ v[n].stream = Audio) => r.cluster_pos # 0
    <3>1. n > 0 => n \in 1 .. n /\ w # <<>>
      BY <1>6
    <3>. QED
      BY <1>4, <1>5, <3>1
  <2>3. FileOK(q, v, n + 1) /\ q.cached = r.cached /\ q.seekhead = r.seekhead
    BY <1>5, <1>6, <2>1, <2>2, InternalOK
  <2>4. q.cached = <<>> /\ Len(q.cached) = 0
    BY <1>4, <2>3
  <2>5. Len(v) - Len(q.cached) = n + 1
    BY <1>5, <1>6, <2>4
  <2>. QED
    BY <1>4, <1>5, <1>6, <1>8, <2>3, <2>4, <2>5 DEF CachedOK
<1>. QED
  BY <1>7, <1>8
-----------------------------------------------------------------------------
(* The file that is closed, as the properties read it.                     *)
LEMMA ClosedOK ==
  ASSUME MkvInv, MkvClose
  PROVE  MkvTypeOK' /\ MkvBlocks' /\ MkvCues'
<1> DEFINE w == written  n == Len(written)  r == Released(mkv)
           e == IF r.cluster_pos # 0 THEN EndCluster(r) ELSE r
           c == mkv_write_cues(e)
<1>1. /\ mkvOpen /\ mkvOpen' = FALSE /\ mkv' = mkv_close(mkv) /\ written' = w
      /\ CachedOK(mkv, w) /\ FileOK(mkv, w, Len(w) - Len(mkv.cached)) /\ mkv.seekhead = {}
  BY DEF MkvClose, MkvInv
<1>2. FileOK(r, w, n) /\ r.cached = <<>> /\ r.seekhead = {}
  BY <1>1, ReleasedOK
<1>3. mkv' = [c EXCEPT !.segment = c.end - SegmentAt, !.duration_written = c.duration]
  BY <1>1, Zenon DEF mkv_close
<1> HIDE DEF r
<1>4. FileOK(e, w, n) /\ e.cached = <<>> /\ e.seekhead = {} /\ e.cluster_pos = 0
  BY <1>2, EndClusterOK
<1> HIDE DEF e
<1>5. /\ e \in FileRec /\ ClustersOK(e) /\ IdsOK(e, n) /\ BlocksOK(e, w) /\ CuesOK(e, w, n)
      /\ DurationOK(e, w, n)
  BY <1>4 DEF FileOK
<1>6. e.end \in Nat /\ e.cues \in Seq(CueRec) /\ e.clusters \in Seq(ClusterRec) /\ e.duration \in Nat
  BY <1>5 DEF FileRec
<1> DEFINE k == Len(e.cues)
           heads == IF e.cues = <<>> THEN {} ELSE {[element |-> "cues", pos |-> e.end - SegmentAt]}
           end == IF e.cues = <<>> THEN e.end ELSE e.end + MasterHead + CuePoint * k
<1>7. end \in Nat /\ end - SegmentAt \in Int /\ e.end - SegmentAt \in Int
  BY <1>6, SMTT(30) DEF MasterHead, CuePoint
<1>8. /\ c.end = end /\ c.seekhead = heads /\ c.clusters = e.clusters /\ c.cues = e.cues /\ c.cached = <<>>
      /\ c.cluster_pos = 0 /\ c.duration = e.duration /\ c \in FileRec
  <2>1. CASE e.cues = <<>>
    BY <1>4, <1>5, <2>1 DEF mkv_write_cues
  <2>2. CASE e.cues # <<>>
    <3> DEFINE h == {[element |-> "cues", pos |-> e.end - SegmentAt]}
    <3>1. h \in SUBSET [element : {"cues"}, pos : Int]
      BY <1>7
    <3>2. c = [e EXCEPT !.seekhead = h, !.end = end]
      BY <1>4, <2>2 DEF mkv_write_cues
    <3>3. heads = h
      BY <2>2
    <3> HIDE DEF c, h, end
    <3>. QED
      BY <1>4, <1>5, <1>7, <3>1, <3>2, <3>3 DEF FileRec
  <2>. QED
    BY <2>1, <2>2
<1> HIDE DEF c, end, heads
<1>9. /\ mkv'.end = end /\ mkv'.seekhead = heads /\ mkv'.clusters = e.clusters /\ mkv'.cues = e.cues
      /\ mkv'.cluster_pos = 0 /\ mkv'.duration_written = e.duration /\ mkv'.duration = e.duration
      /\ mkv'.segment = end - SegmentAt /\ mkv'.cached = <<>>
  BY <1>3, <1>8 DEF FileRec
<1>10. MkvTypeOK'
  <2>1. Len(mkv'.cached) = 0
    BY <1>9
  <2>2. mkv'.end \in Nat /\ mkv'.cluster_pos \in Nat /\ mkv'.duration \in Nat
    BY <1>6, <1>7, <1>9
  <2>3. mkvOpen' \in BOOLEAN
    BY <1>1, Zenon
  <2>4. Len(mkv'.cached) <= 1
    BY <2>1
  <2>. QED
    BY <2>2, <2>3, <2>4, Zenon DEF MkvTypeOK
<1>11. CuesAt' = e.end
  <2>1. CuesAt' = IF e.cues = <<>> THEN end ELSE end - (MasterHead + CuePoint * k)
    BY <1>9, Zenon DEF CuesAt
  <2>2. end = IF e.cues = <<>> THEN e.end ELSE e.end + MasterHead + CuePoint * k
    BY DEF end
  <2>3. k \in Nat
    BY <1>6
  <2> HIDE DEF k
  <2>. QED
    BY <1>6, <2>1, <2>2, <2>3 DEF MasterHead, CuePoint
<1>12. Clusters' = 1 .. Len(e.clusters)
  BY <1>9 DEF Clusters
<1>13. Tiled'
  <2>1. ASSUME NEW d PROVE ClusterAt(d)' = AtOf(e, d, e.end)
    BY <1>9, <1>11, <1>12 DEF ClusterAt, AtOf
  <2>2. ASSUME NEW d PROVE ClusterEnd(d)' = EndOf(e, d)
    BY <1>9 DEF ClusterEnd, EndOf
  <2>3. \A d \in 1 .. Len(e.clusters) : EndOf(e, d) = AtOf(e, d + 1, e.end)
    BY <1>4, <1>5 DEF ClustersOK, IsOpen
  <2>4. ClusterAt(1)' = HeaderEnd
    BY <1>5, <2>1 DEF ClustersOK
  <2>5. SegmentAt + mkv'.segment = mkv'.end
    BY <1>7, <1>9
  <2>6. \A d \in Clusters' : ClusterEnd(d)' = ClusterAt(d + 1)'
    BY <1>12, <2>1, <2>2, <2>3
  <2>. QED
    BY <2>4, <2>5, <2>6 DEF Tiled
<1>14. InOrder'
  <2>1. ASSUME NEW d PROVE FirstBlock(d)' = FirstOf(e, n, d)
    BY <1>1, <1>9, <1>12 DEF FirstBlock, FirstOf
  <2>2. FirstBlock(1)' = 1
    BY <1>5, <2>1 DEF IdsOK
  <2>3. ASSUME NEW d \in 1 .. Len(e.clusters)
        PROVE  LET blocks == e.clusters[d].blocks
               IN /\ blocks # <<>> /\ FirstBlock(d)' + Len(blocks) = FirstBlock(d + 1)'
                  /\ \A j \in 1 .. Len(blocks) : blocks[j].id = FirstBlock(d)' + j - 1
    <3>1. LET blocks == e.clusters[d].blocks
          IN /\ Len(blocks) > 0 /\ FirstOf(e, n, d) + Len(blocks) = FirstOf(e, n, d + 1)
             /\ \A j \in 1 .. Len(blocks) : blocks[j].id = FirstOf(e, n, d) + j - 1
      BY <1>5 DEF IdsOK
    <3>. QED
      BY <2>1, <3>1
  <2>. QED
    BY <1>9, <1>12, <2>2, <2>3 DEF InOrder
<1>15. MkvBlocks'
  <2>1. ASSUME NEW d \in 1 .. Len(e.clusters), NEW b \in ToSet(e.clusters[d].blocks)
        PROVE  /\ b.stream = w[b.id].stream
               /\ InReach(Ts(w[b.id]), e.clusters[d].timecode) =>
                    e.clusters[d].timecode + Signed(b.time) = Ts(w[b.id])
    <3>1. PICK j \in 1 .. Len(e.clusters[d].blocks) : b = e.clusters[d].blocks[j]
      <4>1. e.clusters[d] \in ClusterRec
        BY <1>6
      <4>2. e.clusters[d].blocks \in Seq(BlockRec)
        BY <4>1 DEF ClusterRec
      <4>. QED
        BY <2>1, <4>2 DEF ToSet
    <3>2. BlockOK(e, w, d, b)
      BY <1>5, <3>1 DEF BlocksOK
    <3>. QED
      BY <3>2 DEF BlockOK
  <2>2. \A j \in 1 .. n : Ts(w[j]) + w[j].duration <= e.duration
    BY <1>5 DEF DurationOK
  <2>3. \A d \in Clusters' : \A b \in ToSet(mkv'.clusters[d].blocks) :
          /\ b.stream = written'[b.id].stream
          /\ InReach(Ts(written'[b.id]), mkv'.clusters[d].timecode) =>
               mkv'.clusters[d].timecode + Signed(b.time) = Ts(written'[b.id])
    BY <1>1, <1>9, <1>12, <2>1
  <2>4. \A j \in 1 .. Len(written') : Ts(written'[j]) + written'[j].duration <= mkv'.duration_written
    BY <1>1, <1>9, <2>2
  <2>. QED
    BY <1>13, <1>14, <2>3, <2>4 DEF MkvBlocks
<1>16. MkvCues'
  <2>1. ASSUME NEW j PROVE KeyframesTo(j)' = KeysTo(w, j)
    BY <1>1 DEF KeyframesTo, KeysTo
  <2>2. ASSUME NEW d \in 1 .. Len(e.clusters), NEW id
        PROVE  Holds(e, d, id) => HasBlock(e.clusters[d], id)
    <3>1. e.clusters[d] \in ClusterRec
      BY <1>6
    <3>2. e.clusters[d].blocks \in Seq(BlockRec)
      BY <3>1 DEF ClusterRec
    <3>. QED
      BY <3>2 DEF Holds, HasBlock, ToSet
  <2>3. ASSUME NEW j, NEW cue, CueOK(e, w, j, cue) PROVE CueLeadsTo(j, cue)'
    <3>1. cue.pts = Ts(w[j])
      BY <2>3 DEF CueOK
    <3>2. PICK d \in 1 .. Len(e.clusters) :
            /\ e.clusters[d].at = SegmentAt + cue.cluster_pos /\ Holds(e, d, j)
            /\ (j > 1 /\ w[j - 1].stream = Audio) => Holds(e, d, j - 1)
      BY <2>3 DEF CueOK
    <3>3. HasBlock(e.clusters[d], j) /\ ((j > 1 /\ w[j - 1].stream = Audio) => HasBlock(e.clusters[d], j - 1))
      BY <2>2, <3>2
    <3>. QED
      BY <1>1, <1>9, <1>12, <3>1, <3>2, <3>3 DEF CueLeadsTo
  <2>4. Len(e.cues) = Cardinality(KeyframesTo(Len(written))')
    BY <1>1, <1>5, <2>1 DEF CuesOK
  <2>5. \A j \in KeyframesTo(Len(written))' : CueLeadsTo(j, mkv.cues[Cardinality(KeyframesTo(j))])'
    BY <1>1, <1>5, <1>9, <2>1, <2>3 DEF CuesOK
  <2>6. heads = IF e.cues = <<>> THEN {} ELSE {[element |-> "cues", pos |-> CuesAt' - SegmentAt]}
    BY <1>11 DEF heads
  <2>. QED
    BY <1>9, <2>4, <2>5, <2>6 DEF MkvCues
<1>. QED
  BY <1>10, <1>15, <1>16

(* Stamps that grow by steps are natural.                                  *)
LEMMA NextStampsTyped ==
  ASSUME NEW s, Stamps(s) \subseteq Nat, Steps \subseteq Nat
  PROVE  NextStamps(s) \subseteq Nat
<1> SUFFICES ASSUME NEW t \in NextStamps(s) PROVE t \in Nat
  OBVIOUS
<1>1. t \in {u + step : u \in Stamps(s), step \in Steps}
  BY DEF NextStamps
<1>2. PICK u \in Stamps(s), step \in Steps : t = u + step
  BY <1>1
<1>3. u \in Nat /\ step \in Nat
  OBVIOUS
<1>. QED
  BY <1>2, <1>3

(* What the encoders hand over are packets.                                *)
LEMMA MkvPacketsTyped == ASSUME NEW p \in MkvPackets, written \in Seq(MkvPacket) PROVE p \in MkvPacket /\ p.id = Len(written) + 1
<1>1. Len(written) + 1 \in Nat
  OBVIOUS
<1>2. ASSUME NEW s \in Streams PROVE NextStamps(s) \subseteq Nat
  <2>1. Stamps(s) \subseteq Nat
    <3>1. ASSUME NEW k \in 1 .. Len(written) PROVE written[k].pts \in Nat
      <4>1. written[k] \in MkvPacket
        OBVIOUS
      <4>. QED
        BY <4>1 DEF MkvPacket
    <3>. QED
      BY <3>1 DEF Stamps
  <2>2. Steps \subseteq Nat
    BY DEF MkvAssumption
  <2>. QED
    BY <2>1, <2>2, NextStampsTyped
<1>3. Video \in Streams /\ Audio \in Streams /\ BlockSizes \subseteq Nat /\ {0} \subseteq Nat /\ {1} \subseteq Nat
  BY DEF Streams
<1>4. NextStamps(Video) \subseteq Nat /\ NextStamps(Audio) \subseteq Nat
  BY <1>2, <1>3
<1>5. CASE p \in [id : {Len(written) + 1}, stream : {Video}, size : BlockSizes, key : BOOLEAN,
                  pts : NextStamps(Video), duration : {0}]
  BY <1>1, <1>3, <1>4, <1>5 DEF MkvPacket
<1>6. CASE p \in [id : {Len(written) + 1}, stream : {Audio}, size : BlockSizes, key : {TRUE},
                  pts : NextStamps(Audio), duration : {1}]
  BY <1>1, <1>3, <1>4, <1>6 DEF MkvPacket
<1>. QED
  BY <1>5, <1>6 DEF MkvPackets

(* While the file is open it holds the packets written except the one kept *)
(* back, in clusters without gaps, with a cue for every keyframe;          *)
(* mkv_close leaves what MkvBlocks and MkvCues say (matroska.c).           *)
THEOREM MkvInvariant == MkvSpec => []MkvInv
<1>1. MkvInit => MkvInv
  <2> SUFFICES ASSUME MkvInit PROVE MkvInv
    OBVIOUS
  <2>1. mkvOpen = TRUE /\ written = <<>> /\ mkv.seekhead = {} /\ mkv.cached = <<>> /\ mkv.cluster_pos = 0
        /\ mkv.clusters = <<>> /\ mkv.end = HeaderEnd /\ mkv.cues = <<>>
    BY DEF MkvInit
  <2>2. mkv \in FileRec
    <3>1. <<>> \in Seq(ClusterRec) /\ <<>> \in Seq(MkvPacket) /\ <<>> \in Seq(CueRec) /\ Open \in Int /\ 0 \in Nat
      BY DEF Open
    <3>. QED
      BY <3>1 DEF MkvInit, FileRec
  <2>3. ClustersOK(mkv)
    BY <2>1 DEF ClustersOK, AtOf
  <2>4. IdsOK(mkv, 0)
    BY <2>1 DEF IdsOK, FirstOf
  <2>5. BlocksOK(mkv, written) /\ DurationOK(mkv, written, 0)
    BY <2>1 DEF BlocksOK, DurationOK
  <2>6. CuesOK(mkv, written, 0)
    <3>1. KeysTo(written, 0) = {} /\ Cardinality({}) = 0
      BY FS_EmptySet DEF KeysTo
    <3>. QED
      BY <2>1, <3>1 DEF CuesOK
  <2>7. <<>> \in Seq(MkvPacket) /\ Len(written) - Len(mkv.cached) = 0 /\ 0 \in 0 .. Len(written)
    BY <2>1
  <2>8. FileOK(mkv, written, 0)
    BY <2>1, <2>2, <2>3, <2>4, <2>5, <2>6, <2>7 DEF FileOK
  <2>. QED
    BY <2>1, <2>7, <2>8 DEF MkvInv, CachedOK
<1>2. MkvInv /\ [MkvNext]_mkvVars => MkvInv'
  <2> SUFFICES ASSUME MkvInv, [MkvNext]_mkvVars PROVE MkvInv'
    OBVIOUS
  <2>1. CASE MkvWrite
    <3>1. PICK p \in MkvPackets : mkv' = mkv_write_packet(mkv, p) /\ written' = Append(written, p)
      BY <2>1 DEF MkvWrite
    <3>2. /\ mkvOpen /\ mkvOpen' = mkvOpen /\ mkv.seekhead = {}
          /\ CachedOK(mkv, written) /\ FileOK(mkv, written, Len(written) - Len(mkv.cached))
      BY <2>1 DEF MkvWrite, MkvInv
    <3>3. p \in MkvPacket /\ p.id = Len(written) + 1
      BY <3>2, MkvPacketsTyped DEF FileOK
    <3>4. /\ CachedOK(mkv', written') /\ FileOK(mkv', written', Len(written') - Len(mkv'.cached))
          /\ mkv'.seekhead = {}
      BY <3>1, <3>2, <3>3, MkvWriteOK
    <3>. QED
      BY <3>2, <3>4 DEF MkvInv
  <2>2. CASE MkvClose
    BY <2>2, ClosedOK DEF MkvInv, MkvClose
  <2>3. CASE UNCHANGED mkvVars
    <3>1. mkv' = mkv /\ written' = written /\ mkvOpen' = mkvOpen
      BY <2>3 DEF mkvVars
    <3>2. MkvTypeOK => MkvTypeOK'
      BY <3>1 DEF MkvTypeOK
    <3>3. Clusters' = Clusters /\ CuesAt' = CuesAt
      BY <3>1 DEF Clusters, CuesAt
    <3>4. Tiled' = Tiled
      BY <3>1, <3>3, Zenon DEF Tiled, ClusterAt, ClusterEnd
    <3>5. InOrder' = InOrder
      BY <3>1, <3>3, Zenon DEF InOrder, FirstBlock
    <3>6. MkvBlocks => MkvBlocks'
      BY <3>1, <3>3, <3>4, <3>5, Zenon DEF MkvBlocks
    <3>7. MkvCues => MkvCues'
      BY <3>1, <3>3, ZenonT(60) DEF MkvCues, KeyframesTo, CueLeadsTo
    <3>. QED
      BY <3>1, <3>2, <3>6, <3>7 DEF MkvInv
  <2>. QED
    BY <2>1, <2>2, <2>3 DEF MkvNext
<1>. QED
  BY <1>1, <1>2, PTL DEF MkvSpec

(* The invariant implies the properties of the runs.                       *)
LEMMA MkvInvImplies == MkvInv => MkvTypeOK /\ MkvBlocks /\ MkvCues
<1>1. ASSUME MkvInv, mkvOpen PROVE MkvTypeOK
  <2>1. mkv \in FileRec /\ CachedOK(mkv, written)
    BY <1>1 DEF MkvInv, FileOK
  <2>2. mkv.end \in Nat /\ mkv.cluster_pos \in Nat /\ mkv.duration \in Nat /\ mkvOpen \in BOOLEAN
    BY <1>1, <2>1 DEF FileRec, MkvInv
  <2>3. Len(mkv.cached) <= 1
    <3>1. CASE mkv.cached = <<>>
      BY <3>1
    <3>2. CASE mkv.cached = <<written[Len(written)]>>
      BY <3>2
    <3>. QED
      BY <2>1, <3>1, <3>2, Zenon DEF CachedOK
  <2>. QED
    BY <2>2, <2>3 DEF MkvTypeOK
<1>. QED
  BY <1>1 DEF MkvInv, MkvBlocks, MkvCues

(* The offsets and times of the Matroska writer stay natural numbers, and  *)
(* it keeps back one packet at most.                                       *)
THEOREM MkvTypeCorrect == MkvSpec => []MkvTypeOK
  BY MkvInvariant, MkvInvImplies, PTL

(* A player finds in a closed file all packets, in the order of the calls, *)
(* each with its stream and, as far as 16 bits reach, with its time, for   *)
(* any number of packets of any size.                                      *)
THEOREM MkvReadBack == MkvSpec => []MkvBlocks
  BY MkvInvariant, MkvInvImplies, PTL

(* A closed file has one cue for every video keyframe, with its time and   *)
(* the cluster that holds it and the sound packet before it, for any       *)
(* number of packets.                                                      *)
THEOREM MkvSeeks == MkvSpec => []MkvCues
  BY MkvInvariant, MkvInvImplies, PTL
-----------------------------------------------------------------------------
(***************************************************************************)
(* Types.  The index is that of a stamp collected, once there is one.      *)
(***************************************************************************)
StampTypes ==
  /\ delayed_frames \in 0 .. MaxDelayed
  /\ index_of_df \in -1 .. delayed_frames - 1
  /\ delayed_pts \in [0 .. MaxDelayed - 1 -> 0 .. MaxFrames]
  /\ frames \in 0 .. MaxFrames /\ lost \in 0 .. frames

FlagTypes ==
  /\ flush_delayed_frames \in BOOLEAN /\ flush_done \in BOOLEAN
  /\ capturing \in {"yes", "ending", "no"} /\ finished \in BOOLEAN

Packet == [frame : Nat, stamp : Nat]

QueueTypes == delay \in Nat /\ held \in Seq(Nat) /\ stamped \in Seq(Packet)

Typed == StampTypes /\ FlagTypes /\ QueueTypes

LEMMA TypedIs == Typed => LavcTypeOK
  BY LavcAssumption DEF Typed, StampTypes, FlagTypes, LavcTypeOK

(* What the encoder holds after it is given a frame, and whether it gives  *)
(* a packet.                                                               *)
Given(f, flushing) == IF flushing THEN held ELSE Append(held, f)
Out(f, flushing) == IF flushing THEN held # <<>> ELSE Len(Append(held, f)) > delay

NewStamp(f) == IF Holding THEN delayed_pts[Oldest] ELSE f

LEMMA Encodes ==
  ASSUME NEW f, NEW flushing \in BOOLEAN, encode_lavc_frame(f, flushing)
  PROVE  /\ flush_done' = (flush_done \/ (flushing /\ ~Out(f, flushing)))
         /\ Out(f, flushing) =>
              /\ held' = Tail(Given(f, flushing))
              /\ stamped' = Append(stamped, [frame |-> Head(Given(f, flushing)), stamp |-> NewStamp(f)])
         /\ ~Out(f, flushing) => held' = Given(f, flushing) /\ stamped' = stamped
         /\ \/ ~Out(f, flushing) /\ index_of_df < 0 /\ Collect(f, flushing)
            \/ (Out(f, flushing) \/ index_of_df >= 0) /\ Holding /\ Exchange(f, flushing)
            \/ /\ (Out(f, flushing) \/ index_of_df >= 0) /\ ~Holding
               /\ flush_delayed_frames' = flushing
               /\ UNCHANGED <<delayed_pts, delayed_frames, index_of_df>>
  BY DEF encode_lavc_frame, Given, Out, NewStamp

LEMMA OldestIn ==
  ASSUME StampTypes
  PROVE  /\ Oldest \in Nat /\ Oldest <= delayed_frames
         /\ Holding => Oldest < delayed_frames /\ Oldest \in 0 .. MaxDelayed - 1
  BY LavcAssumption DEF StampTypes, Oldest, Holding

LEMMA TypedInit == LavcInit => Typed
<1> SUFFICES ASSUME LavcInit PROVE Typed
  OBVIOUS
<1>1. <<>> \in Seq(Nat) /\ <<>> \in Seq(Packet)
  OBVIOUS
<1>2. StampTypes
  BY LavcAssumption DEF LavcInit, StampTypes
<1>3. FlagTypes
  BY DEF LavcInit, FlagTypes
<1>4. QueueTypes
  BY <1>1, LavcAssumption DEF LavcInit, QueueTypes
<1> QED
  BY <1>2, <1>3, <1>4 DEF Typed

LEMMA EncodeTyped ==
  ASSUME Typed, NEW f \in 0 .. MaxFrames, NEW flushing \in BOOLEAN, encode_lavc_frame(f, flushing)
  PROVE  /\ delayed_frames' \in 0 .. MaxDelayed /\ index_of_df' \in -1 .. delayed_frames' - 1
         /\ delayed_pts' \in [0 .. MaxDelayed - 1 -> 0 .. MaxFrames]
         /\ flush_delayed_frames' \in BOOLEAN /\ flush_done' \in BOOLEAN
         /\ held' \in Seq(Nat) /\ stamped' \in Seq(Packet)
<1>1. Oldest \in Nat /\ (Holding => Oldest < delayed_frames /\ Oldest \in 0 .. MaxDelayed - 1)
  BY OldestIn DEF Typed
<1>2. f \in Nat /\ MaxDelayed \in Nat
  BY LavcAssumption
<1>3. flush_done' \in BOOLEAN
  <2>1. flush_done' = (flush_done \/ (flushing /\ ~Out(f, flushing)))
    BY Encodes
  <2> QED
    BY <2>1, Zenon
<1>4. /\ delayed_frames' \in 0 .. MaxDelayed /\ index_of_df' \in -1 .. delayed_frames' - 1
      /\ delayed_pts' \in [0 .. MaxDelayed - 1 -> 0 .. MaxFrames]
  <2>1. CASE index_of_df < 0 /\ Collect(f, flushing)
    BY <2>1, <1>2, SMTT(30) DEF Collect, Typed, StampTypes
  <2>2. CASE Holding /\ Exchange(f, flushing)
    BY <2>2, <1>1, <1>2 DEF Exchange, Advance, Holding, Typed, StampTypes
  <2>3. CASE UNCHANGED <<delayed_pts, delayed_frames, index_of_df>>
    BY <2>3 DEF Typed, StampTypes
  <2> QED
    BY <2>1, <2>2, <2>3, Encodes
<1>5. flush_delayed_frames' \in BOOLEAN
  BY Encodes DEF Collect, Exchange
<1>6. Given(f, flushing) \in Seq(Nat) /\ (Out(f, flushing) => Given(f, flushing) # <<>>)
  BY <1>2, SMTT(30) DEF Given, Out, Typed, QueueTypes
<1>7. NewStamp(f) \in Nat
  BY <1>1, <1>2, LavcAssumption DEF NewStamp, Typed, StampTypes
<1>8. held' \in Seq(Nat) /\ stamped' \in Seq(Packet)
  <2>1. CASE Out(f, flushing)
    <3>1. Head(Given(f, flushing)) \in Nat /\ Tail(Given(f, flushing)) \in Seq(Nat)
      BY <2>1, <1>6, HeadTailProperties
    <3>2. [frame |-> Head(Given(f, flushing)), stamp |-> NewStamp(f)] \in Packet
      BY <3>1, <1>7 DEF Packet
    <3> DEFINE p == [frame |-> Head(Given(f, flushing)), stamp |-> NewStamp(f)]
    <3>3. held' = Tail(Given(f, flushing)) /\ stamped' = Append(stamped, p)
      BY <2>1, Encodes
    <3> HIDE DEF p
    <3>4. stamped \in Seq(Packet) /\ p \in Packet
      BY <3>2 DEF p, Typed, QueueTypes
    <3>5. Append(stamped, p) \in Seq(Packet)
      BY <3>4
    <3> QED
      BY <3>1, <3>3, <3>5
  <2>2. CASE ~Out(f, flushing)
    BY <2>2, <1>6, Encodes DEF Typed, QueueTypes
  <2> QED
    BY <2>1, <2>2
<1> QED
  BY <1>3, <1>4, <1>5, <1>8

LEMMA TypedStep == Typed /\ [LavcNext]_lavcVars => Typed'
<1> SUFFICES ASSUME Typed, [LavcNext]_lavcVars PROVE Typed'
  OBVIOUS
<1>1. CASE EncodeFrame
  <2>1. frames + 1 \in 0 .. MaxFrames /\ flush_delayed_frames \in BOOLEAN
        /\ encode_lavc_frame(frames + 1, flush_delayed_frames)
    BY <1>1, LavcAssumption DEF EncodeFrame, Typed, StampTypes, FlagTypes
  <2>2. /\ frames' = frames + 1 /\ UNCHANGED <<delay, finished>>
        /\ capturing' \in {"yes", "ending", "no"} /\ lost' \in 0 .. frames'
    BY <1>1, <2>1 DEF EncodeFrame, Typed, StampTypes, FlagTypes
  <2> QED
    BY <2>1, <2>2, EncodeTyped DEF Typed, StampTypes, FlagTypes, QueueTypes
<1>2. CASE CaptureEnds
  BY <1>2 DEF CaptureEnds, Typed, StampTypes, FlagTypes, QueueTypes
<1>3. CASE FlushFrame
  <2>1. encode_lavc_frame(frames, TRUE) /\ frames \in 0 .. MaxFrames
    BY <1>3 DEF FlushFrame, Typed, StampTypes
  <2>2. finished' = flush_done' /\ UNCHANGED <<delay, frames, capturing, lost>>
    BY <1>3 DEF FlushFrame
  <2> QED
    BY <2>1, <2>2, EncodeTyped DEF Typed, StampTypes, FlagTypes, QueueTypes
<1>4. CASE UNCHANGED lavcVars
  BY <1>4 DEF lavcVars, Typed, StampTypes, FlagTypes, QueueTypes
<1> QED
  BY <1>1, <1>2, <1>3, <1>4 DEF LavcNext

LEMMA TypedInvariance == LavcSpec => []Typed
<1>1. LavcInit => Typed
  BY TypedInit
<1>2. Typed /\ [LavcNext]_lavcVars => Typed'
  BY TypedStep
<1> QED
  BY <1>1, <1>2, PTL DEF LavcSpec

(* No stamp is written or read outside delayed_pts, whatever the encoder   *)
(* holds back, save the one that Collect writes over the flags.            *)
THEOREM StampsInArray == LavcSpec => []LavcTypeOK
<1>1. Typed => LavcTypeOK
  BY TypedIs
<1> QED
  BY <1>1, TypedInvariance, PTL

-----------------------------------------------------------------------------
(***************************************************************************)
(* The order of the stamps.  The encoder holds the frames that have no     *)
(* packet yet, in order, and delayed_pts has a stamp for each of them: the *)
(* oldest one at Oldest, the others behind it, going round at the end of   *)
(* the array.  Until the flush begins there are as many stamps as frames   *)
(* held; a call in the flush writes its stamp over one used up, be it that *)
(* of the last frame, passed again, or of the frame that is lost.          *)
(***************************************************************************)
n == Len(stamped)

(* The frames the encoder was given.                                       *)
Kept == frames - lost

(* How far the stamp at k is from the oldest one, going round.             *)
Distance(k) == IF k >= Oldest THEN k - Oldest ELSE delayed_frames - Oldest + k

HeldInv ==
  /\ n <= Kept /\ Len(held) = Kept - n
  /\ \A i \in 1 .. Len(held) : held[i] = n + i

StampInv ==
  /\ Kept - n <= delayed_frames
  /\ \A k \in 0 .. delayed_frames - 1 :
       n + 1 + Distance(k) <= Kept => delayed_pts[k] = n + 1 + Distance(k)

(* No packet comes until the encoder holds as many as it holds back.       *)
CaptureInv ==
  ~flush_delayed_frames =>
    \/ frames <= delay /\ n = 0 /\ delayed_frames = frames /\ index_of_df = -1
    \/ /\ frames >= delay + 1 /\ n = frames - delay /\ delayed_frames = delay
       /\ delay = 0 \/ index_of_df >= 0

Stamped == \A k \in 1 .. n : stamped[k].frame = k /\ stamped[k].stamp = k

(* What the calls keep: the stamps are right and, as long as the flush is  *)
(* not done, the queue is in order; then the encoder is empty.             *)
CallInv ==
  /\ Stamped
  /\ flush_done => n = Kept /\ held = <<>> /\ flush_delayed_frames
  /\ ~flush_done => HeldInv /\ StampInv /\ CaptureInv

(* The flush begins when the capture has ended, and at most one frame is   *)
(* passed after that.                                                      *)
LossInv ==
  /\ capturing = "yes" => ~flush_delayed_frames
  /\ ~flush_delayed_frames \/ capturing # "no" => lost = 0
  /\ lost <= 1
  /\ finished => flush_done

QueueInv == delay <= MaxDelayed => CallInv /\ LossInv

LEMMA Numbers ==
  ASSUME Typed
  PROVE  /\ n \in Nat /\ frames \in Nat /\ lost \in Nat /\ Kept \in Nat /\ Kept = frames - lost
         /\ delay \in Nat /\ delayed_frames \in Nat /\ Len(held) \in Nat
         /\ MaxDelayed \in Nat /\ delayed_frames <= MaxDelayed
         /\ index_of_df \in Int /\ -1 <= index_of_df /\ index_of_df < delayed_frames
  BY LavcAssumption, LenProperties DEF Typed, StampTypes, QueueTypes, n, Kept

(* The stamp of a packet is that of the first frame held, and the others   *)
(* come one place nearer when a stamp that is younger takes its place.     *)
LEMMA OldestStamp ==
  ASSUME Typed, StampInv, Holding, n < Kept
  PROVE  delayed_pts[Oldest] = n + 1
<1>1. Oldest \in Nat /\ Oldest < delayed_frames
  BY OldestIn DEF Typed
<1>2. Distance(Oldest) = 0
  BY <1>1 DEF Distance
<1>3. n \in Nat /\ Kept \in Nat /\ delayed_frames \in Nat
  BY Numbers
<1>4. Oldest \in 0 .. delayed_frames - 1 /\ n + 1 + 0 <= Kept
  BY <1>1, <1>3
<1> QED
  BY <1>2, <1>3, <1>4 DEF StampInv

LEMMA DistanceAfter ==
  ASSUME Typed, Holding, NEW f, NEW flushing, Exchange(f, flushing), NEW k \in 0 .. delayed_frames - 1
  PROVE  /\ k # Oldest => Distance(k)' = Distance(k) - 1 /\ Distance(k) \in Nat \ {0}
         /\ k = Oldest => Distance(k)' = delayed_frames - 1
         /\ Distance(k)' \in 0 .. delayed_frames - 1 /\ Distance(k) \in 0 .. delayed_frames - 1
<1>1. Oldest \in Nat /\ Oldest < delayed_frames /\ delayed_frames \in Nat /\ k \in Nat /\ k < delayed_frames
  BY OldestIn, Numbers DEF Typed
<1>2. index_of_df' = Advance(Oldest) /\ delayed_frames' = delayed_frames
  BY DEF Exchange
<1>3. Oldest' = IF Oldest + 1 >= delayed_frames THEN 0 ELSE Oldest + 1
  <2>1. index_of_df' >= 0 /\ index_of_df' = IF Oldest + 1 >= delayed_frames THEN 0 ELSE Oldest + 1
    BY <1>1, <1>2 DEF Advance
  <2>2. Oldest' = IF index_of_df' < 0 THEN 0 ELSE index_of_df'
    BY DEF Oldest
  <2>3. index_of_df' \in Nat
    BY <1>1, <2>1
  <2> QED
    BY <2>1, <2>2, <2>3
<1>4. Distance(k)' = IF k >= Oldest' THEN k - Oldest' ELSE delayed_frames - Oldest' + k
  BY <1>2 DEF Distance
<1> DEFINE o == Oldest
           d == Distance(k)
<1>5. d = IF k >= o THEN k - o ELSE delayed_frames - o + k
  BY DEF Distance
<1> HIDE DEF o, d
<1>6. /\ o \in Nat /\ o < delayed_frames
      /\ Distance(k)' = IF o + 1 >= delayed_frames THEN k
                        ELSE IF k >= o + 1 THEN k - (o + 1) ELSE delayed_frames - (o + 1) + k
  BY <1>1, <1>3, <1>4 DEF o
<1> QED
  <2>1. k # o => Distance(k)' = d - 1 /\ d \in Nat \ {0}
    BY <1>1, <1>5, <1>6
  <2>2. k = o => Distance(k)' = delayed_frames - 1
    BY <1>1, <1>6
  <2>3. Distance(k)' \in 0 .. delayed_frames - 1 /\ d \in 0 .. delayed_frames - 1
    BY <1>1, <1>5, <1>6
  <2> QED
    BY <2>1, <2>2, <2>3 DEF o, d

LEMMA ExchangeKeeps ==
  ASSUME Typed, StampInv, Holding, NEW f, NEW flushing, Exchange(f, flushing), n' = n + 1,
         \/ Kept' = Kept
         \/ Kept' = Kept + 1 /\ f = Kept + 1 /\ Kept - n = delayed_frames
  PROVE  StampInv'
<1>1. /\ n \in Nat /\ Kept \in Nat /\ delayed_frames \in Nat /\ delayed_frames <= MaxDelayed
      /\ MaxDelayed \in Nat /\ Oldest \in Nat /\ Oldest < delayed_frames
  BY Numbers, OldestIn DEF Typed
<1>2. /\ delayed_frames' = delayed_frames
      /\ delayed_pts' = [delayed_pts EXCEPT ![Oldest] = f]
      /\ DOMAIN delayed_pts = 0 .. MaxDelayed - 1
  BY DEF Exchange, Typed, StampTypes
<1> DEFINE a == Kept
           b == Kept'
<1>3. /\ a \in Nat /\ a - n <= delayed_frames
      /\ b = a \/ (b = a + 1 /\ f = a + 1 /\ a - n = delayed_frames)
  BY <1>1 DEF StampInv
<1>4. \A k \in 0 .. delayed_frames - 1 : n + 1 + Distance(k) <= a => delayed_pts[k] = n + 1 + Distance(k)
  BY DEF StampInv
<1>5. ASSUME b - n' <= delayed_frames',
             \A k \in 0 .. delayed_frames - 1 :
               n' + 1 + Distance(k)' <= b => delayed_pts'[k] = n' + 1 + Distance(k)'
      PROVE  StampInv'
  BY <1>2, <1>5 DEF StampInv
<1> HIDE DEF a, b
<1>6. b - n' <= delayed_frames'
  BY <1>1, <1>2, <1>3
<1>7. ASSUME NEW k \in 0 .. delayed_frames - 1, n' + 1 + Distance(k)' <= b
      PROVE  delayed_pts'[k] = n' + 1 + Distance(k)'
  <2> DEFINE d == Distance(k)
             e == Distance(k)'
  <2>1. /\ k # Oldest => e = d - 1 /\ d \in Nat \ {0}
        /\ k = Oldest => e = delayed_frames - 1
        /\ e \in 0 .. delayed_frames - 1 /\ d \in 0 .. delayed_frames - 1
    BY DistanceAfter
  <2>2. n + 1 + d <= a => delayed_pts[k] = n + 1 + d
    BY <1>4
  <2>3. n' + 1 + e <= b
    BY <1>7
  <2> HIDE DEF d, e
  <2>4. CASE k = Oldest
    <3>1. f = n' + 1 + e
      BY <1>1, <1>3, <2>1, <2>3, <2>4
    <3> QED
      BY <1>1, <1>2, <2>4, <3>1 DEF e
  <2>5. CASE k # Oldest
    <3>1. n + 1 + d <= a /\ n' + 1 + e = n + 1 + d
      BY <1>1, <1>3, <2>1, <2>3, <2>5
    <3>2. delayed_pts'[k] = delayed_pts[k]
      BY <1>1, <1>2, <2>5
    <3> QED
      BY <2>2, <3>1, <3>2 DEF e
  <2> QED
    BY <2>4, <2>5
<1> QED
  BY <1>5, <1>6, <1>7

(* Numbers that follow each other still do with the next one.              *)
LEMMA NextHeld ==
  ASSUME NEW t \in Seq(Nat), NEW e \in Nat, NEW m \in Nat,
         \A i \in 1 .. Len(t) : t[i] = m + i, e = m + Len(t) + 1
  PROVE  /\ Append(t, e) \in Seq(Nat) /\ Len(Append(t, e)) = Len(t) + 1 /\ Append(t, e) # <<>>
         /\ \A i \in 1 .. Len(Append(t, e)) : Append(t, e)[i] = m + i
<1> DEFINE s == Append(t, e)
<1>1. Len(t) \in Nat
  BY LenProperties
<1>2. s \in Seq(Nat) /\ Len(s) = Len(t) + 1 /\ s[Len(t) + 1] = e /\ \A i \in 1 .. Len(t) : s[i] = t[i]
  BY AppendProperties
<1> HIDE DEF s
<1>3. s # <<>>
  BY <1>1, <1>2
<1>4. ASSUME NEW i \in 1 .. Len(s) PROVE s[i] = m + i
  <2>1. CASE i \in 1 .. Len(t)
    BY <1>2, <2>1
  <2>2. CASE i = Len(t) + 1
    BY <1>1, <1>2, <2>2
  <2> QED
    BY <1>1, <1>2, <2>1, <2>2
<1> QED
  BY <1>2, <1>3, <1>4 DEF s

(* What is left of frames n + 1, n + 2, ... when the first has gone.       *)
LEMMA FirstHeld ==
  ASSUME NEW s \in Seq(Nat), s # <<>>, NEW m \in Nat, \A i \in 1 .. Len(s) : s[i] = m + i
  PROVE  /\ Head(s) = m + 1 /\ Len(Tail(s)) = Len(s) - 1
         /\ \A i \in 1 .. Len(Tail(s)) : Tail(s)[i] = (m + 1) + i
<1>1. Len(s) \in Nat \ {0} /\ Head(s) = s[1]
  BY EmptySeq, LenProperties
<1>2. Len(Tail(s)) = Len(s) - 1 /\ \A i \in 1 .. Len(Tail(s)) : Tail(s)[i] = s[i + 1]
  BY HeadTailProperties
<1>3. \A i \in 1 .. Len(s) - 1 : i + 1 \in 1 .. Len(s) /\ m + (i + 1) = (m + 1) + i
  BY <1>1
<1> QED
  BY <1>1, <1>2, <1>3

LEMMA StampedAfter ==
  ASSUME Typed, Stamped, stamped' = Append(stamped, [frame |-> n + 1, stamp |-> n + 1])
  PROVE  Stamped' /\ n' = n + 1
<1> DEFINE p == [frame |-> n + 1, stamp |-> n + 1]
<1>0. n \in Nat
  BY Numbers
<1>1. p \in Packet /\ p.frame = n + 1 /\ p.stamp = n + 1
  BY <1>0 DEF Packet
<1>2. stamped' = Append(stamped, p) /\ stamped \in Seq(Packet)
  BY DEF Typed, QueueTypes
<1> HIDE DEF p
<1>3. /\ n' = n + 1
      /\ \A k \in 1 .. n : stamped'[k] = stamped[k]
      /\ stamped'[n + 1] = p
  BY <1>1, <1>2 DEF n
<1>4. \A k \in 1 .. n + 1 : stamped'[k].frame = k /\ stamped'[k].stamp = k
  <2> TAKE k \in 1 .. n + 1
  <2>1. CASE k = n + 1
    BY <1>1, <1>3, <2>1
  <2>2. CASE k # n + 1
    <3>1. k \in 1 .. n
      BY <1>0, <2>2
    <3> QED
      BY <1>3, <3>1 DEF Stamped
  <2> QED
    BY <2>1, <2>2
<1> QED
  BY <1>3, <1>4 DEF Stamped

LEMMA QueueInit == LavcInit => QueueInv
<1> SUFFICES ASSUME LavcInit PROVE QueueInv
  OBVIOUS
<1>1. n = 0 /\ Len(held) = 0 /\ frames = 0 /\ lost = 0 /\ Kept = 0 /\ delayed_frames = 0
  BY DEF LavcInit, n, Kept
<1>2. Stamped /\ HeldInv /\ StampInv
  BY <1>1 DEF Stamped, HeldInv, StampInv
<1>3. delay \in Nat
  BY LavcAssumption DEF LavcInit
<1>4. CaptureInv
  BY <1>1, <1>3 DEF LavcInit, CaptureInv
<1>5. CallInv
  BY <1>2, <1>4 DEF LavcInit, CallInv
<1>6. LossInv
  BY <1>1 DEF LavcInit, LossInv
<1> QED
  BY <1>5, <1>6 DEF QueueInv

(* What holds of a call before the flush.                                  *)
LEMMA BeforeFlush ==
  ASSUME Typed, CallInv, LossInv, EncodeFrame, ~flush_delayed_frames
  PROVE  /\ n \in Nat /\ frames \in Nat /\ delay \in Nat /\ delayed_frames \in Nat /\ MaxDelayed \in Nat
         /\ Len(held) \in Nat /\ Kept = frames /\ Kept' = frames + 1
         /\ frames' = frames + 1 /\ lost' = 0 /\ UNCHANGED <<delay, finished>>
         /\ encode_lavc_frame(frames + 1, FALSE)
         /\ finished = FALSE /\ flush_done = FALSE
         /\ Stamped /\ HeldInv /\ StampInv /\ CaptureInv
<1>1. flush_delayed_frames = FALSE /\ flush_done \in BOOLEAN /\ finished \in BOOLEAN
  BY DEF Typed, FlagTypes
<1>2. /\ frames' = frames + 1 /\ lost = 0 /\ lost' = lost /\ UNCHANGED <<delay, finished>>
      /\ encode_lavc_frame(frames + 1, FALSE) /\ finished = FALSE
  BY <1>1 DEF EncodeFrame, LossInv
<1>3. flush_done = FALSE /\ Stamped /\ HeldInv /\ StampInv /\ CaptureInv
  BY <1>1 DEF CallInv
<1>4. /\ n \in Nat /\ frames \in Nat /\ delay \in Nat /\ delayed_frames \in Nat /\ MaxDelayed \in Nat
      /\ Len(held) \in Nat
  BY Numbers
<1>5. Kept = frames /\ Kept' = frames + 1
  BY <1>2, <1>4 DEF Kept
<1> QED
  BY <1>2, <1>3, <1>4, <1>5

(* A frame that the encoder holds back: its stamp is collected.            *)
LEMMA HeldBack ==
  ASSUME Typed, CallInv, LossInv, delay <= MaxDelayed, EncodeFrame, ~flush_delayed_frames,
         frames < delay
  PROVE  CallInv' /\ flush_delayed_frames' = FALSE
<1> DEFINE f == frames + 1
<1>1. /\ n \in Nat /\ frames \in Nat /\ delay \in Nat /\ delayed_frames \in Nat /\ MaxDelayed \in Nat
      /\ Len(held) \in Nat
  BY BeforeFlush
<1>2. /\ frames' = frames + 1 /\ UNCHANGED <<delay, finished>> /\ Kept = frames /\ Kept' = frames + 1
      /\ encode_lavc_frame(f, FALSE)
  BY BeforeFlush
<1>3. /\ flush_done = FALSE /\ Stamped /\ HeldInv /\ StampInv
      /\ n = 0 /\ delayed_frames = frames /\ index_of_df = -1
  BY <1>1, BeforeFlush DEF CaptureInv
<1>4. held \in Seq(Nat) /\ f \in Nat /\ Len(held) = frames /\ Given(f, FALSE) = Append(held, f)
  BY <1>1, <1>2, <1>3 DEF Typed, QueueTypes, HeldInv, Given
<1>5. ~Out(f, FALSE)
  BY <1>1, <1>4 DEF Out
<1>6. /\ held' = Append(held, f) /\ stamped' = stamped /\ flush_done' = FALSE
      /\ Collect(f, FALSE)
  <2>1. encode_lavc_frame(f, FALSE)
    BY <1>2
  <2> HIDE DEF f
  <2>2. flush_done' = (flush_done \/ (FALSE /\ ~Out(f, FALSE)))
    BY <2>1, Encodes
  <2>3. flush_done' = FALSE
    BY <1>3, <2>2
  <2>4. held' = Given(f, FALSE) /\ stamped' = stamped
    BY <1>5, <2>1, Encodes
  <2>5. Collect(f, FALSE)
    <3>1. (index_of_df < 0) = TRUE /\ (index_of_df >= 0) = FALSE
      BY <1>3
    <3> QED
      BY <1>5, <2>1, <3>1, Encodes
  <2> QED
    BY <1>4, <2>3, <2>4, <2>5
<1>7. n' = n /\ Stamped'
  BY <1>3, <1>6 DEF n, Stamped
<1>8. /\ delayed_pts' = [delayed_pts EXCEPT ![frames] = f] /\ delayed_frames' = frames + 1
      /\ index_of_df' = -1 /\ flush_delayed_frames' = FALSE
  BY <1>1, <1>3, <1>6 DEF Collect
<1>9. HeldInv'
  <2>1. /\ Len(held') = frames + 1
        /\ \A i \in 1 .. frames : held'[i] = held[i]
        /\ held'[frames + 1] = f
    BY <1>4, <1>6
  <2>2. \A i \in 1 .. frames : held[i] = n + i
    BY <1>3, <1>4 DEF HeldInv
  <2>3. \A i \in 1 .. frames + 1 : held'[i] = n + i
    BY <1>1, <1>3, <2>1, <2>2
  <2> QED
    BY <1>1, <1>2, <1>3, <1>7, <2>1, <2>3 DEF HeldInv
<1>10. StampInv'
  <2>1. Oldest = 0 /\ Oldest' = 0
    BY <1>3, <1>8 DEF Oldest
  <2>2. \A k \in Nat : Distance(k) = k /\ Distance(k)' = k
    BY <2>1 DEF Distance
  <2>3. \A k \in 0 .. frames - 1 : delayed_pts[k] = k + 1
    BY <1>1, <1>2, <1>3, <2>2 DEF StampInv
  <2>4. \A k \in 0 .. frames : delayed_pts'[k] = k + 1
    BY <1>1, <1>8, <2>3 DEF Typed, StampTypes
  <2>5. \A k \in 0 .. delayed_frames' - 1 : k \in Nat /\ delayed_pts'[k] = n' + 1 + Distance(k)'
    BY <1>1, <1>3, <1>7, <1>8, <2>2, <2>4
  <2>6. Kept' - n' <= delayed_frames'
    BY <1>1, <1>2, <1>3, <1>7, <1>8
  <2> QED
    BY <2>5, <2>6 DEF StampInv
<1>11. CaptureInv'
  BY <1>1, <1>2, <1>3, <1>7, <1>8 DEF CaptureInv
<1> QED
  BY <1>6, <1>7, <1>8, <1>9, <1>10, <1>11 DEF CallInv

(* A frame that pushes the oldest one out: the stamps are exchanged.       *)
LEMMA PushesOut ==
  ASSUME Typed, CallInv, LossInv, delay <= MaxDelayed, EncodeFrame, ~flush_delayed_frames,
         frames >= delay
  PROVE  CallInv' /\ flush_delayed_frames' = FALSE
<1> DEFINE f == frames + 1
           s == Append(held, f)
<1>1. /\ n \in Nat /\ frames \in Nat /\ delay \in Nat /\ delayed_frames \in Nat /\ MaxDelayed \in Nat
      /\ Len(held) \in Nat
  BY BeforeFlush
<1>2. /\ frames' = frames + 1 /\ UNCHANGED <<delay, finished>> /\ Kept = frames /\ Kept' = frames + 1
      /\ encode_lavc_frame(f, FALSE)
  BY BeforeFlush
<1>3. /\ flush_done = FALSE /\ Stamped /\ HeldInv /\ StampInv
      /\ n = frames - delay /\ delayed_frames = delay
  BY <1>1, BeforeFlush DEF CaptureInv
<1>4. /\ held \in Seq(Nat) /\ f \in Nat /\ Len(held) = delay /\ Given(f, FALSE) = s
      /\ \A i \in 1 .. delay : held[i] = n + i
  BY <1>1, <1>2, <1>3 DEF Typed, QueueTypes, HeldInv, Given
<1>5. /\ s \in Seq(Nat) /\ Len(s) = delay + 1 /\ s # <<>>
      /\ \A i \in 1 .. Len(s) : s[i] = n + i
  <2> HIDE DEF s
  <2>1. f = n + Len(held) + 1
    BY <1>1, <1>3, <1>4
  <2>2. /\ s \in Seq(Nat) /\ Len(s) = Len(held) + 1 /\ s # <<>>
        /\ \A i \in 1 .. Len(s) : s[i] = n + i
    <3>1. \A i \in 1 .. Len(held) : held[i] = n + i
      BY <1>4
    <3> HIDE DEF f
    <3> QED
      BY <1>1, <1>4, <2>1, <3>1, NextHeld DEF s
  <2> QED
    BY <1>4, <2>2
<1>6. Out(f, FALSE)
  BY <1>1, <1>5 DEF Out
<1>7. Head(s) = n + 1 /\ Len(Tail(s)) = delay /\ \A i \in 1 .. Len(Tail(s)) : Tail(s)[i] = (n + 1) + i
  <2> HIDE DEF s
  <2>1. /\ Head(s) = n + 1 /\ Len(Tail(s)) = Len(s) - 1
        /\ \A i \in 1 .. Len(Tail(s)) : Tail(s)[i] = (n + 1) + i
    BY <1>1, <1>5, FirstHeld
  <2> QED
    BY <1>1, <1>5, <2>1
<1>8. NewStamp(f) = n + 1
  <2>1. CASE Holding
    <3>1. n < Kept
      BY <1>1, <1>2, <1>3, <2>1 DEF Holding
    <3> QED
      BY <1>3, <2>1, <3>1, OldestStamp DEF NewStamp
  <2>2. CASE ~Holding
    BY <1>1, <1>3, <2>2 DEF NewStamp, Holding
  <2> QED
    BY <2>1, <2>2
<1>9. /\ held' = Tail(s) /\ stamped' = Append(stamped, [frame |-> n + 1, stamp |-> n + 1])
      /\ flush_done' = FALSE
      /\ \/ Holding /\ Exchange(f, FALSE)
         \/ ~Holding /\ flush_delayed_frames' = FALSE
            /\ UNCHANGED <<delayed_pts, delayed_frames, index_of_df>>
  BY <1>2, <1>3, <1>4, <1>6, <1>7, <1>8, Encodes, ZenonT(60)
<1>10. Stamped' /\ n' = n + 1
  BY <1>1, <1>3, <1>9, StampedAfter
<1>11. HeldInv'
  <2>1. n' <= Kept' /\ Len(held') = Kept' - n'
    BY <1>1, <1>2, <1>3, <1>7, <1>9, <1>10
  <2> QED
    BY <1>7, <1>9, <1>10, <2>1 DEF HeldInv
<1>12. StampInv' /\ flush_delayed_frames' = FALSE /\ delayed_frames' = delay
       /\ (delay = 0 \/ index_of_df' >= 0)
  <2>1. CASE Holding /\ Exchange(f, FALSE)
    <3>1. Kept - n = delayed_frames /\ Kept' = f /\ Kept' = Kept + 1 /\ f = Kept + 1
      BY <1>1, <1>2, <1>3
    <3>2. StampInv'
      BY <1>3, <2>1, <3>1, <1>10, ExchangeKeeps
    <3>3. Oldest \in Nat
      BY OldestIn DEF Typed
    <3> QED
      BY <1>3, <2>1, <3>2, <3>3 DEF Exchange, Advance
  <2>2. CASE ~Holding /\ flush_delayed_frames' = FALSE
             /\ UNCHANGED <<delayed_pts, delayed_frames, index_of_df>>
    BY <1>1, <1>2, <1>3, <1>10, <2>2 DEF Holding, StampInv
  <2> QED
    BY <1>9, <2>1, <2>2
<1>13. CaptureInv'
  BY <1>1, <1>2, <1>3, <1>10, <1>12 DEF CaptureInv
<1> QED
  BY <1>9, <1>10, <1>11, <1>12, <1>13 DEF CallInv

(* A call in the flush takes the first of the frames held, and none when   *)
(* there are none, whatever stamp it brings.                               *)
LEMMA FlushCall ==
  ASSUME Typed, CallInv, delay <= MaxDelayed, NEW f, encode_lavc_frame(f, TRUE), Kept' = Kept
  PROVE  CallInv' /\ flush_delayed_frames' = TRUE
<1>1. /\ n \in Nat /\ Kept \in Nat /\ delayed_frames \in Nat /\ Len(held) \in Nat
      /\ held \in Seq(Nat) /\ flush_done \in BOOLEAN
  BY Numbers DEF Typed, QueueTypes, FlagTypes
<1>2. Given(f, TRUE) = held /\ (Out(f, TRUE) <=> held # <<>>)
  BY DEF Given, Out
<1>3. flush_delayed_frames' = TRUE
  BY Encodes DEF Collect, Exchange
<1>4. CASE held = <<>>
  <2>1. stamped' = stamped /\ flush_done' = TRUE /\ held' = <<>>
    BY <1>2, <1>4, Encodes
  <2>2. n = Kept
    BY <1>1, <1>4 DEF CallInv, HeldInv
  <2>3. n' = n /\ Stamped'
    BY <2>1 DEF CallInv, Stamped, n
  <2> QED
    BY <1>3, <2>1, <2>2, <2>3 DEF CallInv
<1>5. CASE held # <<>>
  <2>1. flush_done = FALSE /\ Stamped /\ HeldInv /\ StampInv
    BY <1>1, <1>5 DEF CallInv
  <2>2. Len(held) = Kept - n /\ Len(held) # 0 /\ n < Kept
    BY <1>1, <1>5, <2>1, EmptySeq DEF HeldInv
  <2>3. Holding
    BY <1>1, <2>1, <2>2 DEF StampInv, Holding
  <2>4. /\ Head(held) = n + 1 /\ Len(Tail(held)) = Len(held) - 1
        /\ \A i \in 1 .. Len(Tail(held)) : Tail(held)[i] = (n + 1) + i
    BY <1>1, <1>5, <2>1, FirstHeld DEF HeldInv
  <2>5. NewStamp(f) = n + 1
    BY <2>1, <2>2, <2>3, OldestStamp DEF NewStamp
  <2>6. /\ held' = Tail(held) /\ stamped' = Append(stamped, [frame |-> n + 1, stamp |-> n + 1])
        /\ flush_done' = FALSE /\ Exchange(f, TRUE)
    BY <1>2, <1>5, <2>1, <2>3, <2>4, <2>5, Encodes
  <2>7. Stamped' /\ n' = n + 1
    BY <2>1, <2>6, StampedAfter
  <2>8. StampInv'
    BY <2>1, <2>3, <2>6, <2>7, ExchangeKeeps
  <2>9. HeldInv'
    <3>1. n' <= Kept' /\ Len(held') = Kept' - n'
      BY <1>1, <2>2, <2>4, <2>6, <2>7
    <3> QED
      BY <2>4, <2>6, <2>7, <3>1 DEF HeldInv
  <2> QED
    BY <1>3, <2>6, <2>7, <2>8, <2>9 DEF CallInv, CaptureInv
<1> QED
  BY <1>4, <1>5

LEMMA EncodeStep ==
  ASSUME Typed, CallInv, LossInv, delay <= MaxDelayed, EncodeFrame
  PROVE  CallInv' /\ LossInv'
<1>1. CASE ~flush_delayed_frames
  <2>1. CallInv' /\ flush_delayed_frames' = FALSE
    <3>1. frames < delay \/ frames >= delay
      BY Numbers
    <3> QED
      BY <1>1, <3>1, HeldBack, PushesOut
  <2>2. lost' = 0 /\ finished = FALSE /\ finished' = finished
    BY <1>1, BeforeFlush
  <2> QED
    BY <2>1, <2>2 DEF LossInv
<1>2. CASE flush_delayed_frames
  <2>1. /\ capturing = "ending" /\ capturing' = "no" /\ lost = 0 /\ lost' = lost + 1
        /\ frames' = frames + 1 /\ ~finished /\ finished' = finished
        /\ encode_lavc_frame(frames + 1, flush_delayed_frames)
    BY <1>2 DEF EncodeFrame, LossInv, Typed, FlagTypes
  <2>2. flush_delayed_frames = TRUE
    BY <1>2 DEF Typed, FlagTypes
  <2>3. encode_lavc_frame(frames + 1, TRUE)
    BY <2>1, <2>2
  <2>4. Kept' = Kept
    BY <2>1, Numbers DEF Kept
  <2>5. CallInv' /\ flush_delayed_frames' = TRUE
    BY <2>3, <2>4, FlushCall
  <2> QED
    BY <2>1, <2>5 DEF LossInv
<1> QED
  BY <1>1, <1>2

LEMMA QueueStep == Typed /\ QueueInv /\ [LavcNext]_lavcVars => QueueInv'
<1> SUFFICES ASSUME Typed, QueueInv, [LavcNext]_lavcVars, (delay <= MaxDelayed)'
             PROVE CallInv' /\ LossInv'
  BY DEF QueueInv
<1>1. delay <= MaxDelayed /\ CallInv /\ LossInv
  BY DEF LavcNext, EncodeFrame, CaptureEnds, FlushFrame, lavcVars, QueueInv
<1>2. CASE EncodeFrame
  BY <1>1, <1>2, EncodeStep
<1>3. CASE CaptureEnds
  <2>1. LossInv'
    BY <1>1, <1>3 DEF CaptureEnds, LossInv
  <2>2. CallInv'
    BY <1>1, <1>3 DEF CaptureEnds, CallInv, Stamped, HeldInv, StampInv, CaptureInv, Distance,
                      Oldest, n, Kept
  <2> QED
    BY <2>1, <2>2
<1>4. CASE FlushFrame
  <2>1. /\ encode_lavc_frame(frames, TRUE) /\ UNCHANGED <<frames, capturing, lost>>
        /\ finished' = flush_done' /\ capturing # "yes"
    BY <1>4 DEF FlushFrame
  <2>2. Kept' = Kept
    BY <2>1 DEF Kept
  <2>3. CallInv' /\ flush_delayed_frames' = TRUE
    BY <1>1, <2>1, <2>2, FlushCall
  <2>4. LossInv'
    BY <1>1, <2>1, <2>3, Zenon DEF LossInv
  <2> QED
    BY <2>3, <2>4
<1>5. CASE UNCHANGED lavcVars
  BY <1>1, <1>5 DEF lavcVars, CallInv, LossInv, Stamped, HeldInv, StampInv, CaptureInv, Distance,
                    Oldest, n, Kept
<1> QED
  BY <1>2, <1>3, <1>4, <1>5 DEF LavcNext

(* The packets are of frames 1, 2, 3, ..., each with the stamp of its own  *)
(* frame, and the flush leaves none in the encoder, wherever the capture   *)
(* ends and whether or not a frame comes late; a late one is all that may  *)
(* be missing.  For every encoder that holds back no more frames than      *)
(* there are places.                                                       *)
THEOREM StampsAreRight == LavcSpec => []StampsFollow
<1>1. LavcInit => QueueInv
  BY QueueInit
<1>2. Typed /\ QueueInv /\ [LavcNext]_lavcVars => QueueInv'
  BY QueueStep
<1>3. QueueInv => StampsFollow
  BY DEF QueueInv, CallInv, LossInv, StampsFollow, Stamped, n, Kept
<1> QED
  BY <1>1, <1>2, <1>3, TypedInvariance, PTL DEF LavcSpec
=============================================================================
