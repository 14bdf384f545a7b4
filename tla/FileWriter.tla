------------------------------ MODULE FileWriter ------------------------------
(***************************************************************************)
(* The buffered writer of file_io.c under its callers, the muxers.  They   *)
(* append, and now and then go back to patch something: they remember the  *)
(* offset, seek, write over what is there and seek to the remembered one.  *)
(* A seek that stays in the buffer moves the buffer pointer only, so what  *)
(* is behind it must survive until the patch ends.                         *)
(***************************************************************************)
EXTENDS Integers

CONSTANTS BufferSize, (* IO_BUFFER_SIZE in cells                           *)
          MaxFile,    (* bound: the cells a file may have                  *)
          Cell,       (* what a cell may hold                              *)
          Hole        (* a cell that was never written                     *)

ASSUME BufferSizeAssumption == BufferSize \in Nat /\ BufferSize > 1
ASSUME MaxFileAssumption == MaxFile \in Nat

NoPatch == -1

VARIABLES disk,       (* what was given to fwrite                          *)
          size, position, buffer, buf_ptr,
          resume      (* the offset a patch returns to, or NoPatch         *)

writerVars == <<disk, size, position, buffer, buf_ptr, resume>>

Places == 0 .. MaxFile - 1
io_get_offset == position + buf_ptr

WriterInit ==
  /\ disk = [p \in Places |-> Hole]
  /\ size = 0 /\ position = 0
  /\ buffer = [k \in 0 .. BufferSize - 1 |-> Hole] /\ buf_ptr = 0
  /\ resume = NoPatch
-----------------------------------------------------------------------------
(***************************************************************************)
(* The operations of the writer.  The file pointer is where position says. *)
(***************************************************************************)

(* io_flush_buffer of n cells of b, after which the file pointer is at q.  *)
FlushTo(b, n, q) ==
  /\ disk' = [p \in Places |->
                IF position <= p /\ p < position + n THEN b[p - position] ELSE disk[p]]
  /\ size' = IF n > size - position THEN position + n ELSE size
  /\ position' = q
  /\ buf_ptr' = 0

(* The write that fills the buffer flushes it.                             *)
(* Mutant: it is noticed one write late.                                   *)
FilledLate(n) == n > BufferSize
Filled(n) == n >= BufferSize

Store(c) == buffer' = [buffer EXCEPT ![buf_ptr] = c]

io_write_w8(c) ==
  /\ Store(c)
  /\ IF Filled(buf_ptr + 1)
     THEN FlushTo(buffer', buf_ptr + 1, position + buf_ptr + 1)
     ELSE buf_ptr' = buf_ptr + 1 /\ UNCHANGED <<disk, size, position>>

(* A position on the file needs an empty buffer.                           *)
SeekOnFile(p) == FlushTo(buffer, buf_ptr, p) /\ UNCHANGED buffer

(* A position in the buffer: nothing is flushed.                           *)
SeekInBuffer(p) ==
  /\ position' = size
  /\ buf_ptr' = p - size
  /\ UNCHANGED <<disk, size, buffer>>

(* Mutant: the end of the file is taken for a position in the buffer.      *)
SeeksBefore(p) == p < size
OnFile(p) == p <= size

io_seek(p) == IF OnFile(p) THEN SeekOnFile(p) ELSE SeekInBuffer(p)

io_skip(amount) == SeekOnFile(position + buf_ptr + amount)
-----------------------------------------------------------------------------
(***************************************************************************)
(* The callers.                                                            *)
(***************************************************************************)
Patching == resume # NoPatch

AppendCell(c) ==
  /\ ~Patching /\ io_get_offset < MaxFile
  /\ io_write_w8(c)
  /\ UNCHANGED resume

(* After a packet, and before the counters and the index are patched.      *)
FlushBuffer ==
  /\ ~Patching /\ buf_ptr > 0
  /\ SeekOnFile(io_get_offset)
  /\ UNCHANGED resume

(* A patch at p starts: a tag or an element is closed, a header corrected. *)
StartPatch(p) ==
  /\ ~Patching /\ p < io_get_offset
  /\ resume' = io_get_offset
  /\ io_seek(p)

Patch(c) ==
  /\ Patching /\ io_get_offset < resume
  /\ io_write_w8(c)
  /\ UNCHANGED resume

(* Several places are only patched after a flush, in the counters and the  *)
(* master index: what is to be kept is on the file.                        *)
SeveralPlaces == Patching /\ resume <= size

SeekOn(p) == SeveralPlaces /\ p < resume /\ io_seek(p) /\ UNCHANGED resume

SkipOn(amount) ==
  /\ SeveralPlaces /\ io_get_offset + amount < resume
  /\ io_skip(amount)
  /\ UNCHANGED resume

EndPatch ==
  /\ Patching
  /\ io_seek(resume)
  /\ resume' = NoPatch

WriterNext ==
  \/ \E c \in Cell : AppendCell(c) \/ Patch(c)
  \/ FlushBuffer
  \/ \E p \in Places : StartPatch(p) \/ SeekOn(p)
  \/ \E amount \in 1 .. MaxFile : SkipOn(amount)
  \/ EndPatch

WriterSpec == WriterInit /\ [][WriterNext]_writerVars
-----------------------------------------------------------------------------
(***************************************************************************)
(* Properties.                                                             *)
(***************************************************************************)
(* Every variable keeps to its range: no write is outside the buffer.      *)
WriterTypeOK ==
  /\ disk \in [Places -> Cell \cup {Hole}]
  /\ size \in 0 .. MaxFile /\ position \in 0 .. MaxFile
  /\ buffer \in [0 .. BufferSize - 1 -> Cell \cup {Hole}]
  /\ buf_ptr \in 0 .. BufferSize - 1
  /\ resume \in {NoPatch} \cup 0 .. MaxFile

(* A patch is on a file that holds everything up to the remembered offset, *)
(* or in a buffer that holds what the file does not.                       *)
PatchKept ==
  /\ ~Patching => position = size
  /\ Patching =>
       /\ io_get_offset <= resume
       /\ \/ resume = size
          \/ size < resume /\ position = size /\ resume - size < BufferSize
  /\ io_get_offset <= MaxFile

(* What is to be on the file: in an unflushed patch the buffer counts up   *)
(* to the remembered offset.                                               *)
InBuffer(p) ==
  \/ position <= p /\ p < io_get_offset
  \/ size <= p /\ p < resume

FileCells == [p \in Places |-> IF InBuffer(p) THEN buffer[p - position] ELSE disk[p]]
FileLength == IF Patching THEN resume ELSE io_get_offset

File == INSTANCE RandomAccessFile WITH
  content <- FileCells, length <- FileLength, offset <- io_get_offset

(* The writer is a file with random access to its callers: whatever is in  *)
(* the buffer when they go back and forth, nothing is lost or misplaced.   *)
ImplementsFile == File!FileSpec
=============================================================================
