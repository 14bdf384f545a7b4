--------------------------- MODULE RandomAccessFile ---------------------------
(***************************************************************************)
(* What the muxers expect of io_Writer: a file with an offset.  A cell put *)
(* at the offset stays until another one is put there, cells are put at    *)
(* the end or over written ones, and the offset moves freely in what is    *)
(* written.  FileWriter, with its buffer, implements it.                   *)
(***************************************************************************)
EXTENDS Naturals

CONSTANTS MaxFile, (* bound: the cells a file may have *)
          Cell,    (* what a cell may hold             *)
          Hole     (* a cell that was never written    *)

VARIABLES content, (* the cells                        *)
          length,  (* how many are written             *)
          offset   (* where the next one goes          *)

fileVars == <<content, length, offset>>

FileInit ==
  /\ content = [p \in 0 .. MaxFile - 1 |-> Hole]
  /\ length = 0
  /\ offset = 0

Put(c) ==
  /\ offset < MaxFile
  /\ content' = [content EXCEPT ![offset] = c]
  /\ offset' = offset + 1
  /\ length' = IF offset' > length THEN offset' ELSE length

Move(p) ==
  /\ offset' = p
  /\ UNCHANGED <<content, length>>

FileNext ==
  \/ \E c \in Cell : Put(c)
  \/ \E p \in 0 .. length : Move(p)

FileSpec == FileInit /\ [][FileNext]_fileVars
=============================================================================
