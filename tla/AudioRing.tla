------------------------------ MODULE AudioRing ------------------------------
(***************************************************************************)
(* The audio ring of a capture: the audio source (the PortAudio callback   *)
(* or the PulseAudio thread, both through record_sound) fills buffers of   *)
(* BufSize chunks, the audio thread (Audio_loop) takes, encodes and writes *)
(* them.  A buffer changes hands by its flag, under pdata->mutex; what is  *)
(* in it is touched without a lock by whoever the flag gives it to.        *)
(*                                                                         *)
(* One capture: set_sound and init_sound reset all of this state.          *)
(***************************************************************************)
EXTENDS Integers, Sequences

CONSTANTS
  BufSize,      (* AUDBUFF_SIZE, the chunks of a buffer                     *)
  BufNum,       (* AUDBUFF_NUM, the buffers of the ring                     *)
  MaxLoops,     (* iterations Audio_loop makes after a stop: 60 in the code *)
  MaxChunks,    (* bound: chunks the device delivers                        *)
  MaxSkip       (* bound: value of pdata->skip_n                            *)

ASSUME RingAssumption == BufSize \in Nat \ {0} /\ BufNum \in Nat \ {0, 1}
ASSUME LoopsAssumption == MaxLoops \in Nat \ {0}
ASSUME BoundsAssumption == MaxChunks \in Nat /\ MaxSkip \in Nat

VARIABLES
  capVid,                     (* videoIn->capVid                            *)
  aCap, skip_n,               (* pdata->capVid, pdata->skip_n               *)
  held,                       (* pdata->mutex is held by a thread that      *)
                              (* waits for it itself                        *)
  allocated,                  (* the buffers are allocated                  *)
  flag, used, data,           (* audio_buff_flag; audio_buff, by position   *)
  bw_ind, w_ind,              (* where the source writes                    *)
  br_ind, r_ind,              (* where the audio thread reads               *)
  api, spc, sCap, recorded,   (* the source: pdata->api, where it is, the   *)
                              (* capVid it read, chunks it has recorded     *)
  apc, lCap, pCap, loops,     (* Audio_loop and process_audio               *)
  written,                    (* the chunks in the file                     *)
  ipc, gpc,                   (* the IO thread, the GTK thread              *)
  promised                    (* history: the chunks in complete buffers at *)
                              (* the stop, those written before included    *)

ring   == <<allocated, flag, used, data, bw_ind, w_ind, br_ind, r_ind>>
source == <<api, spc, sCap, recorded>>
audio  == <<apc, lCap, pCap, loops, written>>
rest   == <<capVid, aCap, skip_n, held, ipc, gpc, promised>>
vars   == <<ring, source, audio, rest>>

Bufs == 0 .. BufNum - 1
Chunks == 0 .. BufSize - 1
Positions == 0 .. BufNum * BufSize - 1
Pos(b, c) == b * BufSize + c

Flags == {"IN_USE", "PROCESS", "PROCESSING", "PROCESSED", "READY"}

(* Mutant: the index wraps one place too late.                             *)
WrapsLate(i, size) == IF i + 1 > size THEN 0 ELSE i + 1
NEXT_IND(i, size) == IF i + 1 >= size THEN 0 ELSE i + 1

Init ==
  /\ capVid = FALSE /\ aCap = FALSE /\ skip_n = 0 /\ held = FALSE
  /\ allocated = FALSE
  /\ flag = [b \in Bufs |-> "READY"]
  /\ used = [p \in Positions |-> FALSE] /\ data = [p \in Positions |-> 0]
  /\ bw_ind = 0 /\ w_ind = 0 /\ br_ind = 0 /\ r_ind = 0
  /\ api \in {"port", "pulse"} /\ spc = "none" /\ sCap = FALSE /\ recorded = 0
  /\ apc = "none" /\ lCap = FALSE /\ pCap = FALSE /\ loops = MaxLoops
  /\ written = <<>>
  /\ ipc = "file" /\ gpc = "idle" /\ promised = 0
-----------------------------------------------------------------------------
(***************************************************************************)
(* The audio source: record_sound and fill_audio_buffer.                   *)
(***************************************************************************)

(* PulseAudio: the thread connects to the server, or gives up.             *)
Connect ==
  /\ spc = "connect"
  /\ spc' \in {"loop", "gone"}
  /\ UNCHANGED <<api, sCap, recorded, ring, audio, rest>>

(* while (pdata->capVid) iterate the PulseAudio main loop.                 *)
(* Mutant: the thread never looks whether the capture has stopped.         *)
IteratesOn == TRUE
Iterates == aCap

PulseLoop ==
  /\ spc = "loop"
  /\ spc' = IF Iterates THEN "wait" ELSE "gone"
  /\ UNCHANGED <<api, sCap, recorded, ring, audio, rest>>

(* What record_sound returns ends a PortAudio stream (paComplete); the     *)
(* PulseAudio thread ignores it.                                           *)
Returns(res) == spc' = IF api = "pulse" THEN "loop" ELSE IF res < 0 THEN "gone" ELSE "wait"

(* record_sound, called with samples: it reads capVid and skip_n.          *)
Callback ==
  /\ spc = "wait"
  /\ ~held
  /\ sCap' = aCap
  /\ \/ skip_n = 0 /\ spc' = "copy"
     \/ skip_n > 0 /\ aCap /\ Returns(0)
     \/ skip_n > 0 /\ ~aCap /\ spc' = "skip"
  /\ UNCHANGED <<api, recorded, ring, audio, rest>>

(* Skipping while the capture has stopped: it locks the mutex to clear     *)
(* pdata->streaming and locks it once more where it should unlock.         *)
LockTwice ==
  /\ spc = "skip"
  /\ ~held
  /\ held' = TRUE
  /\ spc' = "stuck"
  /\ UNCHANGED <<api, sCap, recorded, ring, audio, capVid, aCap, skip_n, ipc, gpc, promised>>

(* Mutant: a buffer the audio thread is working on is taken for writable.  *)
NotMarked(f) == f # "PROCESS"
Writable(f) == f \in {"READY", "IN_USE"}

(* A chunk is complete (sampleIndex reached aud_numSamples): it goes into  *)
(* the current buffer, or is dropped.                                      *)
ChunkComplete ==
  /\ spc = "copy"
  /\ recorded < MaxChunks
  /\ ~held
  /\ recorded' = recorded + 1
  /\ spc' = IF ~Writable(flag[bw_ind]) THEN "copy"
            ELSE IF flag[bw_ind] = "READY" THEN "claim" ELSE "store"
  /\ UNCHANGED <<api, sCap, ring, audio, rest>>

Claim ==
  /\ spc = "claim"
  /\ ~held
  /\ flag' = [flag EXCEPT ![bw_ind] = "IN_USE"]
  /\ spc' = "store"
  /\ UNCHANGED <<allocated, used, data, bw_ind, w_ind, br_ind, r_ind,
                 api, sCap, recorded, audio, rest>>

StoreChunk ==
  /\ spc = "store"
  /\ data' = [data EXCEPT ![Pos(bw_ind, w_ind)] = recorded]
  /\ used' = [used EXCEPT ![Pos(bw_ind, w_ind)] = TRUE]
  /\ w_ind' = NEXT_IND(w_ind, BufSize)
  /\ spc' = IF w_ind' = 0 THEN "flag" ELSE "copy"
  /\ UNCHANGED <<allocated, flag, bw_ind, br_ind, r_ind,
                 api, sCap, recorded, audio, rest>>

(* The buffer is full: flagged AUD_PROCESS without the mutex, ...          *)
FlagProcess ==
  /\ spc = "flag"
  /\ flag' = [flag EXCEPT ![bw_ind] = "PROCESS"]
  /\ spc' = "next"
  /\ UNCHANGED <<allocated, used, data, bw_ind, w_ind, br_ind, r_ind,
                 api, sCap, recorded, audio, rest>>

(* ... and the next one claimed, if the audio thread is done with it.      *)
NextBuffer ==
  /\ spc = "next"
  /\ ~held
  /\ bw_ind' = NEXT_IND(bw_ind, BufNum)
  /\ flag' = IF flag[bw_ind'] = "READY"
             THEN [flag EXCEPT ![bw_ind'] = "IN_USE"] ELSE flag
  /\ spc' = "copy"
  /\ UNCHANGED <<allocated, used, data, w_ind, br_ind, r_ind,
                 api, sCap, recorded, audio, rest>>

(* The samples of the call are used up.                                    *)
CallbackEnds ==
  /\ spc = "copy"
  /\ IF sCap THEN Returns(0) ELSE spc' = "mark"
  /\ UNCHANGED <<api, sCap, recorded, ring, audio, rest>>

(* The capture has stopped: the current buffer is marked as it is.         *)
MarkLast ==
  /\ spc = "mark"
  /\ ~held
  /\ flag' = [flag EXCEPT ![bw_ind] = "PROCESS"]
  /\ Returns(-1)
  /\ UNCHANGED <<allocated, used, data, bw_ind, w_ind, br_ind, r_ind,
                 api, sCap, recorded, audio, rest>>

Source ==
  \/ Connect \/ PulseLoop \/ Callback \/ LockTwice \/ ChunkComplete \/ Claim
  \/ StoreChunk \/ FlagProcess \/ NextBuffer \/ CallbackEnds \/ MarkLast
-----------------------------------------------------------------------------
(***************************************************************************)
(* The audio thread: Audio_loop and process_audio.                         *)
(***************************************************************************)
AudioLoopTop ==
  /\ apc = "top"
  /\ lCap' = capVid
  /\ apc' = "process"
  /\ UNCHANGED <<pCap, loops, written, ring, source, rest>>

ProcessAudio ==
  /\ apc = "process"
  /\ pCap' = capVid
  /\ apc' = "flag"
  /\ UNCHANGED <<lCap, loops, written, ring, source, rest>>

EndLoop(finished) ==
  /\ loops' = IF lCap THEN loops ELSE loops - 1
  /\ apc' = IF finished \/ (~lCap /\ loops' < 1) THEN "done" ELSE "top"

(* No chunk to process: wait for one, or finish if the capture is over.    *)
NothingToDo == EndLoop(~pCap)

(* is_audio_processing: it reads the flag and sets it in two critical      *)
(* sections.                                                               *)
(* Mutant: a marked buffer is left alone.                                  *)
NeverPromoted(f) == FALSE
ToProcess(f) == f = "PROCESS"

GetFlag ==
  /\ apc = "flag"
  /\ ~held
  /\ \/ ToProcess(flag[br_ind]) /\ apc' = "set" /\ UNCHANGED loops
     \/ flag[br_ind] = "PROCESSING" /\ apc' = "test" /\ UNCHANGED loops
     \/ ~ToProcess(flag[br_ind]) /\ flag[br_ind] # "PROCESSING" /\ NothingToDo
  /\ UNCHANGED <<lCap, pCap, written, ring, source, rest>>

SetProcessing ==
  /\ apc = "set"
  /\ ~held
  /\ flag' = [flag EXCEPT ![br_ind] = "PROCESSING"]
  /\ apc' = "test"
  /\ UNCHANGED <<allocated, used, data, bw_ind, w_ind, br_ind, r_ind,
                 lCap, pCap, loops, written, source, rest>>

(* Mutant: the flag of the chunk is not tested.                            *)
AnyChunk == TRUE
ChunkUsed == used[Pos(br_ind, r_ind)]

TestUsed ==
  /\ apc = "test"
  /\ \/ ChunkUsed /\ apc' = "write" /\ UNCHANGED loops
     \/ ~ChunkUsed /\ NothingToDo
  /\ UNCHANGED <<lCap, pCap, written, ring, source, rest>>

(* The effects, the encoder and the file.                                  *)
WriteChunk ==
  /\ apc = "write"
  /\ written' = Append(written, data[Pos(br_ind, r_ind)])
  /\ used' = [used EXCEPT ![Pos(br_ind, r_ind)] = FALSE]
  /\ r_ind' = NEXT_IND(r_ind, BufSize)
  /\ IF r_ind' = 0 THEN apc' = "release" /\ UNCHANGED loops ELSE EndLoop(FALSE)
  /\ UNCHANGED <<allocated, flag, data, bw_ind, w_ind, br_ind, lCap, pCap, source, rest>>

(* Mutant: the buffer is not given back to the source.                     *)
KeptProcessed == flag' = [flag EXCEPT ![br_ind] = "PROCESSED"]
GiveBack == flag' = [flag EXCEPT ![br_ind] = "READY"]

NextToRead == NEXT_IND(br_ind, BufNum)

ReleaseBuffer ==
  /\ apc = "release"
  /\ ~held
  /\ GiveBack
  /\ br_ind' = NextToRead
  /\ EndLoop(FALSE)
  /\ UNCHANGED <<allocated, used, data, bw_ind, w_ind, r_ind, lCap, pCap, written, source, rest>>

AudioThread ==
  \/ AudioLoopTop \/ ProcessAudio \/ GetFlag \/ SetProcessing \/ TestUsed
  \/ WriteChunk \/ ReleaseBuffer
-----------------------------------------------------------------------------
(***************************************************************************)
(* The IO thread, from initVideoFile to closeVideoFile; its video loop,    *)
(* which ends after a stop, is in VideoRing.                               *)
(***************************************************************************)

(* set_sound, and the start of the video capture.                          *)
SetSound ==
  /\ ipc = "file"
  /\ skip_n' \in 0 .. MaxSkip
  /\ capVid' = TRUE
  /\ ipc' = "capture"
  /\ UNCHANGED <<aCap, held, gpc, promised, ring, source, audio>>

(* pdata->capVid set without the mutex.                                    *)
StartAudio ==
  /\ ipc = "capture"
  /\ aCap' = TRUE
  /\ ipc' = "init"
  /\ UNCHANGED <<capVid, skip_n, held, gpc, promised, ring, source, audio>>

(* init_sound: the buffers allocated, the source started.                  *)
InitSound ==
  /\ ipc = "init"
  /\ allocated' = TRUE
  /\ spc' = IF api = "pulse" THEN "connect" ELSE "wait"
  /\ ipc' = "create"
  /\ UNCHANGED <<flag, used, data, bw_ind, w_ind, br_ind, r_ind, api, sCap, recorded, audio,
                 capVid, aCap, skip_n, held, gpc, promised>>

(* The source cannot be started: the capture goes on without sound.        *)
InitFails ==
  /\ ipc = "init"
  /\ ipc' = "silent"
  /\ UNCHANGED <<capVid, aCap, skip_n, held, gpc, promised, ring, source, audio>>

CreateAudioThread ==
  /\ ipc = "create"
  /\ apc' = "top"
  /\ ipc' = "run"
  /\ UNCHANGED <<lCap, pCap, loops, written, ring, source,
                 capVid, aCap, skip_n, held, gpc, promised>>

(* The video loop has ended; the audio thread is joined.                   *)
JoinAudio ==
  /\ ~capVid
  /\ \/ ipc = "run" /\ apc = "done" /\ ipc' = "stop"
     \/ ipc = "silent" /\ ipc' = "stop silent"
  /\ UNCHANGED <<capVid, aCap, skip_n, held, gpc, promised, ring, source, audio>>

(* closeVideoFile flags the audio source to stop; close_sound does so      *)
(* again, without the mutex, ...                                           *)
CloseStops ==
  /\ ipc \in {"stop", "stop silent"}
  /\ ~held
  /\ aCap' = FALSE
  /\ ipc' = IF ipc = "stop" THEN "halt" ELSE "none"
  /\ UNCHANGED <<capVid, skip_n, held, gpc, promised, ring, source, audio>>

(* ... and stops the source: the PulseAudio thread is joined, a PortAudio  *)
(* stream aborted or stopped, both of which wait for a running callback.   *)
SourceEnds == spc = "gone" \/ (api = "port" /\ spc = "wait")

StopSource ==
  /\ ipc = "halt"
  /\ SourceEnds
  /\ spc' = IF spc = "wait" THEN "gone" ELSE spc
  /\ ipc' = "free"
  /\ UNCHANGED <<api, sCap, recorded, capVid, aCap, skip_n, held, gpc, promised, ring, audio>>

FreeBuffers ==
  /\ ipc = "free"
  /\ ~held
  /\ allocated' = FALSE
  /\ ipc' = "none"
  /\ UNCHANGED <<flag, used, data, bw_ind, w_ind, br_ind, r_ind, source, audio,
                 capVid, aCap, skip_n, held, gpc, promised>>

IOThread ==
  \/ SetSound \/ StartAudio \/ InitSound \/ InitFails \/ CreateAudioThread
  \/ JoinAudio \/ CloseStops \/ StopSource \/ FreeBuffers
-----------------------------------------------------------------------------
(***************************************************************************)
(* The GTK thread stops the capture; the video thread passes on skip_n.    *)
(***************************************************************************)

(* The accepted chunks not yet in the file, from the next one to write to  *)
(* the last one stored.  An index that has wrapped belongs to the buffer   *)
(* its thread is about to move on to.                                      *)
ReadPos == Pos(IF apc = "release" THEN NEXT_IND(br_ind, BufNum) ELSE br_ind, r_ind)
WritePos == Pos(IF spc \in {"flag", "next"} THEN NEXT_IND(bw_ind, BufNum) ELSE bw_ind, w_ind)

Occupancy ==
  IF WritePos > ReadPos THEN WritePos - ReadPos
  ELSE IF WritePos < ReadPos THEN (BufNum * BufSize - ReadPos) + WritePos
  ELSE IF used[ReadPos] THEN BufNum * BufSize ELSE 0

(* Those of them in buffers that are complete and flagged.                 *)
Flagged == Occupancy - (IF spc = "flag" THEN BufSize ELSE w_ind)

StopVideo ==
  /\ gpc = "idle"
  /\ capVid
  /\ capVid' = FALSE
  /\ promised' = Len(written) + Flagged
  /\ gpc' = "stopping"
  /\ UNCHANGED <<aCap, skip_n, held, ipc, ring, source, audio>>

StopAudio ==
  /\ gpc = "stopping"
  /\ ~held
  /\ aCap' = FALSE
  /\ gpc' = "joining"
  /\ UNCHANGED <<capVid, skip_n, held, ipc, promised, ring, source, audio>>

JoinIO ==
  /\ gpc = "joining"
  /\ ipc = "none"
  /\ gpc' = "done"
  /\ UNCHANGED <<capVid, aCap, skip_n, held, ipc, promised, ring, source, audio>>

(* main_loop hands its skip_n on at the end of an iteration that recorded. *)
PassSkip ==
  /\ ~held
  /\ ipc \notin {"file", "none"}
  /\ skip_n' \in 0 .. MaxSkip
  /\ UNCHANGED <<capVid, aCap, held, ipc, gpc, promised, ring, source, audio>>

GtkThread == StopVideo \/ StopAudio \/ JoinIO

Terminated ==
  /\ gpc = "done"
  /\ UNCHANGED vars

Next == Source \/ AudioThread \/ IOThread \/ GtkThread \/ PassSkip \/ Terminated

Spec == Init /\ [][Next]_vars

(* Every thread that can run does, the device goes on delivering, and a    *)
(* stop the user has begun is carried through.                             *)
Fairness ==
  WF_vars(Source) /\ WF_vars(AudioThread) /\ WF_vars(IOThread)
  /\ WF_vars(StopAudio) /\ WF_vars(JoinIO)

FairSpec == Spec /\ Fairness
-----------------------------------------------------------------------------
(***************************************************************************)
(* Properties.                                                             *)
(***************************************************************************)
SourcePc == {"none", "connect", "loop", "wait", "copy", "skip", "stuck", "claim", "store",
             "flag", "next", "mark", "gone"}
AudioPc == {"none", "top", "process", "flag", "set", "test", "write", "release", "done"}
IOPc == {"file", "capture", "init", "silent", "create", "run", "stop", "stop silent", "halt",
         "free", "none"}

(* Every variable ranges over what its declaration in the code holds.      *)
TypeOK ==
  /\ capVid \in BOOLEAN /\ aCap \in BOOLEAN /\ skip_n \in 0 .. MaxSkip /\ held \in BOOLEAN
  /\ allocated \in BOOLEAN
  /\ flag \in [Bufs -> Flags]
  /\ used \in [Positions -> BOOLEAN] /\ data \in [Positions -> 0 .. MaxChunks]
  /\ bw_ind \in Bufs /\ w_ind \in Chunks /\ br_ind \in Bufs /\ r_ind \in Chunks
  /\ api \in {"port", "pulse"} /\ spc \in SourcePc /\ sCap \in BOOLEAN
  /\ recorded \in 0 .. MaxChunks
  /\ apc \in AudioPc /\ lCap \in BOOLEAN /\ pCap \in BOOLEAN /\ loops \in 0 .. MaxLoops
  /\ written \in Seq(0 .. MaxChunks)
  /\ ipc \in IOPc /\ gpc \in {"idle", "stopping", "joining", "done"}
  /\ promised \in 0 .. MaxChunks

(* The position of the chunk that comes j places after the next one.       *)
Slot(j) ==
  IF ReadPos + j < BufNum * BufSize THEN ReadPos + j ELSE ReadPos + j - BufNum * BufSize

Contents ==
  IF allocated THEN [j \in 1 .. Occupancy |-> data[Slot(j - 1)]] ELSE <<>>

(* The two-level ring is a bounded FIFO: no accepted chunk is lost,        *)
(* repeated, overwritten or reordered before the buffers are freed.        *)
Fifo == INSTANCE FrameFifo WITH
          Capacity <- BufNum * BufSize, Frame <- 0 .. MaxChunks,
          open <- allocated, queue <- Contents
ImplementsFifo == Fifo!FifoSpec

(* "used - doesn't need locking as current buffer must be on               *)
(* AUD_PROCESSING state": the source and the audio thread never work on    *)
(* the same buffer, and the buffers are freed when neither can use them    *)
(* any more.                                                               *)
OneOwner ==
  /\ ~(spc \in {"claim", "store", "flag"} /\ apc \in {"test", "write", "release"}
       /\ bw_ind = br_ind)
  /\ (spc \notin {"none", "gone"} \/ apc \notin {"none", "done"}) => allocated

(* A chunk is dropped only when the audio thread is a whole ring behind,   *)
(* the buffer it is working on not counted.                                *)
DropMeansFull ==
  [][(recorded' = recorded + 1 /\ spc' = "copy") => Occupancy >= (BufNum - 1) * BufSize]_vars

(* When Audio_loop has ended by itself, every buffer that was complete     *)
(* when the capture was stopped is in the file.                            *)
StopKeepsBuffers ==
  (apc = "done" /\ loops > 0) => Len(written) >= promised

(* A stopped capture ends: the source stops, the audio thread and the IO   *)
(* thread are joined, unless record_sound has locked the mutex twice.      *)
StopCompletes == (gpc = "stopping") ~> (gpc = "done" \/ held)

(* "capture has stopped": the callback returns when it has.                *)
CallbackReturns == (spc = "skip") ~> (spc \in {"loop", "gone"})
=============================================================================
