------------------------------ MODULE VideoRing ------------------------------
(***************************************************************************)
(* The video ring buffer of a capture: the video thread (main_loop of      *)
(* video.c) stores the frames it grabs, the IO thread (IO_loop of          *)
(* create_video.c) takes, encodes and writes them, and the GTK thread      *)
(* starts and stops captures.  Every critical section of the code is one   *)
(* action; a value read in one section and used in a later one is a local  *)
(* of its thread.                                                          *)
(*                                                                         *)
(* One capture at a time: a start is taken only when the IO thread of the  *)
(* previous capture is gone (module Capture drops this restriction).       *)
(***************************************************************************)
EXTENDS Integers, Sequences

CONSTANTS
  Size,         (* global->video_buff_size, the slots of the ring           *)
  MaxLoops,     (* iterations IO_loop makes after a stop: 60 in the code    *)
  StallLoops,   (* polls closeVideoFile makes of VidCapStop: 200            *)
  Delay,        (* frames the encoder holds back; 0 without a lavc codec    *)
  VidFormat,    (* global->VidFormat: "AVI", or "MKV" for WebM as well      *)
  MaxFrames,    (* bound: frames the camera delivers                        *)
  MaxDrift,     (* bound: frames by which av_drift may leave 0              *)
  MaxSkip,      (* bound: value of global->skip_n                           *)
  MaxCaptures   (* bound: captures the user starts                          *)

ASSUME SizeAssumption == Size \in Nat \ {0}
ASSUME LoopsAssumption == MaxLoops \in Nat \ {0} /\ StallLoops \in Nat \ {0}
ASSUME EncoderAssumption == Delay \in Nat /\ VidFormat \in {"AVI", "MKV"}
ASSUME BoundsAssumption ==
  MaxFrames \in Nat /\ MaxDrift \in Nat /\ MaxSkip \in Nat /\ MaxCaptures \in Nat

VARIABLES
  capVid, VidCapStop, signalquit,    (* videoIn, under its mutex            *)
  allocated,                         (* global->videoBuff # NULL            *)
  used, buf, r_ind, w_ind,           (* the ring, under the global mutex    *)
  framecount, Vidstarttime,          (* counters of the capture, unlocked   *)
  discarded,                         (* counted frames that went with the   *)
                                     (* ring of a start that failed         *)
  skip_n,                            (* global->skip_n                      *)
  vpc, vCap, vQuit, frame,           (* main_loop: where it is, its locals  *)
  signalled,                         (* IO_cond was signalled to its wait   *)
  grabbed, stamp,                    (* frames grabbed so far, and is       *)
                                     (* videoIn->timestamp not 0            *)
  ipc, iCap, pCap, loops, n, proc,   (* IO_loop, process_video, wait_ms     *)
  flush_delayed_frames,              (* lavc_data's: it encodes NULL        *)
  taken, given, packets,             (* frames of this file: taken from the *)
                                     (* ring, encoded, written to the file  *)
  sound, av_drift, resetting,        (* a file with sound; the correction   *)
                                     (* in frames; Audio_loop is created    *)
                                     (* and has not come to its reset yet   *)
  shifted,                           (* frames by which av_drift was raised *)
  gpc, captures                      (* GTK thread, captures started        *)

ring  == <<allocated, used, buf, r_ind, w_ind>>
flags == <<capVid, VidCapStop, signalquit>>
video == <<vpc, vCap, vQuit, frame, signalled, grabbed, stamp, skip_n>>
enc   == <<flush_delayed_frames, taken, given, packets>>
io    == <<ipc, iCap, pCap, loops, n, proc, enc>>
drift == <<sound, av_drift, resetting, shifted>>
gtk   == <<gpc, captures>>
count == <<framecount, Vidstarttime, discarded>>
vars  == <<flags, ring, count, video, io, drift, gtk>>

Slots == 0 .. Size - 1

(* A frame is known by when it was grabbed (id, which stands for the stamp *)
(* of the camera) and carries its time in the capture (ts), counted in     *)
(* frames: global->v_ts while main_loop holds it, in the ring less the     *)
(* correction of the drift.                                                *)
Span == MaxFrames + MaxDrift
Frame == [id : 0 .. MaxFrames, ts : -Span .. Span]
NoFrame == [id |-> 0, ts |-> 0]

(* Mutant: the index wraps one slot too late.                              *)
WrapsLate(i) == IF i + 1 > Size THEN 0 ELSE i + 1
NEXT_IND(i) == IF i + 1 >= Size THEN 0 ELSE i + 1

(* The slots in use, counted as buff_scheduler does from the two indexes;  *)
(* when they are equal the flag of the slot tells full from empty.         *)
Occupancy ==
  IF w_ind > r_ind THEN w_ind - r_ind
  ELSE IF w_ind < r_ind THEN (Size - r_ind) + w_ind
  ELSE IF used[r_ind] THEN Size ELSE 0

Init ==
  /\ capVid = FALSE /\ VidCapStop = TRUE /\ signalquit = FALSE
  /\ allocated = FALSE
  /\ used = [s \in Slots |-> FALSE]
  /\ buf = [s \in Slots |-> NoFrame]
  /\ r_ind = 0 /\ w_ind = 0
  /\ framecount = 0 /\ Vidstarttime = 0 /\ discarded = 0
  /\ skip_n \in 0 .. MaxSkip
  /\ vpc = "top" /\ vCap = FALSE /\ vQuit = FALSE
  /\ frame = NoFrame /\ signalled = FALSE /\ grabbed = 0 /\ stamp = FALSE
  /\ ipc = "none" /\ iCap = FALSE /\ pCap = FALSE
  /\ loops = MaxLoops /\ n = 0 /\ proc = NoFrame
  /\ flush_delayed_frames = FALSE /\ taken = 0 /\ given = <<>> /\ packets = 0
  /\ sound = FALSE /\ av_drift = 0 /\ resetting = FALSE /\ shifted = 0
  /\ gpc = "idle" /\ captures = 0
-----------------------------------------------------------------------------
(***************************************************************************)
(* The video thread: main_loop, with uvcGrab and store_video_frame.        *)
(***************************************************************************)

(* while (!signalquit), tested on what the iteration read at its top.      *)
EndIteration == vpc' = IF vQuit THEN "exit" ELSE "top"

MainLoopTop ==
  /\ vpc = "top"
  /\ vCap' = capVid
  /\ vQuit' = signalquit
  /\ vpc' = "grab"
  /\ UNCHANGED <<flags, ring, count, frame, signalled, grabbed, stamp, skip_n, io, drift, gtk>>

(* uvcGrab fails: select times out, leaving no time stamp, or the frame     *)
(* cannot be decoded, and then uvcGrab asks for the end of the program.     *)
(* Either way `continue` ends the iteration here.                           *)
GrabFails ==
  /\ vpc = "grab"
  /\ \/ stamp' = FALSE /\ UNCHANGED signalquit
     \/ stamp' = TRUE /\ signalquit' = TRUE
  /\ EndIteration
  /\ UNCHANGED <<capVid, VidCapStop, ring, count, vCap, vQuit, frame,
                 signalled, grabbed, skip_n, io, drift, gtk>>

(* uvcGrab returns a picture: one the camera delivered, which is stamped,   *)
(* or, when it only applied a new frame rate or compression or could not    *)
(* start the stream (which ends the program), the previous picture again    *)
(* under the previous stamp.  A picture without a stamp is to be skipped.   *)
(* The time of the capture starts at its first frame.                       *)
Grab ==
  /\ vpc = "grab"
  /\ grabbed < MaxFrames
  /\ grabbed' = grabbed + 1
  /\ frame' = [id |-> grabbed', ts |-> IF vCap /\ framecount >= 1
                                       THEN grabbed' - Vidstarttime ELSE 0]
  /\ Vidstarttime' = IF vCap /\ framecount < 1 THEN grabbed' ELSE Vidstarttime
  /\ \/ stamp' = TRUE /\ UNCHANGED signalquit
     \/ UNCHANGED stamp /\ signalquit' \in {signalquit, TRUE}
  /\ \/ stamp' /\ UNCHANGED skip_n
     \/ ~stamp' /\ skip_n < MaxSkip /\ skip_n' = skip_n + 1
  /\ vpc' = "flag"
  /\ UNCHANGED <<capVid, VidCapStop, ring, framecount, discarded, vCap, vQuit,
                 signalled, io, drift, gtk>>

(* The iteration records the frame, and says so, ...                        *)
FlagCapturing ==
  /\ vpc = "flag"
  /\ vCap /\ skip_n = 0
  /\ VidCapStop' = FALSE
  /\ vpc' = "store"
  /\ UNCHANGED <<capVid, signalquit, ring, count, vCap, vQuit, frame,
                 signalled, grabbed, stamp, skip_n, io, drift, gtk>>

(* ... or it does not, and says that recording has stopped.                 *)
FlagStopped ==
  /\ vpc = "flag"
  /\ ~vCap \/ skip_n > 0
  /\ VidCapStop' = TRUE
  /\ skip_n' = IF skip_n > 0 THEN skip_n - 1 ELSE skip_n
  /\ EndIteration
  /\ UNCHANGED <<capVid, signalquit, ring, count, vCap, vQuit, frame,
                 signalled, grabbed, stamp, io, drift, gtk>>

(* A stored frame is counted, a dropped one (ret < 0) is not.               *)
(* Mutant: the test of ret is missing.                                      *)
CountAlways(ret) == framecount' = framecount + 1
CountFrame(ret) == framecount' = IF ret = 0 THEN framecount + 1 ELSE framecount

(* Mutant: nothing looks whether the slot at w_ind is still taken.          *)
OverwriteSlot == TRUE
SlotFree == ~used[w_ind]

(* Mutant: the correction is added.                                         *)
StampLater == [frame EXCEPT !.ts = frame.ts + av_drift]
Stamped == [frame EXCEPT !.ts = frame.ts - av_drift]

(* store_at_index, w_ind moved on and the frame counted.                    *)
StoreAtIndex ==
  /\ buf' = [buf EXCEPT ![w_ind] = Stamped]
  /\ used' = [used EXCEPT ![w_ind] = TRUE]
  /\ w_ind' = NEXT_IND(w_ind)
  /\ CountFrame(0)
  /\ signalled' = FALSE
  /\ EndIteration
  /\ UNCHANGED <<flags, allocated, r_ind, Vidstarttime, discarded, vCap, vQuit,
                 frame, grabbed, stamp, skip_n, io, drift, gtk>>

DropFrame(ret) ==
  /\ CountFrame(ret)
  /\ signalled' = FALSE
  /\ EndIteration
  /\ UNCHANGED <<flags, ring, Vidstarttime, discarded, vCap, vQuit, frame,
                 grabbed, stamp, skip_n, io, drift, gtk>>

(* store_video_frame with a slot free at w_ind.                             *)
Store ==
  /\ vpc = "store"
  /\ allocated /\ SlotFree
  /\ StoreAtIndex

(* store_video_frame without a ring: returns -1.                            *)
StoreNoRing ==
  /\ vpc = "store"
  /\ ~allocated
  /\ DropFrame(-1)

(* store_video_frame with the ring full: the timed wait on IO_cond, which   *)
(* releases the global mutex.                                               *)
StoreFull ==
  /\ vpc = "store"
  /\ allocated /\ ~SlotFree
  /\ vpc' = "wait"
  /\ UNCHANGED <<flags, ring, count, vCap, vQuit, frame, signalled,
                 grabbed, stamp, skip_n, io, drift, gtk>>

(* The wait timed out: "try to store the frame again".                      *)
RetryStores ==
  /\ vpc = "wait"
  /\ SlotFree
  /\ StoreAtIndex

(* The wait timed out and the slot is still taken: returns -2.              *)
RetryDrops ==
  /\ vpc = "wait"
  /\ ~SlotFree
  /\ DropFrame(-2)

(* The IO thread signalled an empty slot: returns -3.                       *)
SignalDrops ==
  /\ vpc = "wait"
  /\ signalled
  /\ DropFrame(-3)

(* main_loop is over: its check for a capture still running, ...            *)
ExitChecks ==
  /\ vpc = "exit"
  /\ vpc' = IF capVid THEN "stopped" ELSE "done"
  /\ UNCHANGED <<flags, ring, count, vCap, vQuit, frame, signalled,
                 grabbed, stamp, skip_n, io, drift, gtk>>

(* ... the flag written without the mutex, ...                              *)
ExitFlags ==
  /\ vpc = "stopped"
  /\ VidCapStop' = TRUE
  /\ vpc' = "stopping"
  /\ UNCHANGED <<capVid, signalquit, ring, count, vCap, vQuit, frame,
                 signalled, grabbed, stamp, skip_n, io, drift, gtk>>

(* ... the capture stopped, and the IO thread joined.                       *)
ExitStops ==
  /\ vpc = "stopping"
  /\ capVid' = FALSE
  /\ vpc' = "joining"
  /\ UNCHANGED <<VidCapStop, signalquit, ring, count, vCap, vQuit, frame,
                 signalled, grabbed, stamp, skip_n, io, drift, gtk>>

ExitJoins ==
  /\ vpc = "joining"
  /\ ipc = "none"
  /\ vpc' = "done"
  /\ UNCHANGED <<flags, ring, count, vCap, vQuit, frame, signalled,
                 grabbed, stamp, skip_n, io, drift, gtk>>

VideoThread ==
  \/ MainLoopTop \/ GrabFails \/ Grab \/ FlagCapturing \/ FlagStopped
  \/ Store \/ StoreNoRing \/ StoreFull \/ RetryStores \/ RetryDrops
  \/ SignalDrops \/ ExitChecks \/ ExitFlags \/ ExitStops \/ ExitJoins
-----------------------------------------------------------------------------
(***************************************************************************)
(* The IO thread: IO_loop, with initVideoFile, process_video and           *)
(* closeVideoFile.                                                         *)
(***************************************************************************)

(* alloc_videoBuff: a ring left over from a start that failed is replaced, *)
(* and what a late iteration of main_loop stored in it goes with it; the   *)
(* counters of the capture stay.                                           *)
AllocRing ==
  /\ ipc = "init"
  /\ allocated' = TRUE
  /\ used' = [s \in Slots |-> FALSE]
  /\ buf' = [s \in Slots |-> NoFrame]
  /\ r_ind' = 0 /\ w_ind' = 0
  /\ discarded' = IF allocated THEN discarded + Occupancy ELSE discarded
  /\ ipc' = "open"
  /\ UNCHANGED <<flags, framecount, Vidstarttime, video, iCap, pCap, loops, n, proc, enc, drift, gtk>>

(* initVideoFile cannot create the file: the ring stays allocated.         *)
OpenFails ==
  /\ ipc = "open"
  /\ capVid' = FALSE
  /\ ipc' = "none"
  /\ UNCHANGED <<VidCapStop, signalquit, ring, count, video, iCap, pCap,
                 loops, n, proc, enc, drift, gtk>>

(* The file and its encoder are opened and, when sound is enabled and its  *)
(* stream starts, Audio_loop is created, if it can be.                     *)
OpenFile ==
  /\ ipc = "open"
  /\ capVid' = TRUE
  /\ sound' \in BOOLEAN /\ resetting' \in {FALSE, sound'}
  /\ ipc' = "loop"
  /\ UNCHANGED <<VidCapStop, signalquit, ring, count, video, iCap, pCap, loops,
                 n, proc, enc, av_drift, shifted, gtk>>

(* An iteration of IO_loop reads capVid, process_video reads it again.     *)
IOLoopTop ==
  /\ ipc = "loop"
  /\ iCap' = capVid
  /\ ipc' = "process"
  /\ UNCHANGED <<flags, ring, count, video, pCap, loops, n, proc, enc, drift, gtk>>

ProcessVideo ==
  /\ ipc = "process"
  /\ pCap' = capVid
  /\ ipc' = "peek"
  /\ UNCHANGED <<flags, ring, count, video, iCap, loops, n, proc, enc, drift, gtk>>

(* Mutant: the iterations before the stop count as well.                   *)
EndLoopCountsAll(finished) ==
  /\ loops' = loops - 1
  /\ ipc' = IF finished \/ (~iCap /\ loops' < 1) THEN "close" ELSE "loop"

(* The end of an iteration.  Once the capture has stopped the number of    *)
(* iterations is limited, whatever process_video returned.                 *)
EndLoop(finished) ==
  /\ loops' = IF iCap THEN loops ELSE loops - 1
  /\ ipc' = IF finished \/ (~iCap /\ loops' < 1) THEN "close" ELSE "loop"

(* Mutant: equal indexes are taken for an empty ring.                      *)
IndexesDiffer == w_ind # r_ind
FrameWaiting == used[r_ind]

PeekUsed ==
  /\ ipc = "peek"
  /\ FrameWaiting
  /\ ipc' = "take"
  /\ UNCHANGED <<flags, ring, count, video, iCap, pCap, loops, n, proc, enc, drift, gtk>>

(* Buffer underrun: wait for the next frame.                               *)
Underrun ==
  /\ ipc = "peek"
  /\ ~FrameWaiting /\ pCap
  /\ EndLoop(FALSE)
  /\ UNCHANGED <<flags, ring, count, video, iCap, pCap, n, proc, enc, drift, gtk>>

(* Each NULL given to the encoder has it write one frame it holds back.    *)
Flushed(calls) == IF packets + calls < Len(given) THEN packets + calls ELSE Len(given)
FlushDone == packets >= Len(given)

(* Capture stopped, ring empty: from now on the encoder is given NULL.     *)
(* When it has nothing left to write the loop is done.                     *)
FlushEncoder ==
  /\ ipc = "peek"
  /\ ~FrameWaiting /\ ~pCap
  /\ flush_delayed_frames' = TRUE
  /\ packets' = Flushed(1)
  /\ EndLoop(FlushDone)
  /\ UNCHANGED <<flags, ring, count, video, iCap, pCap, n, proc, taken, given, drift, gtk>>

(* Mutant: the slot of the wrong index is released.                        *)
ReleaseWrongSlot == used' = [used EXCEPT ![w_ind] = FALSE]
ReleaseSlot == used' = [used EXCEPT ![r_ind] = FALSE]

TakeFrame ==
  /\ ipc = "take"
  /\ proc' = buf[r_ind]
  /\ ReleaseSlot
  /\ signalled' = (vpc = "wait")
  /\ r_ind' = NEXT_IND(r_ind)
  /\ taken' = taken + 1
  /\ ipc' = "encode"
  /\ UNCHANGED <<flags, allocated, buf, w_ind, count, vpc, vCap, vQuit,
                 frame, grabbed, stamp, skip_n, iCap, pCap, loops, n,
                 flush_delayed_frames, given, packets, drift, gtk>>

(* How audio_drift - av_drift compares with max_drift: 1 when the audio is *)
(* late, -1 when it is too fast, 0 when it needs no correction.  With      *)
(* sound the clock of the audio device decides.  Without, audio_drift and  *)
(* max_drift are 0 and what the capture before left in av_drift decides.   *)
AudioDrift ==
  {k \in -1 .. 1 :
     \/ sound /\ av_drift + k \in -MaxDrift .. MaxDrift
     \/ ~sound /\ (k = 1 <=> av_drift < 0) /\ (k = -1 <=> av_drift > 0)}

(* av_drift moves by max_drift.  The reset of Audio_loop, made without a   *)
(* lock, may come between its reading and its writing here, and be lost.   *)
Correct(k) ==
  /\ av_drift' = IF sound THEN av_drift + k ELSE av_drift
  /\ resetting' \in IF k = 0 THEN {resetting} ELSE {resetting, FALSE}
  /\ shifted' = IF sound /\ k = 1 THEN shifted + 1 ELSE shifted
  /\ UNCHANGED sound

(* An AVI drops or repeats the frame, the other formats shift its time.    *)
Times(k) == IF VidFormat = "AVI" THEN 1 - k ELSE 1

Written(c) == [i \in 1 .. c |-> proc]

(* write_video_frame, c times: of what the encoder is given all but the    *)
(* Delay latest frames reach the file.  Once the flush has begun it is     *)
(* given NULL, and the frame is lost.                                      *)
WriteVideoFrame(c) ==
  \/ /\ ~flush_delayed_frames
     /\ given' = given \o Written(c)
     /\ packets' = IF Len(given') - Delay > packets
                   THEN Len(given') - Delay ELSE packets
  \/ /\ flush_delayed_frames
     /\ packets' = Flushed(c)
     /\ UNCHANGED given

EncodeFrame ==
  /\ ipc = "encode"
  /\ \E k \in AudioDrift : Correct(k) /\ WriteVideoFrame(Times(k))
  /\ EndLoop(FALSE)
  /\ UNCHANGED <<flags, ring, count, video, iCap, pCap, n, proc,
                 flush_delayed_frames, taken, gtk>>

(* The join of Audio_loop, and closeVideoFile: stop the video thread       *)
(* recording, ...                                                          *)
CloseStops ==
  /\ ipc = "close"
  /\ ~resetting
  /\ capVid' = FALSE
  /\ n' = StallLoops
  /\ ipc' = "handshake"
  /\ UNCHANGED <<VidCapStop, signalquit, ring, count, video, iCap, pCap,
                 loops, proc, enc, drift, gtk>>

(* Mutant: no polling at all.                                              *)
NoHandshake == TRUE
WaitOver == VidCapStop \/ n = 0

(* Mutant: a poll that does not count down.                                *)
PollForever ==
  /\ ipc = "handshake"
  /\ ~WaitOver
  /\ UNCHANGED vars

(* ... poll for its flag that it has (wait_ms), ...  The polls span 200    *)
(* times 10 ms: they only run out when the video thread is held up for     *)
(* longer in uvcGrab or in what it does between two frames, and not in its *)
(* wait of some microseconds for a slot.                                   *)
PollAgain ==
  /\ ipc = "handshake"
  /\ ~WaitOver
  /\ n = 1 => vpc \notin {"flag", "store", "wait"}
  /\ n' = n - 1
  /\ UNCHANGED <<flags, ring, count, video, ipc, iCap, pCap, loops, proc,
                 enc, drift, gtk>>

PollEnds ==
  /\ ipc = "handshake"
  /\ WaitOver
  /\ ipc' = "free"
  /\ UNCHANGED <<flags, ring, count, video, iCap, pCap, loops, n, proc,
                 enc, drift, gtk>>

(* ... free the ring ...                                                   *)
FreeRing ==
  /\ ipc = "free"
  /\ allocated' = FALSE
  /\ used' = [s \in Slots |-> FALSE]
  /\ buf' = [s \in Slots |-> NoFrame]
  /\ r_ind' = 0 /\ w_ind' = 0
  /\ ipc' = "finish"
  /\ UNCHANGED <<flags, count, video, iCap, pCap, loops, n, proc, enc, drift, gtk>>

(* ... and close the file and its encoder.  The history of the file ends   *)
(* and with the thread its locals.                                         *)
CloseFile ==
  /\ ipc = "finish"
  /\ framecount' = 0 /\ Vidstarttime' = 0 /\ discarded' = 0
  /\ flush_delayed_frames' = FALSE
  /\ taken' = 0 /\ given' = <<>> /\ packets' = 0 /\ shifted' = 0
  /\ sound' = FALSE
  /\ iCap' = FALSE /\ pCap' = FALSE /\ loops' = MaxLoops /\ n' = 0 /\ proc' = NoFrame
  /\ ipc' = "none"
  /\ UNCHANGED <<flags, ring, video, av_drift, resetting, gtk>>

IOThread ==
  \/ AllocRing \/ OpenFails \/ OpenFile \/ IOLoopTop \/ ProcessVideo
  \/ PeekUsed \/ Underrun \/ FlushEncoder \/ TakeFrame \/ EncodeFrame
  \/ CloseStops \/ PollAgain \/ PollEnds \/ FreeRing \/ CloseFile

(* Audio_loop forgets the correction the capture before left behind.       *)
AudioResets ==
  /\ resetting
  /\ resetting' = FALSE
  /\ av_drift' = 0
  /\ shifted' = IF av_drift < 0 THEN shifted - av_drift ELSE shifted
  /\ UNCHANGED <<flags, ring, count, video, io, sound, gtk>>
-----------------------------------------------------------------------------
(***************************************************************************)
(* The GTK thread: capture_vid, and shutd up to its join.                  *)
(***************************************************************************)
StartCapture ==
  /\ gpc = "idle"
  /\ ~capVid /\ ipc = "none"
  /\ captures < MaxCaptures
  /\ captures' = captures + 1
  /\ ipc' = "init"
  /\ UNCHANGED <<flags, ring, count, video, iCap, pCap, loops, n, proc,
                 enc, drift, gpc>>

StopCapture ==
  /\ gpc = "idle"
  /\ capVid
  /\ capVid' = FALSE
  /\ gpc' = "joining"
  /\ UNCHANGED <<VidCapStop, signalquit, ring, count, video, io, drift, captures>>

JoinIO ==
  /\ gpc = "joining"
  /\ ipc = "none"
  /\ gpc' = "idle"
  /\ UNCHANGED <<flags, ring, count, video, io, drift, captures>>

Shutdown ==
  /\ gpc = "idle"
  /\ signalquit' = TRUE
  /\ gpc' = "quitting"
  /\ UNCHANGED <<capVid, VidCapStop, ring, count, video, io, drift, captures>>

GtkThread == StartCapture \/ StopCapture \/ JoinIO \/ Shutdown

(* Nothing is left to do: the video thread has ended and no capture runs.  *)
Terminated ==
  /\ vpc = "done" /\ ipc = "none"
  /\ UNCHANGED vars

Next == VideoThread \/ IOThread \/ AudioResets \/ GtkThread \/ Terminated

Spec == Init /\ [][Next]_vars

(* The scheduler runs every thread that can run; the user promises nothing *)
(* except that a thread of GTK blocked in a join goes on when it can.      *)
Fairness ==
  /\ WF_vars(VideoThread) /\ WF_vars(IOThread) /\ WF_vars(AudioResets)
  /\ WF_vars(JoinIO)

FairSpec == Spec /\ Fairness
-----------------------------------------------------------------------------
(***************************************************************************)
(* Properties.                                                             *)
(***************************************************************************)

VideoPc == {"top", "grab", "flag", "store", "wait", "exit", "stopped",
            "stopping", "joining", "done"}
IOPc == {"none", "init", "open", "loop", "process", "peek", "take", "encode",
         "close", "handshake", "free", "finish"}

(* Every variable ranges over what its declaration in the code holds.      *)
TypeOK ==
  /\ capVid \in BOOLEAN /\ VidCapStop \in BOOLEAN /\ signalquit \in BOOLEAN
  /\ allocated \in BOOLEAN
  /\ used \in [Slots -> BOOLEAN] /\ buf \in [Slots -> Frame]
  /\ r_ind \in Slots /\ w_ind \in Slots
  /\ framecount \in Nat /\ discarded \in Nat
  /\ Vidstarttime \in 0 .. MaxFrames /\ skip_n \in 0 .. MaxSkip
  /\ vpc \in VideoPc /\ vCap \in BOOLEAN /\ vQuit \in BOOLEAN
  /\ frame \in Frame /\ signalled \in BOOLEAN
  /\ grabbed \in 0 .. MaxFrames /\ stamp \in BOOLEAN
  /\ ipc \in IOPc /\ iCap \in BOOLEAN /\ pCap \in BOOLEAN
  /\ loops \in 0 .. MaxLoops /\ n \in 0 .. StallLoops /\ proc \in Frame
  /\ flush_delayed_frames \in BOOLEAN /\ taken \in Nat
  /\ given \in Seq(Frame) /\ packets \in 0 .. Len(given)
  /\ sound \in BOOLEAN /\ av_drift \in -MaxDrift .. MaxDrift
  /\ resetting \in BOOLEAN /\ shifted \in Nat
  /\ gpc \in {"idle", "joining", "quitting"} /\ captures \in 0 .. MaxCaptures

Slot(j) == IF r_ind + j < Size THEN r_ind + j ELSE r_ind + j - Size

Contents ==
  IF allocated THEN [j \in 1 .. Occupancy |-> buf[Slot(j - 1)]] ELSE <<>>

(* The slots flagged used are those from r_ind up to w_ind, no other: the  *)
(* two threads test one flag each and never the indexes of the other.      *)
RingInv ==
  allocated => \A s \in Slots :
                 used[s] <=> \E j \in 0 .. Size - 1 : j < Occupancy /\ s = Slot(j)

(* While a ring is allocated it is a bounded FIFO: no accepted frame is    *)
(* lost, repeated, overwritten or reordered before the ring is freed.      *)
Fifo == INSTANCE FrameFifo WITH
          Capacity <- Size, open <- allocated, queue <- Contents
ImplementsFifo == Fifo!FifoSpec

(* A thread only touches the ring while it is allocated: store_video_frame *)
(* does not look again after its wait, process_video never looks.          *)
NoUseAfterFree ==
  (vpc = "wait" \/ ipc \in {"loop", "process", "peek", "take"}) => allocated

(* The frames of a file are in the order they were grabbed, whatever else  *)
(* was started or stopped in between.  Their times go back by no more than *)
(* av_drift was raised in this capture, by corrections or by the reset: in *)
(* a capture without sound, and as long as the audio is not late, not at   *)
(* all.                                                                    *)
FileInOrder ==
  \A i, j \in 1 .. Len(given) :
    i < j => given[i].id <= given[j].id /\ given[i].ts <= given[j].ts + shifted

(* framecount, from which aviClose works out the frame rate, counts the    *)
(* frames of this capture that were taken or wait in the ring, and those a *)
(* late iteration stored in the ring of a start that failed, no other.  Of *)
(* the frames taken each is in the file or held back by the encoder,       *)
(* except one at most, when it came after the flush had begun.             *)
InHand == IF ipc = "encode" THEN 1 ELSE 0
Lost == taken - InHand - Len(given)
WrittenOnce == VidFormat = "MKV" \/ MaxDrift = 0
FramecountExact ==
  ipc \in IOPc \ {"none", "init", "open", "finish"} =>
    /\ framecount = taken + Occupancy + discarded
    /\ WrittenOnce => Lost \in 0 .. (IF flush_delayed_frames THEN 1 ELSE 0)

(* Once the user has stopped a capture the join of the IO thread ends,     *)
(* even when the camera delivers nothing any more.                         *)
StopCompletes == (gpc = "joining") ~> (gpc = "idle")

(* A frame in the ring of a running IO loop is taken by it, unless the     *)
(* loop ends first.                                                        *)
FramesProcessed ==
  \A k \in 1 .. MaxFrames :
    (ipc = "loop" /\ \E s \in Slots : used[s] /\ buf[s].id = k)
      ~> (proc.id = k \/ ipc = "close")

(* "wait for flag from video thread that recording has stopped": when the  *)
(* wait ends before its timeout, main_loop is not about to store a frame.  *)
HandshakeMeansStopped ==
  (ipc = "free" /\ n > 0) => ~(vCap /\ skip_n = 0 /\ vpc \in {"grab", "flag", "store", "wait"})

(* "all frames processed and no longer capturing so finish": the IO loop   *)
(* ends with an empty ring and an empty encoder, if the iterations it is   *)
(* allowed after the stop cover a full ring, a late frame and what the     *)
(* encoder holds back; each iteration they fall short by costs one frame   *)
(* at most.                                                                *)
Shortfall ==
  IF MaxLoops >= Size + Delay + 1 THEN 0 ELSE Size + Delay + 1 - MaxLoops
FinishedMeansProcessed ==
  [][ipc # "close" /\ ipc' = "close"
       => Occupancy' + (Len(given') - packets') <= Shortfall]_vars

=============================================================================
