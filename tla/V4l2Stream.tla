----------------------------- MODULE V4l2Stream -----------------------------
(***************************************************************************)
(* The camera: uvcGrab and restart_v4l2 of the video thread over the       *)
(* buffers of the V4L2 driver, and the settings the GTK thread asks for    *)
(* with unlocked flags (setFPS, setJPEGCOMP, change_res).                  *)
(*                                                                         *)
(* A step of the video thread makes at most one access to what the two     *)
(* threads share.  The driver is external: it refuses what the V4L2 API    *)
(* says it refuses, and fills the buffers in the order they were queued.   *)
(***************************************************************************)
EXTENDS Integers, Sequences, FiniteSets, SequencesExt

CONSTANTS
  NB_BUFFER,    (* the buffers of the driver                                *)
  Sizes,        (* resolutions (with their format)                          *)
  Rates,        (* frame rates, and JPEG qualities                          *)
  InitSize, InitRate,   (* those of the command line                        *)
  Methods,      (* capture methods considered: of "mmap", "read"            *)
  Haste,        (* TRUE: a setting may be changed while the last change is  *)
                (* still to be made                                         *)
  CanFail,      (* the calls that may fail                                  *)
  MaxFailures,  (* bound: those that do, each of them once                  *)
  MaxRequests   (* bound: the settings that are changed                     *)

Calls == {"enable", "disable", "dequeue", "queue", "query", "map", "request",
          "format", "apply", "decode", "overlay"}

ASSUME NbAssumption == NB_BUFFER \in Nat \ {0}
ASSUME SizesAssumption == Sizes \subseteq Nat \ {0} /\ InitSize \in Sizes
ASSUME RatesAssumption == InitRate \in Rates
ASSUME MethodsAssumption == Methods \subseteq {"mmap", "read"}
ASSUME HasteAssumption == Haste \subseteq BOOLEAN
ASSUME FailAssumption == CanFail \subseteq Calls
ASSUME BoundsAssumption == MaxRequests \in Nat /\ MaxFailures \in Nat

VARIABLES
  on, requested, queue, done,         (* the driver: streaming, with buffers, *)
  dsize, drate, dquality,             (* those to fill and filled; its values *)
  cap_meth, isstreaming, mem, index,  (* vdIn: index is that of buf           *)
  timestamp,                          (* "none" is 0, "old" and "new": of an  *)
                                      (* earlier frame or of this iteration's *)
  setFPS, setJPEGCOMP, quality, signalquit,
  size, fps, change_res,              (* global: width, height, format; fps   *)
  lsize, framebuffer,                 (* the locals of main_loop; the size    *)
                                      (* the frame buffer is for, 0: NULL     *)
  quit, change, vpc,                  (* the video thread                     *)
  gpc, hasty, requests,               (* the GTK thread                       *)
  failed                              (* the calls that have failed           *)

driver == <<on, requested, queue, done>>
values == <<dsize, drate, dquality>>
device == <<cap_meth, isstreaming, mem, index, timestamp>>
flags == <<setFPS, setJPEGCOMP, change_res, signalquit>>
wanted == <<size, fps, quality>>
frame == <<lsize, framebuffer>>
local == <<quit, change>>
gtk == <<gpc, hasty, requests>>
vars == <<driver, values, device, flags, wanted, frame, local, vpc, gtk, failed>>

Buffers == 0 .. NB_BUFFER - 1
Mapped == {i \in Buffers : mem[i] = "mapped"}
WithDriver == ToSet(queue) \cup ToSet(done)

At(step) == vpc = step
Goto(step) == vpc' = step
Running == ~At("crashed")
Fails(call) ==
  /\ call \in CanFail \ failed /\ Cardinality(failed) < MaxFailures
  /\ failed' = failed \cup {call}
Succeeds == UNCHANGED failed

(* init_videoIn has succeeded: the buffers are mapped and queued.          *)
Init ==
  /\ on = FALSE /\ done = <<>> /\ signalquit = FALSE
  /\ cap_meth \in Methods /\ requested = (cap_meth = "mmap")
  /\ queue = (IF requested THEN [i \in 1 .. NB_BUFFER |-> i - 1] ELSE <<>>)
  /\ mem = [i \in Buffers |-> IF requested THEN "mapped" ELSE IF i = 0 THEN "heap" ELSE "none"]
  /\ size = InitSize /\ dsize = size /\ lsize = size /\ framebuffer = size
  /\ fps = InitRate /\ drate = fps /\ quality = InitRate /\ dquality = quality
  /\ isstreaming = FALSE /\ index = 0 /\ timestamp = "none"
  /\ setFPS = FALSE /\ setJPEGCOMP = FALSE /\ change_res = FALSE
  /\ quit = FALSE /\ change = "none" /\ vpc = "top"
  /\ gpc = "idle" /\ hasty \in Haste /\ requests = 0 /\ failed = {}
-----------------------------------------------------------------------------
(***************************************************************************)
(* The calls of the driver and what the code records of them.              *)
(***************************************************************************)

(* VIDIOC_STREAMON needs buffers; reading needs no stream.                 *)
StreamOn ==
  \/ cap_meth = "read" /\ isstreaming' = TRUE /\ Succeeds /\ UNCHANGED on
  \/ cap_meth = "mmap" /\ requested /\ on' = TRUE /\ isstreaming' = TRUE /\ Succeeds
StreamOnFails ==
  /\ cap_meth = "mmap"
  /\ Fails("enable") \/ (~requested /\ Succeeds)
  /\ UNCHANGED <<on, isstreaming>>

(* VIDIOC_STREAMOFF takes every buffer from the driver.  If it fails the   *)
(* stream goes on.                                                         *)
StreamOff ==
  \/ cap_meth = "read" /\ isstreaming' = FALSE /\ Succeeds /\ UNCHANGED <<on, queue, done>>
  \/ /\ cap_meth = "mmap" /\ Succeeds
     /\ on' = FALSE /\ queue' = <<>> /\ done' = <<>> /\ isstreaming' = FALSE
  \/ cap_meth = "mmap" /\ Fails("disable") /\ UNCHANGED <<on, queue, done, isstreaming>>

(* unmap_buff leaves the pointers as they are.                             *)
(* Mutant: nothing is unmapped.                                            *)
KeptMapped == mem
Unmapped ==
  IF cap_meth = "mmap" THEN [i \in Buffers |-> IF mem[i] = "mapped" THEN "stale" ELSE mem[i]]
  ELSE mem

MappedAll == [i \in Buffers |-> "mapped"]

(* query_buff maps all the buffers.  EINVAL turns to the read method; a    *)
(* failing mmap leaves the buffers before it mapped.                       *)
QueryAndMap ==
  \/ cap_meth = "read" /\ Succeeds /\ UNCHANGED <<cap_meth, mem, index>>
  \/ /\ cap_meth = "mmap" /\ requested /\ Succeeds
     /\ mem' = MappedAll /\ index' = NB_BUFFER - 1
     /\ UNCHANGED cap_meth
QueryFails ==
  /\ cap_meth = "mmap"
  /\ \/ /\ \/ Fails("query") /\ index' \in Buffers
           \/ ~requested /\ Succeeds /\ index' = 0
        /\ cap_meth' \in {"mmap", "read"}
        /\ UNCHANGED mem
     \/ /\ requested /\ Fails("map")
        /\ \E n \in Buffers :
             mem' = [i \in Buffers |-> IF i < n THEN "mapped" ELSE IF i = n THEN "failed" ELSE mem[i]]
        /\ index' = NB_BUFFER - 1
        /\ UNCHANGED cap_meth

(* queue_buff stops at the first buffer the driver refuses: one that it    *)
(* has already.                                                            *)
(* Mutant: the index is left behind the last buffer.                       *)
IndexBehindLast == NB_BUFFER
IndexAfterQueue == 0

QueueAll ==
  \/ cap_meth = "read" /\ Succeeds /\ UNCHANGED <<queue, index>>
  \/ /\ cap_meth = "mmap" /\ requested /\ WithDriver = {} /\ Succeeds
     /\ queue' = [i \in 1 .. NB_BUFFER |-> i - 1]
     /\ index' = IndexAfterQueue
QueueFails ==
  /\ cap_meth = "mmap"
  /\ \/ /\ requested /\ WithDriver = {} /\ Fails("queue")
        /\ \E n \in Buffers : queue' = [i \in 1 .. n |-> i - 1] /\ index' = n
     \/ /\ requested /\ WithDriver # {} /\ Succeeds
        /\ \E n \in Buffers :
             /\ n \in WithDriver /\ \A i \in 0 .. n - 1 : i \notin WithDriver
             /\ queue' = queue \o [i \in 1 .. n |-> i - 1]
             /\ index' = n
     \/ ~requested /\ Succeeds /\ index' = 0 /\ UNCHANGED queue

(* VIDIOC_REQBUFS with count 0 is refused while the stream is on or a      *)
(* buffer is mapped by m, and its result ignored.                          *)
StillRequested(streaming, m) == requested /\ (streaming \/ \E i \in Buffers : m[i] = "mapped")

(* The driver fills the buffer that was queued first.                      *)
DriverFills ==
  /\ Running /\ on /\ queue # <<>>
  /\ done' = Append(done, Head(queue))
  /\ queue' = Tail(queue)
  /\ UNCHANGED <<on, requested, values, device, flags, wanted, frame, local, vpc, gtk, failed>>
-----------------------------------------------------------------------------
(***************************************************************************)
(* uvcGrab.                                                                *)
(***************************************************************************)
NextTurn == Goto(IF quit THEN "gone" ELSE "top")

(* The loop tests its local copy of signalquit, then refreshes it.         *)
LoopTop ==
  /\ At("top")
  /\ quit' = signalquit
  /\ timestamp' = (IF timestamp = "new" THEN "old" ELSE timestamp)
  /\ Goto("grab")
  /\ UNCHANGED <<driver, values, cap_meth, isstreaming, mem, index, flags, wanted, frame, change, gtk, failed>>

(* If it cannot start uvcGrab returns VDIN_OK, and the loop goes on with   *)
(* what the frame buffer holds.                                            *)
GrabStarts ==
  /\ At("grab") /\ ~isstreaming
  /\ \/ StreamOn /\ UNCHANGED <<signalquit, vpc>>
     \/ StreamOnFails /\ signalquit' = TRUE /\ Goto("frame")
  /\ UNCHANGED <<requested, queue, done, values, cap_meth, mem, index, timestamp>>
  /\ UNCHANGED <<setFPS, setJPEGCOMP, change_res, wanted, frame, local, gtk>>

(* VDIN_SELETIMEOUT_ERR is positive: the loop takes it for a success.      *)
SelectTimeout ==
  /\ At("grab") /\ isstreaming
  /\ done = <<>>
  /\ timestamp' = "none"
  /\ Goto("frame")
  /\ UNCHANGED <<driver, values, cap_meth, isstreaming, mem, index, flags, wanted, frame, local, gtk, failed>>

SettingAsked == setFPS \/ setJPEGCOMP

SelectReady ==
  /\ At("grab") /\ isstreaming
  /\ done # <<>> \/ cap_meth = "read"
  /\ change' = (IF setFPS THEN "rate" ELSE "quality")
  /\ Goto(IF cap_meth = "mmap" THEN IF SettingAsked THEN "s stop" ELSE "dequeue"
          ELSE IF setFPS THEN "s apply" ELSE "dequeue")
  /\ UNCHANGED <<driver, values, device, flags, wanted, frame, quit, gtk, failed>>

(* VIDIOC_DQBUF or v4l2_read; an error ends the iteration, but EAGAIN of   *)
(* the latter passes for a frame.  Into a buffer that was unmapped nothing *)
(* can be read.                                                            *)
Dequeue ==
  /\ At("dequeue")
  /\ \/ /\ cap_meth = "mmap" /\ Succeeds
        /\ index' = Head(done) /\ done' = Tail(done)
        /\ timestamp' = "new" /\ Goto("requeue")
     \/ /\ cap_meth = "read" /\ Succeeds
        /\ timestamp' = "new" /\ Goto("decode") /\ UNCHANGED <<index, done>>
     \/ /\ cap_meth = "mmap" /\ Fails("dequeue")
        /\ NextTurn /\ UNCHANGED <<index, done, timestamp>>
     \/ /\ cap_meth = "read" /\ (Fails("dequeue") \/ (mem[index] # "heap" /\ Succeeds))
        /\ timestamp' = "new" /\ (NextTurn \/ Goto("frame")) /\ UNCHANGED <<index, done>>
  /\ UNCHANGED <<on, requested, queue, values, cap_meth, isstreaming, mem, flags, wanted, frame, local, gtk>>

(* The buffer is the driver's again before its frame is decoded.           *)
(* Mutant: it is kept.                                                     *)
KeptBuffer == queue
GivenBack == Append(queue, index)

Requeue ==
  /\ At("requeue")
  /\ \/ queue' = GivenBack /\ Succeeds /\ Goto("decode")
     \/ Fails("queue") /\ NextTurn /\ UNCHANGED queue
  /\ UNCHANGED <<on, requested, done, values, device, flags, wanted, frame, local, gtk>>

(* frame_decode reads mem[index], however the calls that should have       *)
(* mapped it have ended: whether the program survives that depends on the  *)
(* format, as what an empty buffer (bytesused is 0 after a change of a     *)
(* setting) leaves to be read.  It depends on the format, too, which of    *)
(* the sizes of driver, loop and frame buffer go beyond a buffer.          *)
Readable == mem[index] \in {"mapped", "heap"}
FrameFits == lsize <= dsize /\ dsize <= framebuffer

Decode ==
  /\ At("decode")
  /\ \/ Succeeds /\ Goto("frame") /\ UNCHANGED signalquit
     \/ Fails("decode") /\ signalquit' = TRUE /\ NextTurn
     \/ ~(Readable /\ FrameFits) /\ Succeeds /\ Goto("crashed") /\ UNCHANGED signalquit
  /\ UNCHANGED <<driver, values, device, setFPS, setJPEGCOMP, change_res, wanted, frame, local, gtk>>

(* main_loop filters, stores and displays the frame buffer; what it does   *)
(* with one that is freed or smaller than lsize depends on the options.    *)
UseFrame ==
  /\ At("frame")
  /\ \/ IF change_res THEN Goto("r close") ELSE NextTurn
     \/ lsize > framebuffer /\ Goto("crashed")
  /\ UNCHANGED <<driver, values, device, flags, wanted, frame, local, gtk, failed>>

uvcGrab ==
  LoopTop \/ GrabStarts \/ SelectTimeout \/ SelectReady
  \/ Dequeue \/ Requeue \/ Decode \/ UseFrame
-----------------------------------------------------------------------------
(***************************************************************************)
(* uvcGrab changes a setting: the stream stops, the buffers are mapped and *)
(* queued anew, and no frame is dequeued.  Errors are ignored.             *)
(***************************************************************************)
SettingStops ==
  /\ At("s stop")
  /\ StreamOff
  /\ mem' = Unmapped
  /\ Goto("s apply")
  /\ UNCHANGED <<requested, values, cap_meth, index, timestamp, flags, wanted, frame, local, gtk>>

SettingApplies ==
  /\ At("s apply")
  /\ \/ Fails("apply") /\ UNCHANGED values
     \/ change = "rate" /\ drate' = fps /\ Succeeds /\ UNCHANGED <<dsize, dquality>>
     \/ change = "quality" /\ dquality' = quality /\ Succeeds /\ UNCHANGED <<dsize, drate>>
  /\ Goto("s read")
  /\ UNCHANGED <<driver, device, flags, wanted, frame, local, gtk>>

(* Mutant: the flag stays.                                                 *)
RateFlagStays == setFPS
RateFlagAfter == FALSE

(* The value of the driver is read back; the flag of the rate is cleared.  *)
SettingReadBack ==
  /\ At("s read")
  /\ \/ change = "rate" /\ fps' = drate /\ setFPS' = RateFlagAfter /\ UNCHANGED quality
     \/ change = "quality" /\ quality' = dquality /\ UNCHANGED <<fps, setFPS>>
  /\ Goto(IF cap_meth = "mmap" THEN "s query" ELSE "dequeue")
  /\ UNCHANGED <<driver, values, device, setJPEGCOMP, change_res, signalquit, size, frame, local, gtk, failed>>

SettingQueries ==
  /\ At("s query")
  /\ QueryAndMap \/ QueryFails
  /\ Goto("s queue")
  /\ UNCHANGED <<driver, values, isstreaming, timestamp, flags, wanted, frame, local, gtk>>

SettingQueues ==
  /\ At("s queue")
  /\ QueueAll \/ QueueFails
  /\ Goto("s start")
  /\ UNCHANGED <<on, requested, done, values, cap_meth, isstreaming, mem, timestamp, flags, wanted, frame, local, gtk>>

(* Mutant: the flag of the other setting is cleared too.                   *)
BothFlagsCleared == FALSE
QualityFlagAfter == setJPEGCOMP /\ change # "quality"

SettingStarts ==
  /\ At("s start")
  /\ StreamOn \/ StreamOnFails
  /\ setJPEGCOMP' = QualityFlagAfter
  /\ Goto("decode")
  /\ UNCHANGED <<requested, queue, done, values, cap_meth, mem, index, timestamp>>
  /\ UNCHANGED <<setFPS, change_res, signalquit, wanted, frame, local, gtk>>

Setting ==
  SettingStops \/ SettingApplies \/ SettingReadBack
  \/ SettingQueries \/ SettingQueues \/ SettingStarts
-----------------------------------------------------------------------------
(***************************************************************************)
(* restart_v4l2, when the GTK thread has raised change_res.                *)
(***************************************************************************)
(* video_disable and close_v4l2_buffers: the buffers of the driver, or the *)
(* one to read into.                                                       *)
(* A buffer to read into is freed, and so is a mapping that was left when  *)
(* query_buff turned to the read method.                                   *)
FreesMapping == cap_meth = "read" /\ mem[index] \notin {"heap", "none"}

CrashesOnFree(step) ==
  /\ At(step) /\ FreesMapping
  /\ Goto("crashed")
  /\ UNCHANGED <<driver, values, device, flags, wanted, frame, local, gtk, failed>>

RestartCloses ==
  /\ At("r close") /\ ~FreesMapping
  /\ StreamOff
  /\ framebuffer' = 0
  /\ mem' = IF cap_meth = "mmap" THEN Unmapped ELSE [mem EXCEPT ![index] = "none"]
  /\ requested' = StillRequested(on', mem')
  /\ Goto("r format")
  /\ UNCHANGED <<values, cap_meth, index, timestamp, flags, wanted, lsize, local, gtk>>

RestartFails == signalquit' = TRUE /\ Goto("r end")

(* VIDIOC_S_FMT is refused while buffers are requested.                    *)
RestartFormats ==
  /\ At("r format")
  /\ timestamp' = "none"
  /\ \/ ~requested /\ Succeeds /\ dsize' = size /\ Goto("r apply") /\ UNCHANGED signalquit
     \/ /\ (requested /\ Succeeds) \/ Fails("format")
        /\ RestartFails /\ UNCHANGED dsize
  /\ UNCHANGED <<driver, drate, dquality, cap_meth, isstreaming, mem, index>>
  /\ UNCHANGED <<setFPS, setJPEGCOMP, change_res, wanted, frame, local, gtk>>

(* input_set_framerate: an error is ignored, the rate is read back.        *)
RestartApplies ==
  /\ At("r apply")
  /\ \/ drate' = fps /\ Succeeds /\ UNCHANGED fps
     \/ Fails("apply") /\ fps' = drate /\ UNCHANGED drate
  /\ Goto("r request")
  /\ UNCHANGED <<driver, dsize, dquality, device, flags, size, quality, frame, local, gtk>>

(* VIDIOC_REQBUFS is refused like its count 0.                             *)
RestartRequests ==
  /\ At("r request")
  /\ \/ /\ cap_meth = "mmap" /\ ~on /\ Mapped = {} /\ Succeeds
        /\ requested' = TRUE
        /\ Goto("r query") /\ UNCHANGED <<mem, index, signalquit>>
     \/ /\ cap_meth = "mmap"
        /\ ((on \/ Mapped # {}) /\ Succeeds) \/ Fails("request")
        /\ RestartFails /\ UNCHANGED <<requested, mem, index>>
     \/ /\ cap_meth = "read" /\ Succeeds
        /\ index' = 0 /\ mem' = [mem EXCEPT ![0] = "heap"]
        /\ Goto("r alloc") /\ UNCHANGED <<requested, signalquit>>
  /\ UNCHANGED <<on, queue, done, values, cap_meth, isstreaming, timestamp>>
  /\ UNCHANGED <<setFPS, setJPEGCOMP, change_res, wanted, frame, local, gtk>>

RestartQueries ==
  /\ At("r query")
  /\ \/ QueryAndMap /\ Goto("r queue") /\ UNCHANGED <<requested, signalquit>>
     \/ QueryFails /\ requested' = StillRequested(on, mem') /\ RestartFails
  /\ UNCHANGED <<on, queue, done, values, isstreaming, timestamp>>
  /\ UNCHANGED <<setFPS, setJPEGCOMP, change_res, wanted, frame, local, gtk>>

(* A buffer that cannot be queued gives all of them up.                    *)
RestartQueues ==
  /\ At("r queue")
  /\ \/ QueueAll /\ Goto("r alloc") /\ UNCHANGED <<requested, mem, signalquit>>
     \/ /\ Fails("queue")
        /\ queue' = <<>> /\ mem' = Unmapped /\ requested' = FALSE
        /\ index' \in Buffers
        /\ RestartFails
  /\ UNCHANGED <<on, done, values, cap_meth, isstreaming, timestamp>>
  /\ UNCHANGED <<setFPS, setJPEGCOMP, change_res, wanted, frame, local, gtk>>

(* The frame buffer; a stream that does not start is retried by uvcGrab.   *)
RestartStarts ==
  /\ At("r alloc")
  /\ framebuffer' = size
  /\ StreamOn \/ StreamOnFails
  /\ Goto("r end")
  /\ UNCHANGED <<requested, queue, done, values, cap_meth, mem, index, timestamp, flags, wanted, lsize, local, gtk>>

NewSize == size

(* main_loop takes the new size, whatever restart_v4l2 has returned.       *)
RestartEnds ==
  /\ At("r end")
  /\ lsize' = NewSize
  /\ \/ change_res' = FALSE /\ Succeeds /\ NextTurn /\ UNCHANGED quit
     \/ Fails("overlay") /\ quit' = TRUE /\ Goto("gone") /\ UNCHANGED change_res
  /\ UNCHANGED <<driver, values, device, setFPS, setJPEGCOMP, signalquit, wanted, framebuffer, change, gtk>>

restart_v4l2 ==
  \/ RestartCloses \/ CrashesOnFree("r close") \/ RestartFormats \/ RestartApplies
  \/ RestartRequests \/ RestartQueries \/ RestartQueues \/ RestartStarts \/ RestartEnds

VideoThread == uvcGrab \/ Setting \/ restart_v4l2
-----------------------------------------------------------------------------
(***************************************************************************)
(* The GTK thread.                                                         *)
(***************************************************************************)
MayChoose ==
  /\ Running /\ gpc = "idle" /\ requests < MaxRequests
  /\ hasty \/ ~(setFPS \/ setJPEGCOMP \/ change_res)

(* FrameRate_changed; check_changed raises the flag for the same rate.     *)
ChooseRate ==
  /\ MayChoose
  /\ fps' \in Rates /\ setFPS' = TRUE
  /\ requests' = requests + 1
  /\ UNCHANGED <<driver, values, device, setJPEGCOMP, change_res, signalquit, size, quality>>
  /\ UNCHANGED <<frame, local, vpc, gpc, hasty, failed>>

ChooseQuality ==
  /\ MayChoose
  /\ quality' \in Rates /\ setJPEGCOMP' = TRUE
  /\ requests' = requests + 1
  /\ UNCHANGED <<driver, values, device, setFPS, change_res, signalquit, size, fps>>
  /\ UNCHANGED <<frame, local, vpc, gpc, hasty, failed>>

(* resolution_changed, which InpType_changed calls too: the size and the   *)
(* rate first, then the flag.                                              *)
ChooseSize ==
  /\ MayChoose
  /\ size' \in Sizes /\ fps' \in Rates
  /\ gpc' = "chosen"
  /\ requests' = requests + 1
  /\ UNCHANGED <<driver, values, device, flags, quality, frame, local, vpc, hasty, failed>>

RaiseChangeRes ==
  /\ Running /\ gpc = "chosen"
  /\ change_res' = TRUE
  /\ gpc' = "idle"
  /\ UNCHANGED <<driver, values, device, setFPS, setJPEGCOMP, signalquit, wanted>>
  /\ UNCHANGED <<frame, local, vpc, hasty, requests, failed>>

Quit ==
  /\ Running /\ gpc = "idle"
  /\ signalquit' = TRUE
  /\ UNCHANGED <<driver, values, device, setFPS, setJPEGCOMP, change_res, wanted, frame, local, vpc, gtk, failed>>

(* close_v4l2, after the video thread: closing the device frees what is    *)
(* left in the driver.                                                     *)
CloseDevice ==
  /\ At("gone") /\ signalquit /\ ~FreesMapping
  /\ \/ isstreaming /\ StreamOff
     \/ ~isstreaming /\ Succeeds /\ UNCHANGED <<on, queue, done, isstreaming>>
  /\ mem' = IF cap_meth = "mmap" THEN Unmapped ELSE [mem EXCEPT ![index] = "none"]
  /\ requested' = FALSE
  /\ framebuffer' = 0
  /\ Goto("closed")
  /\ UNCHANGED <<values, cap_meth, index, timestamp, flags, wanted, lsize, local, gtk>>

GtkThread ==
  \/ ChooseRate \/ ChooseQuality \/ ChooseSize \/ RaiseChangeRes \/ Quit
  \/ CloseDevice \/ (signalquit /\ CrashesOnFree("gone"))

(* Without a request to quit the program stays when the video thread has   *)
(* gone.                                                                   *)
Terminated == vpc \in {"closed", "crashed"} /\ UNCHANGED vars

Next == DriverFills \/ VideoThread \/ GtkThread \/ Terminated

Spec == Init /\ [][Next]_vars

(* The camera delivers and the video thread runs; RaiseChangeRes is the    *)
(* second half of a handler.                                               *)
Fairness == WF_vars(DriverFills) /\ WF_vars(VideoThread) /\ WF_vars(RaiseChangeRes)

FairSpec == Spec /\ Fairness
-----------------------------------------------------------------------------
(***************************************************************************)
(* Properties.                                                             *)
(***************************************************************************)
Steps == {"top", "grab", "dequeue", "requeue", "decode", "frame",
          "s stop", "s apply", "s read", "s query", "s queue", "s start",
          "r close", "r format", "r apply", "r request", "r query", "r queue",
          "r alloc", "r end", "gone", "closed", "crashed"}

(* Every variable ranges over what its declaration in the code holds; the  *)
(* index of buf is that of a buffer.                                       *)
TypeOK ==
  /\ on \in BOOLEAN /\ requested \in BOOLEAN
  /\ queue \in Seq(Buffers) /\ done \in Seq(Buffers)
  /\ dsize \in Sizes /\ drate \in Rates /\ dquality \in Rates
  /\ cap_meth \in {"mmap", "read"} /\ isstreaming \in BOOLEAN
  /\ mem \in [Buffers -> {"none", "heap", "mapped", "stale", "failed"}] /\ index \in Buffers
  /\ timestamp \in {"none", "old", "new"}
  /\ setFPS \in BOOLEAN /\ setJPEGCOMP \in BOOLEAN /\ change_res \in BOOLEAN /\ signalquit \in BOOLEAN
  /\ size \in Sizes /\ fps \in Rates /\ quality \in Rates
  /\ lsize \in Sizes /\ framebuffer \in Sizes \cup {0}
  /\ quit \in BOOLEAN /\ change \in {"none", "rate", "quality"} /\ vpc \in Steps
  /\ gpc \in {"idle", "chosen"} /\ hasty \in BOOLEAN /\ requests \in 0 .. MaxRequests
  /\ failed \subseteq CanFail

Restarting == vpc \in {"r close", "r format", "r apply", "r request", "r query", "r queue",
                       "r alloc", "r end"}

(* Between two iterations every buffer is the driver's, to fill or filled, *)
(* once: neither a frame nor a change of a setting loses one.  A frame is  *)
(* decoded from a buffer that is mapped (or that was allocated for         *)
(* reading), and what is unmapped or freed is what was mapped or           *)
(* allocated, so that nothing crashes if no size is changed in haste.  All *)
(* hold unless a call for the buffers has failed.                          *)
NoBufferLost ==
  (framebuffer # 0 /\ failed \cap {"query", "map"} = {}) =>
    /\ (vpc \in {"top", "grab"} /\ cap_meth = "mmap" /\ "queue" \notin failed)
         => WithDriver = Buffers /\ Len(queue) + Len(done) = NB_BUFFER
    /\ vpc \in {"top", "dequeue", "decode", "s stop", "r close", "gone"}
         => IF cap_meth = "mmap" THEN Mapped = Buffers ELSE mem[index] = "heap"
    /\ ~hasty => Running

(* When no flag is raised the driver has the values the window shows, if   *)
(* they are not changed in haste, the driver has refused none and no       *)
(* restart has failed; and the loop decodes with the size the frame buffer *)
(* was allocated for and the driver delivers.                              *)
SettingsApplied ==
  (~hasty /\ framebuffer # 0) =>
    /\ (gpc = "idle" /\ ~(setFPS \/ setJPEGCOMP \/ change_res) /\ "apply" \notin failed)
         => dsize = size /\ drate = fps /\ dquality = quality
    /\ vpc \in {"decode", "frame"} => lsize = framebuffer /\ framebuffer = dsize

(* The order in which the stream is stopped, unmapped, released and set up *)
(* again breaks no rule of the driver: a restart fails only if a call that *)
(* should succeed does not, and the loop then has a frame buffer.          *)
RestartWorks ==
  (framebuffer = 0 /\ ~Restarting /\ vpc # "closed")
    => failed \cap {"disable", "request", "format", "query", "map", "queue"} # {}

Starved ==
  \/ signalquit \/ quit \/ cap_meth = "read"
  \/ failed \cap {"queue", "query", "map"} # {}
  \/ hasty /\ ~Running

(* New frames keep coming, whatever else fails, as long as every buffer    *)
(* can be queried, mapped and queued; and settings that were asked for are *)
(* made, also when they are asked for in haste, unless the sizes that      *)
(* haste mixes up crash the program first.                                 *)
FramesKeepComing ==
  /\ (vpc = "top") ~> ((vpc = "decode" /\ timestamp = "new") \/ Starved)
  /\ (setFPS \/ setJPEGCOMP \/ change_res) ~> (~(setFPS \/ setJPEGCOMP \/ change_res) \/ Starved)

(* signalquit is the "video loop exit flag": when a restart has failed the *)
(* loop exits, it does not work on a frame that is not there.              *)
FrameHasBuffer == (vpc = "frame") => framebuffer # 0
=============================================================================
