# Verification of guvcview

TLA+ modules, TLC runs and machine-checked proofs for guvcview 1.7.1, the V4L2
webcam viewer and recorder. Paths are relative to
`src/GUVCVIEW/guvcview-src-1.7.1/src` unless they say otherwise. `PROJECT.json`
lists the components, the runs, one mutant per property, the lines of code each
definition stands for, the hazards and the theorems.

Contents: 1 the system, 2 its components, 3 the modules, 4 the runs, 5 fairness
and environment, 6 the proofs, 7 disagreements found, 8 what is not modelled,
9 the plan.

## 1. The system

One process, up to five threads.

| Thread | Code | Work |
|---|---|---|
| GTK | `guvcview.c` main, `callbacks.c`, `timers.c`, `close.c` | widgets, timers, start and stop of captures, shutdown |
| video | `video.c` main_loop | grabs, filters and displays frames, saves pictures, stores frames in the video ring |
| IO | `create_video.c` IO_loop | takes frames from the ring, encodes them, writes the file |
| audio | `create_video.c` Audio_loop | takes buffers from the audio ring, encodes them, writes the file |
| audio source | `sound.c` record_sound, called by PortAudio or by the thread of `pulse_audio.c` | fills the audio ring |

The threads share the structures of `globals.h`, `v4l2uvc.h` and `sound.h`.
Three mutexes protect parts of them: `__VMUTEX` (videoIn: capVid, VidCapStop,
signalquit), `__GMUTEX` (the video ring) and `__AMUTEX` (pdata: the flags of
the audio buffers). Much is shared without one: capImage, cap_raw and
ImageFName, setFPS and setJPEGCOMP, change_res, width and height, framecount,
skip_n, and often signalquit and VidCapStop themselves.

How the threads meet:

* capture_vid (GTK) creates the IO thread, which sets capVid; the video thread
  reads capVid once per iteration and stores frames; the IO thread takes them.
* A stop clears capVid and joins the IO thread, which runs on until the ring is
  empty or its iterations are used up, then waits for VidCapStop, then frees
  the ring.
* The IO thread starts the audio source and the audio thread, joins the audio
  thread and ends the source.
* shutd (GTK) raises signalquit and joins the video thread, which stops and
  joins a capture that is still running.
* Changes of the camera's settings are flags the video thread looks at: setFPS
  and setJPEGCOMP inside uvcGrab, change_res at the end of an iteration.
* A picture is announced by capImage and a name, and saved by the video thread.
* The IO and the audio thread hand packets to one muxer, under file_mutex; the
  muxer writes through a buffer of its own.
* A slider (GTK) and the autofocus (video thread) set controls of the same
  device; the autofocus is started and reset by the GTK thread, without a mutex.

## 2. Components

**Video ring** (`create_video.c`, `video.c`, `ms_time.c`). State: videoBuff with
a used flag per slot, r_ind, w_ind, capVid, VidCapStop, framecount, skip_n.
Operations: alloc_videoBuff, store_video_frame, process_video, initVideoFile,
closeVideoFile, wait_ms. Hard: two threads that each test one flag of the ring;
a local copy of capVid that outlives the stop; a wait of 10 us that drops the
frame when it is signalled; a hand-over flag that may be stale; 60 iterations
that must suffice. Correct when: it is a FIFO, nobody uses it after it was
freed, the file has the frames in order, a stop ends.

**Audio ring** (`sound.c`, `pulse_audio.c`, `port_audio.c`, `create_video.c`).
State: audio_buff by buffer and chunk, a flag per buffer (READY, IN_USE,
PROCESS, PROCESSING, PROCESSED), four indexes. Operations: record_sound,
fill_audio_buffer, process_audio, init_sound, close_sound. Hard: the contents
are touched without a lock by whom the flag gives them to; one mark is made
outside the mutex and made again at the end; a drop when the next buffer is not
ready. Correct when: one thread owns a buffer, it is a FIFO, drops mean full,
complete buffers reach the file, a stop ends.

**Capture life cycle** (`callbacks.c` capture_vid, `timers.c`, `guvcview.c`,
`close.c`, `video.c` after the loop). State: capVid, one thread handle, the
button, the lock on the controls, two timers and the field disk_timer_id.
Operations: starts and stops by button, key, command line and timers, the disk
check, the shutdown. Hard: dialogs run a main loop inside a handler; a start is
visible to others only when the IO thread has set capVid; two threads may join
one handle. Correct when: one IO thread at a time, joined once, never after the
structures are freed; the button can stop what runs; stops and shutdown end.

**Camera** (`v4l2uvc.c`, the end of main_loop, handlers of settings). State: the
driver's queues, the mappings, index of the last buffer, frame buffer, the
setting flags. Operations: uvcGrab, the two settings made inside it,
restart_v4l2, close_v4l2. Hard: buffers are unmapped, queried and queued
between two frames; any call may fail; a setting is chosen while another one is
made. Correct when: no buffer is lost or used unmapped, frame, buffer and
driver agree on the size, settings are made, frames keep coming.

**Picture capture** (`callbacks.c` capture_image, `timers.c`
Image_capture_timer, `create_image.c`, `string_utils.c`). State: capImage,
cap_raw, ImageFName, image_inc, image_picn. Hard: one string shared without a
mutex. Correct when: what is announced is saved, under its own name, once.

**Encoders** (`vcodecs.c`, `acodecs.c`, `lavc_common.c`). State: codec tables,
delayed_pts with its count and index, the two flush flags. Operations:
encode_lavc_frame, the flush of processVideo. Hard: the stamps of frames that
are held back are exchanged one for one; the array has 50 places. Correct when
each packet has the stamp of its frame and the flush returns every frame.

**File writers** (`file_io.c`, `io_stream.c`, `avilib.c`, `matroska.c`). State:
a buffer with the offset of the file behind it; RIFF parts, index entries,
counters; clusters, cues, seek head, a sound packet kept back. Operations:
io_write_*, io_seek, io_skip, io_flush_buffer; a packet, a new part or cluster,
the close. Hard: what is patched later may still be in the buffer; parts and
clusters are closed between two packets; a packet is written one call late.
Correct when the writer is a random access file whatever the buffer does, and
a reader of the closed file finds every packet by sizes and indexes.

**Camera controls** (`v4l2_controls.c`, `v4l2_dyna_ctrls.c`, `profile.c`).
State: the list of controls with value and flags, the values of the device, a
profile. Operations: a control set or read, all of them class by class,
defaults, profiles. Hard: an automatic control makes the device refuse others,
so the order matters; a class call that fails falls back to single ones; flags
are worked out from values. Correct when what is asked for arrives and the
panel shows what the device has.

**Autofocus** (`autofocus.c`, part of main_loop, two handlers). State: struct
focusData with two arrays of 20 samples. Operations: a frame measured and
decided on, the lens moved, a search asked for, tracking turned on and off.
Hard: both threads write the struct; the range is clipped after each move.
Correct when searches end where the picture is sharpest, indexes keep in the
arrays and tracking does not lose the focus.

**Formats and devices** (`v4l2_formats.c`, `v4l2_devices.c`), **options**
(`options.c`, `globals.c`): tables, lookups and text.

**Processing of frames and sound** (`colorspaces.c`, `utils.c`, `jpgenc.c`,
`huffman.c`, `dct.c`, `quant.c`, `marker.c`, `readYUV.c`, `picture.c`,
`video_filters.c`, `audio_effects.c`, `osd.c`): numerical work of one thread on
data it owns.

**Windows** (`menubar.c`, `video_tab.c`, `audio_tab.c`, `img_controls.c`,
`image_format.c`, `video_format.c`, `snd_devices.c`): widgets. PortAudio and
v4l-utils in the source tree are copies of libraries.

## 3. The modules

| Module | Models |
|---|---|
| `FrameFifo` | what a ring promises: a bounded FIFO that can be opened and closed |
| `VideoRing` | the video ring; implements `FrameFifo` |
| `AudioRing` | the audio ring; implements `FrameFifo` |
| `Capture` | the life cycle of captures and the shutdown |
| `V4l2Stream` | the camera |
| `ImageCapture` | pictures |
| `RandomAccessFile` | what the muxers expect of the writer: cells at an offset |
| `FileWriter` | the buffered writer; implements `RandomAccessFile` |
| `MediaStreams` | the two streams of a file, for the muxers |
| `AviFile`, `MkvFile` | the muxers |
| `LavcQueue` | the time stamps of delayed frames |
| `Autofocus` | the search, the tracking and the handlers that interfere |
| `Controls` | controls, device and profiles |
| `MCControls` | six cameras for `Controls` |
| `MCBench` | the components that work alone, side by side in one instance |
| other `MC*` | the instances of the first five for TLC |
| `VideoRing_proofs`, `AudioRing_proofs`, `Capture_proofs`, `V4l2Stream_proofs`, `ImageCapture_proofs`, `Autofocus_proofs`, `Controls_proofs` | theorems about the module of that name |
| `FileWriter_proofs` | theorems about the way of a packet into a file: `LavcQueue`, `AviFile`, `MkvFile`, `FileWriter` |

The modules meet at capVid, signalquit and the threads that set them. Each one
models in full the threads that touch its own state and keeps of the others
what its state depends on: `VideoRing` and `AudioRing` have one capture after
another, a restriction that `Capture` examines (OneIOThread); `Capture` says of
the IO thread only when it starts, fails, stops and ends; `ImageCapture` and
`V4l2Stream` have of main_loop only the parts that concern them. The muxers are
one above the other with the writer: `AviFile` and `MkvFile` compute offsets and
sizes as the file of `RandomAccessFile` has them, and `FileWriter` has the
writes, patches and seeks of such a caller. `LavcQueue` opens up the delay that
`VideoRing` has as an operator (Encode).

**Atomicity.** A critical section is one action. Outside critical sections an
action makes at most one access to state that another thread may write. A value
read in one action and used in a later one is a local variable of the thread
(`vCap`, `vQuit` in `VideoRing` are the capVid and signalquit of main_loop;
`iCap` and `pCap` those of IO_loop and process_video). `vpc`, `ipc`, `apc`,
`spc` and `gpc` say where a thread is. An action is named after its function or
the part of it that it models: `Store`, `StoreFull`, `RetryStores`,
`RetryDrops` and `SignalDrops` are the outcomes of store_video_frame.

**VideoRing.** A frame is the moment it was grabbed (`id`) and its time: v_ts
while main_loop holds it, `v_ts - av_drift` in the ring (Stamped,
`create_video.c:851`), in units of one frame. process_video moves av_drift by a
frame when sound and picture drift apart (Correct, 776 and 799) and then drops or
repeats the frame in an AVI, and shifts the times of those to come in the other
formats (Times). The clock of the sound device is external: with sound any
correction may come (AudioDrift). Only Audio_loop resets av_drift (948), without
a lock and in its own time (AudioResets, `resetting`); a capture without sound
has the av_drift that the last one left. `shifted` is history: by how much
av_drift was raised in this capture.

The encoder holds back `Delay` frames and returns the others in order (external,
from how encode_lavc_frame uses it). `flush_delayed_frames` stays up once
process_video has raised it (833), so the encoder gets NULL for a frame that a
late iteration of main_loop stores after that (`lavc_common.c:210-213`):
WriteVideoFrame then writes one of those held back, and the late one is lost.

Of time itself the model knows one thing: the 200
polls of 10 ms of wait_ms run out only while the video thread is held up in
uvcGrab or between two frames, not while it stores one, where it waits
microseconds at most (`PollAgain`, `WaitOver`). `discarded` is history: the
frames that were counted and went with a ring that was allocated anew. There
are such frames: an iteration of main_loop that has read capVid before the stop
may end when the next start has allocated its ring and failed to open its file;
its frame lies in that ring, counted, until the start after that.

**AudioRing.** A chunk is a number. Buffers have `BufSize` chunks; position p
is chunk p % BufSize of buffer p / BufSize. `held` says that record_sound waits
for the mutex it holds.

**Capture.** `todo` is the stack of what the GTK thread has begun: a handler
that opens a dialog leaves its remaining steps below those of the handlers the
dialog's main loop calls. `dispatched` has the timers whose callback is on that
stack.

**V4l2Stream.** The driver is external, with the rules of the V4L2 API that the
code can meet: VIDIOC_S_FMT refuses while buffers are requested, VIDIOC_REQBUFS
while one is mapped or the stream is on, VIDIOC_STREAMON and VIDIOC_QBUF without
requested buffers; a buffer the driver has cannot be queued; buffers are filled
in the order they were queued. Values the window offers are accepted as asked,
unless the call is one that fails. A change of a setting ignores what its calls
return and goes on to frame_decode with `mem[index]` whatever it is
(`v4l2uvc.c:1120-1186`): not mapped any more (`stale`), or what a failed mmap
returned (`failed`). Decode may then crash (Readable), and so it may when the
sizes of driver, loop and frame buffer do not fit (FrameFits); whether it does
depends on the format, so both outcomes are there. query_buff turns to the read
method at EINVAL; a later close_v4l2_buffers then gives a mapping to g_free
(1203-1211), which is CrashesOnFree. Nothing follows `crashed`.

**ImageCapture.** A name is the count of its allocation and the number in it. A
picture is saved under the name the video thread found at the start of
store_picture; `dangled` remembers a name that was freed before it was used.

**FileWriter.** A cell stands for the bytes of one call. A caller appends, or
remembers the offset (`resume`), goes back, writes over what is there and
returns; several places in one patch only after a flush, as avi_write_counters
and avi_write_ix do. io_write_buf is several cells one after the other. The
writing without a file and fwrite calls that fail are left out.

**AviFile.** The file is a record: parts with their size fields, the entries
collected since the part began, master indexes, idx1, counters kept and counters
patched in. avi_write_packet is one action with all it causes: empty packets
until dts, the end of a part with its indexes, the new part. `split` marks the
files that avi_write_packet breaks itself (7).

**MkvFile.** As `AviFile`: clusters with blocks, cues, elements of the seek
head; `cached` is the packet kept back. The time of a block is taken modulo the
16 bits it has (RelativeHalf, scaled down).

**LavcQueue.** The stamp of frame n is n. The encoder is external: it holds
back a fixed number of frames and returns the others in order. A stamp that
does not fit overwrites the flag behind the array (Collect). The capture may be
`ending`: capVid is off and the ring was found empty, but main_loop is in an
iteration that has read it as on and may still store one frame, also after the
flush has begun; that frame is not encoded, and counted by the history `lost`.

**Autofocus.** The scene does not move: sharpness is a function of the lens.
`framepc` splits a frame into measuring, deciding and moving, `clickpc` a
handler in two, so that each may fall between the parts of the other. `met`
remembers that they did.

**Controls.** A camera is a sequence of controls, each with a class, a default,
and the automatic control it is under. The device (external) takes a class call
wholly or not at all, refuses read-only controls and those an automatic one
takes care of. Only grabbed controls take no input (Sensitive); a read-only one
does, and set_ctrl leaves at its first line (`v4l2_controls.c:1332`), so the
list keeps a value the device does not have: `moved` is history and says of
which controls, until they are read again. update_widget_state goes round while
there is a next control (559), so the last one is sensitive in any case. Values
a failed read leaves uninitialised are `Junk`. `crashed` stands for a NULL that
was dereferenced; nothing follows it. A loop over the list is a recursive
function of the number of controls passed: SetStep, GetStep and DefaultStep are
the bodies, with what the loop carries from one control to the next (`batch`,
the ones collected since the last class call; `skip`, the second step over the
list that a read-only control causes).

## 4. The runs

| Run | Shows |
|---|---|
| `video_ring` | the safety of the ring over three captures, with skipped frames, failed grabs, starts that fail and a shutdown |
| `video_live` | stops end, frames are taken, the end of the loop means an empty ring |
| `video_handshake` | a disagreement, see 7 |
| `audio_ring` | safety and liveness of the audio ring under both APIs |
| `audio_skip` | a disagreement, see 7 |
| `capture` | safety and liveness of captures and shutdown |
| `capture_disk`, `capture_shutdown` | disagreements, see 7 |
| `device` | safety and liveness of the camera |
| `device_restart` | a disagreement, see 7 |
| `bench` | seven machines that work alone, one per initial state (`part`): pictures are saved under names in use; the writer is a random access file; AVI and Matroska files read back as what was written; delayed frames keep their stamps; settings arrive and the panel shows them; the autofocus ends at its best sample |
| `controls_defaults` | a disagreement, see 7 |

**Bounds.**

* `video_ring`: 2 slots, so full, empty and wrapped all occur; 3 frames wrap the
  ring; av_drift one frame from 0 in either direction, and so back by two; a
  Matroska file, where the drift shifts times; 3 captures, so state left by the
  first meets a second that fails, and what that one leaves meets the third
  (LastStart follows the third only if frames were thrown away with the ring of
  the second, which is what a third start can add); an encoder that holds back 1
  frame; 2 iterations after the stop, so that the loop
  may also end for lack of them. The theorems lift every property of the run to
  all values.
* `video_live`: one capture into an AVI, where frames are dropped and repeated;
  MaxLoops = 3, one less than Size + Delay + 1, so Shortfall is 1: the run has
  loops that finish and loops that are cut off. LoopDrains proves
  FinishedMeansProcessed for all values. In the code the number is 60 and the
  ring has 1.5 s of frames: 45 slots at 30 fps, which leaves room for encoders
  that hold back 14 frames; at 60 fps, with 90 slots, a full ring may be cut off
  by up to 31 + Delay frames.
* `audio_ring`: 2 buffers of 2 chunks (80 of 2 in the code), 6 chunks: one
  whole turn and a half. The theorems lift all but StopCompletes.
* `capture`: 2 IO threads and 2 open dialogs: the overlap of a capture with the
  next, a dialog inside a dialog. MaxThreads bounds the starts. The theorems
  lift the four invariants to any number of both.
* `device`: 2 buffers, 2 sizes, 2 rates, 2 changes, so that one is made while
  the other is waiting, and one failing call of any of eleven kinds; crashes of
  both kinds are reached. The
  theorems lift the four invariants.
* `bench`, pictures: 3 names, a timer of 2 pictures that may be started with the
  program, both kinds of formats; the theorems lift the three properties.
* `bench`, writer: a buffer of 3 cells and a file of 5, so patches lie in the
  buffer, on the file, and a buffer fills during one; the theorem lifts it.
* `bench`, AVI: 5 chunks of 3 or 8 bytes (odd and even), parts of 40 bytes,
  room for 2 parts in the master index: files of one, two, three and four parts,
  one more than it has room for, and dts up to 2 packets ahead; the theorems lift
  AviPatched and AviIndex.
* `bench`, Matroska: 4 packets, sizes scaled so that a cluster ends for its
  size and for a keyframe (the third reason, 5 MB, implies the first) and a
  block's time overflows; equal and growing stamps; the theorems lift MkvBlocks
  and MkvCues.
* `bench`, stamps: encoders that hold back 0, 1, all 3 places and one frame
  more; 9 frames are three turns of the array, the last of them late or not; the
  theorem lifts StampsFollow.
* `bench`, focus: 7 positions, a hill and a scene of two hills with flat sides, on
  which the focus is lost, 2 clicks: one during the work for the other. i_step is
  2, a coarse step 4, a fine one 1, so FineMeetsCoarse holds; the theorems lift
  FocusIsBest and TrackKeepsSharp to all ranges and scenes.
* `bench` and `controls_defaults`: six cameras (`MCControls`) with two and
  three classes, automatic controls before and after what they rule, controls
  that cannot be read or written, an automatic one that is read-only among them,
  and every value the device may start with:
  Values, which is all that any of their controls can have. All six are
  OrderlyAutos (OrderlyCameras, an ASSUME that TLC evaluates), so the theorems
  lift SettingsArrive and PanelShowsDevice from them to all such cameras.

**Mutants.** Every property of a passing run has a mutant: a definition of the
model changed as a plausible error of the code would change it, with which TLC
finds the property violated. They are in the modules, marked "Mutant".

**Deadlock** is checked by video_ring, video_live and video_handshake, where
Terminated is the only way to stop, and by the two runs about `Capture` that
state a disagreement. It is not checked where the program may really stop: the
mutex that record_sound locks twice (`audio_ring`, `audio_skip`), a join that
waits for ever after two starts in a row (`capture`), a video thread that has
ended while the program waits for the user, a file that was closed, a bound that
was reached (`device`, `bench`, `controls_defaults`).

## 5. Fairness and environment

*Weak fairness of a thread*: the scheduler runs a thread that can run, and a
mutex is given to a thread that waits for it. This is all that `VideoRing`,
`AudioRing` and `Capture` assume, and only of threads, of joins that are
enabled and of the second half of a stop that has begun. Nothing makes the user
press a button or the camera deliver a frame: `VideoRing` lets every grab fail.

*The driver* in `V4l2Stream` fills a buffer that stays queued (weak fairness of
DriverFills): a streaming camera delivers. `Autofocus` (FocusFairness) assumes
that frames keep coming to the video thread and that a handler that has begun
goes on; not that anybody clicks. The other modules state safety only.

*Environments.* Where the code is right only if the user or a timer is slower
than a thread, the module has both environments and the property says for which
it holds. `patient` in `Capture`: no event between the click that starts a
capture and the moment the IO thread has set capVid, none while a dialog waits
(events that come from the program itself do happen). `patient` in
`ImageCapture`: no grab fails, the timer is slower than a frame, and the
numbering of files is not changed while a picture is to be taken. `hasty` in
`V4l2Stream`: a setting may be changed while the last change is still to be
made. The runs explore the hasty environments as well: NotReentered,
NoBufferLost, RestartWorks and FramesKeepComing hold in all of them. In
`Autofocus` FocusSettles holds whatever the threads write over each other;
FocusIsBest and TrackKeepsSharp leave out the rounds in which they met.

## 6. The proofs

`tlapm` checks the eight `*_proofs` modules. The assumptions are the ASSUMEs of
the modules they are about, which TLC evaluates as well: numbers are numbers,
sizes are large enough (a ring has a slot, the audio ring two buffers, the
writer's buffer two cells, a frame some time), sets have the right elements, the
range of the focus is not empty and not negative, a default is in the range of
its control, and the list of controls is sorted by class, as the driver
enumerates it. Nothing relates the bounds to each other; the theorems about
`Controls` are about cameras that are OrderlyAutos, and say so. What an operator
computes from sequences, positions and stacks is a lemma of its own; where a
handler loops, the model has a recursive function, and the lemma is proved by
induction over the set of the numbers for which it holds (NatInductionOnSet,
FunctionByRecursion, from the well-foundedness of < on Nat), as the library's
induction theorems take operators, which no prover here can instantiate; the
proof that a step keeps an invariant has one step per action or per group of
actions with the same effect.

**VideoRing.**

* **TypeCorrect** (TypeOK) is not inductive: `loops` stays in its range because
  the loop ends when it reaches 0 (LoopsLeft), and Vidstarttime because it is a
  time that has passed (StartedInThePast).
* **RingCorrect** (RingInv). The used slots are those from r_ind up to w_ind.
  Stronger by TakesUsed: the slot process_video takes is still used when it takes
  it, because only the IO thread releases slots. The lemmas give the position of a
  slot from the read index and how Store and TakeFrame shift it.
* **RingIsFifo** (ImplementsFifo). StoreIsPut and TakeIsTake show that these
  actions are Put and Take of `FrameFifo`; all others are a stutter, an opening
  or a closing.
* **RingAccess** (NoUseAfterFree), from CaptureFlag (capVid is up only in the
  loop, and an iteration that read it as down knows that it stays down),
  RingThere and Handshake: a thread that waits for a slot has cleared VidCapStop
  and holds up the polling of closeVideoFile, and the one iteration that may come
  late finds a free slot, so it does not begin to wait. This is why the stale flag
  of `video_handshake` costs a frame and nothing worse.
* **CountExact** (FramecountExact), from CountInv and LossInv. Between captures
  nothing is given, and what was counted is in the ring of a start that failed or
  was discarded with it. A flush begins with an empty ring after capVid is off, so
  what can still come is the frame of one late iteration: the frames lost, the
  frame in hand, the ring and the late iteration are 1 together at most.
* **FileOrdered** (FileInOrder), from OrderInv: file, frame in the encoder's
  hand, ring and frame in the video thread's hand are in the order in which they
  were grabbed, none is later than now, and a time goes back behind an earlier one
  by no more than `shifted`. The frame main_loop holds has not had av_drift taken
  off yet, so it is compared with what remains, `shifted - av_drift`. A lost
  reset of av_drift, or one that comes late, changes this only in the way that
  `shifted` records. FirstFrame is what the reset of Vidstarttime needs.
* **LoopDrains** (FinishedMeansProcessed), from DrainInv: once an iteration has
  seen the stop, the iterations left and Shortfall together are no fewer than
  Work: the ring, the frame in hand, that of a late iteration of main_loop, and
  what the encoder holds back (at most Delay before the flush has begun). A late
  frame takes the one iteration in which it is lost. There is no condition on
  MaxLoops: what it falls short of is what may be left.

**AudioRing.** The invariant AudioInv is built up.

* **BuffersOwned** (OneOwner) and **AudioTypes** (TypeOK), from the types, from
  PhaseInv (what the position of the IO thread says of the others) and OwnerInv:
  a buffer is the audio thread's while it is marked PROCESS or PROCESSING and the
  source's while it is not.
* **DropsWhenFull** (DropMeansFull). RingInv: the ring of buffers is one ring of
  BufNum * BufSize chunks, used from the read position on. FreeInv: a buffer that
  is not marked is empty, except for what the source has put into the one it
  fills. FilledInv: a marked buffer is full, except for what was read of it.
* **AudioIsFifo** (ImplementsFifo): a chunk stored is a Put at the end of
  Contents, a chunk written a Take at its head.
* **BuffersKept** (StopKeepsBuffers), from CountInv and StopInv: what was
  promised at the stop and is not written is in marked buffers, and Audio_loop
  only thinks that the capture is over when it is, so it ends with iterations left
  only when no buffer is marked.

**Capture.**

* **CaptureTypes** (TypeOK) and **EntersOnce** (NotReentered), from EntryInv: on
  the stack of the GTK thread nothing that may enter capture_vid is above another
  capture_vid, a dialog needs a display, and the disk checks on the stack
  are those dispatched (StackInv); a disk check that is not dispatched is the one
  of disk_timer_id (TimerInv). The numbers of threads and dialogs play no part.
* **OneIOThreadAlways** (OneIOThread) and **FreedLast** (NoUseAfterFree), from
  PatientInv, which holds in a patient environment only: the stack has one of a
  few shapes; the thread that lives is the one of the handle and has not been
  joined (HandleInv); while a capture starts nobody can stop it (StartInv); a
  thread without capVid is starting or being joined (StopInv); the video thread
  ends before the structures are freed (ShutdownInv).

**V4l2Stream.**

* **CameraTypes** (TypeOK): a frame is dequeued only when select found one.
* **RestartSound** (RestartWorks), from SetupInv: which of the buffers and the
  stream are there at each step of a restart, unless one of six calls failed.
* **SettingsReachDriver** (SettingsApplied), from SettingInv: at most one flag is
  up, from the choice to the last step of its change, so nothing the GTK thread
  chooses falls between the call and the clearing of the flag. This is what
  `hasty` breaks.
* **BuffersNotLost** (NoBufferLost), from MapInv (where in a change or a restart
  the buffers are unmapped), HeldInv (the driver's queues together hold every
  buffer once; between a dequeue and its requeue every one but `index`) and
  RunsInv: without haste nothing crashes, because when a frame is decoded the
  buffer is readable and the three sizes are one (FrameIsSound), unless a query or
  a mapping has failed.

**The other components.**

* **ImageTypes** ([]TypeOK of `ImageCapture`), from TypeInv: that a number for the
  next file can always be found needs a bound on those of the files saved.
* **NoneLost**, **NameNotFreed** (NoPictureLost, NameInUse). The inductive
  invariant SaveInv: only the picture named last may be missing, and
  only while capImage is up; from store_picture to the clearing of the flag the
  name is the one being saved. It needs the order of main_loop (save, then
  clear) and the test of the flag in capture_image.
* **LastPictureSaved** (SavedAtExit), from SaveInv and QuitInv: an
  iteration that saw signalquit looks at capImage after nothing can raise it.
* **WriterInvariant** ([]WriterInv). WriterInv is WriterTypeOK and PatchKept.
  Types alone are not inductive: that the buffer pointer keeps inside
  the buffer when a patch returns needs PatchKept, which says that either all up
  to the remembered offset is on the file, or the patch began in the buffer and
  what the file does not have is still in it. OnFile makes it hold: a seek into
  what the file has flushes first.
* **WriterIsFile** (ImplementsFile). WriteIsPut and SeekIsMove show
  it for every caller's step under the mapping FileCells (the buffer over the
  disk), FileLength, io_get_offset; a write is Put and a seek is Move, also when
  it flushes, because a flush changes no cell of FileCells.
* **AviSizes**, **AviSeeks**, **AviTypeCorrect** (AviPatched, AviIndex,
  AviTypeOK), from **AviInvariant** ([]AviInv). The properties are about closed
  files; AviInv says what they rest on while a file is open. SafeOK holds of all
  files: the entries that are kept are in order and lie between the last movi
  and the end, and packet_count and strm_length are the cardinalities of the
  sets of chunks and bytes they count. Layout holds of all files but those that
  are `split`: the parts before the last are closed and adjoin (PartsOK), the
  chunks lie in the movi list of their part, one behind the other (PlacedOK),
  the entries that are kept find the chunks of the last part, and the indexes
  that were written those of the others (IndexOK). The empty packets of one
  avi_write_packet are an induction of their own (CatchUp): if one of them
  closes a part, `split` is set. So is the merge of idx1 (Merged): after k turns
  the first k entries have been taken, k1 of one stream and k - k1 of the other,
  and every one of them comes before all that are left. HeaderSize >= 20 is
  needed, the five fields before the first movi; avi_create_riff_header writes
  many more.
* **MkvReadBack**, **MkvSeeks**, **MkvTypeCorrect** (MkvBlocks, MkvCues,
  MkvTypeOK), from **MkvInvariant** ([]MkvInv). FileOK says of the open file that
  it holds the first n packets: the clusters adjoin, and only the last may be
  open (ClustersOK); their blocks carry the numbers 1 to n without a gap (IdsOK);
  a block's time is that of its packet while it is in reach of 16 bits (BlocksOK);
  the cue of a keyframe is the one whose number is how many keyframes there are
  up to it (CuesOK). n is Len(written) - Len(cached): the packet kept back is the
  last one, a sound packet (CachedOK). It is why a cue holds for the sound packet
  before the keyframe: Released puts it into the cluster that the keyframe goes
  to, because the cluster was ended, if at all, before it.
* **StampsInArray** ([]LavcTypeOK) and **StampsAreRight** (StampsFollow), from
  QueueInv: the frames held back are the ones behind the packets, in order, and
  the stamp k places from the oldest, going round the array, is that of the k-th
  of them. An encoder holds as many as it holds back before it returns one
  (CaptureInv), so the array does not grow while it is in use. A frame passed in
  the flush is exchanged for the oldest stamp like any other, but has no packet;
  there is one at most, because only an `ending` capture has one.
* **FocusTypes** (the lens keeps to its range, the samples have positions). The
  range of `focus` is not inductive while the threads meet; that of the lens is.
* **TrackingKeepsSharp** (TrackKeepsSharp), from TrackInv: where a round began
  is kept, and the sharpness remembered for each side is that of the scene there.
* **SearchFindsBest** (FocusIsBest), from ThreadInv (as long as the threads
  have not met, the lens is where focus says) and SearchInv: the best coarse
  sample is still ahead of the fine ones, or some sample is as sharp.
* **SettingsAreSet**, **PanelIsTrue**, **ControlsTypeCorrect** (SettingsArrive,
  PanelShowsDevice, ControlsTypeOK), from **ControlsInvariant** ([]ControlsInv).
  Neither property is inductive. The panel may show junk for the classes that
  are not read, but of every automatic control, of whatever class, the flags
  must follow the value it shows, or the wrong controls would be grabbed
  (ShowsAuto in ShowsAll). The controls that the user moved and that cannot be
  set are excepted (`gone`), except that the flags follow the device also under
  those if they are of a class that is read: set_ctrl has touched no flag
  (Grabs). Reading leaves of `moved` the last control at most, which no loop
  reads (RefreshedShowsAll); a profile lists controls in the order of the camera
  (ItemLists), without which a class would be sent in pieces. Each loop has an
  invariant of its own, proved by induction over the controls passed (Loops,
  LoopStays): the batch holds all controls of the class since it began (Setting,
  Reading), and what was sent before has arrived or is refused. A class call
  that is refused is repeated one by one, and there an automatic control that
  comes first decides whether the ones it rules are refused; one that comes
  later must be off before, which is why disable_special_auto is called.

  The hypothesis, OrderlyAutos, says of a camera that its automatic controls can
  be read, that those of the two kinds that disable_special_auto knows
  (`v4l2_controls.c:548`) can be set, and that one behind a control that it
  rules is of these kinds, lets go of that control at 0, is not itself under
  another one and does not come directly behind a read-only one, which would
  make set_default_values step over it. The two are FOCUS_AUTO and HUE_AUTO,
  whose controls have lower ids, as the comment there says; all other automatic
  controls of V4L2 come first. The code is wrong about other cameras: if an
  automatic control cannot be read, the panel grabs by a value that the device
  may not have; if it comes later and is not turned off, Defaults is refused
  what it sets back.

**What attempts to prove showed.** FramecountExact did not hold without
`discarded`, for the late frame of 3; it takes three captures to see it, which
the run has now. FileInOrder is not true of the times without `shifted`: a
correction that raises av_drift gives the next frame the time of the one before
it or an earlier one, and a reset of a negative av_drift does the same. The
decision of checkFocus between the two sides (`autofocus.c:325-337`) had been
modelled with left and right exchanged in one case. FocusIsBest is not true of
every range, see FineMeetsCoarse in 7.

**Only model-checked.** Liveness (StopCompletes, FramesProcessed, StopsComplete,
FramesKeepComing, FocusSettles), which, as ENABLED, is out of reach of the
prover. Of TypesOK of `MCBench`, which joins the types of seven modules, only
what FocusTypes leaves of FocusTypeOK (which values focus and step have, and
that a search never takes more than 20 samples); the other types are proved,
each for its module. The limit of the samples is not true of every range: at a
step of 1 it takes more in ranges of 80 to 95, 119 to 127, 158 and 159 values,
and the guard (`autofocus.c:371`) is not executed; for the others it depends on
what a handler leaves that is slow between two of its assignments. The six
disagreements of 7 are statements about one instance each.

## 7. Disagreements found

Each of the first six is a run that TLC must find violated.

1. `video_handshake`: VidCapStop may still be set from before the capture, so
   the wait of closeVideoFile (`create_video.c:393`) can end while the video
   thread is about to store a frame. The ring is freed under the mutex and
   store_video_frame tests for it, so the frame is lost and nothing else.
2. `audio_skip`: record_sound locks the mutex twice (`sound.c:165`), and the
   stop hangs.
3. `capture_disk`: disk_timer_id is stale after a capture that could not be
   started (`timers.c:258`), and the next one has no disk check.
4. `capture_shutdown`: a shutdown while the IO thread is starting neither stops
   nor joins it (`video.c:587`).
5. `device_restart`: after a restart that failed, main_loop works once more on
   a frame buffer that is NULL (`v4l2uvc.c:1241`).
6. `controls_defaults`: "sets all controls to default values", but the loops
   stop at the last control of the list, and its class is only set and read when
   a control of the next class follows (`v4l2_controls.c:1192`). SettingsArrive
   and PanelShowsDevice say what holds for the classes that are handled.

Read in the code, not the subject of a run of their own:

* store_video_frame waits 10 us where its comment says 100 ms, and drops the
  frame when the IO thread signals a free slot (`create_video.c:911-928`);
  SignalDrops models it.
* FrameRate_changed describes a value 2 of setFPS that nothing sets
  (`callbacks.c:1435`).
* A failed VIDIOC_STREAMON and a change of a setting make uvcGrab return
  VDIN_OK with the frame and time stamp of before; `timestamp` = "old" models
  it.
* av_drift is reset by Audio_loop only (`create_video.c:948`). A capture without
  sound finds what the last one with sound left there; audio_drift and max_drift
  are 0 then, so every frame of an AVI is doubled (av_drift > 0) or dropped
  (av_drift < 0) until a capture with sound (`create_video.c:769-815`). The times
  of an MKV are shifted by it. The time stamps are unsigned 64-bit numbers and
  wrap when av_drift exceeds v_ts.
* Frames are lost at the end of a file in two ways: the frame that a late
  iteration stores when the flush has begun is encoded as NULL
  (`create_video.c:833`, `lavc_common.c:210-213`), and a ring of more than 59
  slots less the delay of the encoder may be cut off after 60 iterations
  (`create_video.c:1064`), as rates of 40 frames a second and more have it.
* After a change of the rate or compression in which a query or a mapping has
  failed, the next frame is decoded from a buffer that is not mapped
  (`v4l2uvc.c:1124-1186`, 891). EINVAL turns to the read method, whose
  close_v4l2_buffers gives a mapping to g_free (1203-1211). A size chosen while
  the last one is being set up may leave the frame buffer smaller than the frame
  decoded into it. NoBufferLost says when none of this happens.
* A read-only control has a sensitive widget (`v4l2_controls.c:621`): moved, it
  shows a value the device does not have (1332) until all are read again after
  Defaults or a profile. The last control of the list is neither greyed
  when grabbed nor refreshed (559), and never read again by the loops, so a
  read-only one keeps for ever what the user made of it.
* A control is grabbed by `|= GRABBED` and released by `&= !(GRABBED)`, which
  clears every flag (`v4l2_controls.c:385` and after); update_ctrl_flags models
  it.
* set_default_values steps over the control behind a read-only one, and ends on
  NULL when the last but one is read-only (`v4l2_controls.c:1289`); a profile
  without controls gives set_ctrl_values NULL (`profile.c:300`); both are
  `crashed`. Values of a read that failed are taken from uninitialised memory.
* avi_write_packet looks up the last part before the empty packets that catch up
  with dts; when these fill it, it is closed a second time and the entry counts
  from the wrong part (`avilib.c:865`). Such files are `split`.
* The cluster limits of `matroska.c:733` are "every 5 MB or 5 sec", but compare
  nanoseconds with milliseconds, so only the size decides, and without keyframes
  a block's 16 bits of time can overflow before it; MkvBlocks excludes those
  blocks.
* checkFocus has a parenthesis before `<` (`autofocus.c:315`), the guard of the
  arrays stands between switch and its first case (371), and the focus that
  tracking calls "orig. focus" (455, 472, 501) is another one when a move was
  clipped or the step was reset first; the limits a click sets are 8 and 255
  whatever the range. `Autofocus` models all of them.
* The fine steps of a search begin i_step before the best coarse sample. They
  pass it by when i_step is no multiple of a fine step (ranges of 160 to 191
  values: 5 and 2) or when the search began less than i_step from the end of the
  range, where the beginning is clipped (a click sets 8, which is less than i_step
  from a range of 0 .. 1023): the lens may then end where it is less sharp than
  in a sample taken. FocusIsBest excludes both by FineMeetsCoarse.
* The 51st stamp of delayed frames is written behind its array
  (`lavc_common.c:255`); sync_audio_frame writes packets without file_mutex
  (`create_video.c:531`); io_flush_buffer that fails leaves the pointer behind
  the buffer (`file_io.c:124`). The first is in `LavcQueue`, the others in none.
* The numbering of files shares image_inc with the timer; NumberFiles is
  disabled while the timer runs, as the menu is.
* The minimum setup of main assigns the height to global->width
  (`guvcview.c:368`, where 367 has just assigned the width).
* NoUseAfterFree of `Capture` excludes the option to exit after the capture
  timer: timer_callback toggles the capture, so it may start one, and then
  shuts down.

## 8. What is not modelled, and why

Section 9 names what is planned. Not planned: numerical work on frames and
sound, the drawing of widgets, parsing and writing of text, the enumeration of
devices. Five sixths of the lines in the tree are copies of libraries
(PortAudio, v4l-utils) that guvcview calls and does not maintain; they are
outside, as in the program's own view, so the share of the whole tree that is
modelled stays small.

Abstracted in the modules: samples and pixels, time stamps (except their order,
the drift in whole frames and, in the muxers, their rounding), the range of
unsigned time stamps, what an encoder computes, the constant
fields of file headers, write errors, the printing of messages, weak memory (a
value written without a mutex is seen at once). An encoder that drops a frame
without returning a packet, and a lens that a refused set_ctrl leaves where it
was, are outside `LavcQueue` and `Autofocus`. The pan and tilt buttons set
controls that have no value to keep and are outside `Controls`. GTK calls from
the IO thread (`create_video.c:1014`) are atomic with their step. Sources that
are still dispatched in the main loop iteration in which shutd was called are
outside `Capture`.

## 9. The plan

1. Theorems: that the samples of a search stay in their array in the ranges in
   which they do; a bound on MaxLoops under which Audio_loop always ends by
   itself. New ones go into the existing modules of proofs.
2. A ring whose size changes from capture to capture in `VideoRing` (what a
   failed initVideoFile leaves is freed with the next size), and the size of a
   picture in `V4l2Stream`.
3. A disk that refuses a write in `FileWriter`, with what the muxers do then;
   sync_audio_frame beside a writer that holds file_mutex.
4. The lookups of formats and resolutions, buff_scheduler and the computation of
   audio_drift as functions checked against a reference over bounded inputs.
