---------------------------- MODULE ImageCapture ----------------------------
(***************************************************************************)
(* The capture of pictures: the GTK thread (the button, the capture timer, *)
(* the menu that numbers the files) names a picture and raises capImage;   *)
(* the video thread saves the frame of its iteration under that name, or   *)
(* in the raw format raises cap_raw for the next one.  The name is one     *)
(* string, which the GTK thread frees and allocates anew.                  *)
(***************************************************************************)
EXTENDS Integers, FiniteSets, FiniteSetsExt

CONSTANTS
  NPics,        (* image_npics of the command line                          *)
  Formats,      (* image formats considered: of "file", "raw"               *)
  Patience,     (* TRUE: no grab fails, and neither does the timer fire nor *)
                (* is the numbering changed while a picture is to be taken; *)
                (* FALSE: none of this is sure                              *)
  MaxNames      (* bound: the names that are allocated                      *)

ASSUME PicsAssumption == NPics \in Nat \ {0}
ASSUME FormatsAssumption == Formats \subseteq {"file", "raw"}
ASSUME PatienceAssumption == Patience \subseteq BOOLEAN
ASSUME NamesAssumption == MaxNames \in Nat

VARIABLES
  format, timed, exits, patient,(* the command line, the environment        *)
  name,                         (* ImageFName: [id, suffix], suffix 0: none *)
  image_inc, image_timer, image_picn,
  capImage, cap_raw, signalquit,
  pointer, vpc, quit,           (* the video thread                         *)
  wanted, saved, dangled        (* history: the names announced with        *)
                                (* capImage, those saved, and whether one   *)
                                (* was used after it was freed              *)

config == <<format, timed, exits, patient>>
counters == <<image_inc, image_timer, image_picn>>
flags == <<capImage, cap_raw, signalquit>>
video == <<pointer, vpc, quit>>
history == <<wanted, saved, dangled>>
vars == <<config, name, counters, flags, video, history>>

SuffixesOf(names) == {n.suffix : n \in names}
NoName == [id |-> 0, suffix |-> 0]

Init ==
  /\ format \in Formats /\ timed \in BOOLEAN /\ exits \in BOOLEAN /\ patient \in Patience
  /\ name = NoName
  /\ image_inc \in {0, 1} /\ image_timer = timed /\ image_picn = 0
  /\ capImage = FALSE /\ cap_raw = FALSE /\ signalquit = FALSE
  /\ pointer = NoName /\ vpc = "top" /\ quit = FALSE
  /\ wanted = {} /\ saved = {} /\ dangled = FALSE
-----------------------------------------------------------------------------
(***************************************************************************)
(* The GTK thread.                                                         *)
(***************************************************************************)

(* incFilename or joinPath: the old string is freed.                       *)
NextNumber == image_inc + 1

Named(suffix) == name' = [id |-> name.id + 1, suffix |-> suffix]
NewName ==
  /\ name.id < MaxNames
  /\ Named(image_inc)
  /\ image_inc' = (IF image_inc > 0 THEN NextNumber ELSE 0)

Announce == capImage' = TRUE /\ wanted' = wanted \cup {name'}

(* capture_image does nothing while a picture is to be taken.              *)
(* Mutant: it does not look.                                               *)
AlwaysReady == TRUE
ButtonReady == ~capImage

CaptureImage ==
  /\ ButtonReady /\ ~image_timer
  /\ NewName
  /\ Announce
  /\ UNCHANGED <<config, image_timer, image_picn, cap_raw, signalquit, video, saved, dangled>>

(* The button stops the timer, and leaves the name without a number.       *)
StopTimer ==
  /\ ButtonReady /\ image_timer
  /\ name.id < MaxNames /\ Named(0)
  /\ image_timer' = FALSE
  /\ UNCHANGED <<config, image_inc, image_picn, flags, video, history>>

(* Image_capture_timer, which ends with the last picture.                  *)
LastPicture == image_picn + 1 >= NPics

Timer ==
  /\ image_timer
  /\ patient => ~(capImage \/ cap_raw)
  /\ NewName
  /\ Announce
  /\ IF LastPicture
     THEN image_timer' = FALSE /\ image_picn' = 0 /\ signalquit' = (signalquit \/ exits)
     ELSE image_picn' = image_picn + 1 /\ UNCHANGED <<image_timer, signalquit>>
  /\ UNCHANGED <<config, cap_raw, video, saved, dangled>>

(* image_prefix_toggled: the number after those of the files there are.    *)
(* The menu is disabled while the timer runs.                              *)
NumberFiles ==
  /\ ~image_timer
  /\ patient => ~(capImage \/ cap_raw)
  /\ image_inc' \in {0, Max(SuffixesOf(saved) \cup {0}) + 1}
  /\ UNCHANGED <<config, name, image_timer, image_picn, flags, video, history>>

Quit ==
  /\ signalquit' = TRUE
  /\ UNCHANGED <<config, name, counters, capImage, cap_raw, video, history>>

(* shutd returns to no handler: it waits for the video thread.             *)
GtkThread == ~signalquit /\ (CaptureImage \/ StopTimer \/ Timer \/ NumberFiles \/ Quit)
-----------------------------------------------------------------------------
(***************************************************************************)
(* The video thread.                                                       *)
(***************************************************************************)
At(step) == vpc = step
Goto(step) == vpc' = step

(* The loop ends if its copy of signalquit is set.                         *)
(* Mutant: if signalquit itself is.                                        *)
TestsShared == signalquit
LoopEnds == quit
NextTurn == Goto(IF LoopEnds THEN "gone" ELSE "top")

LoopTop ==
  /\ At("top")
  /\ quit' = signalquit
  /\ Goto("grab")
  /\ UNCHANGED <<config, name, counters, flags, pointer, history>>

(* A frame; a raw picture may be waiting for it.                           *)
Grab ==
  /\ At("grab")
  /\ \/ cap_raw /\ pointer' = name /\ Goto("save raw")
     \/ ~cap_raw /\ Goto("picture") /\ UNCHANGED pointer
  /\ UNCHANGED <<config, name, counters, flags, quit, history>>

GrabFails ==
  /\ At("grab") /\ ~patient
  /\ NextTurn
  /\ UNCHANGED <<config, name, counters, flags, pointer, quit, history>>

Save ==
  /\ saved' = saved \cup {pointer}
  /\ dangled' = (dangled \/ pointer # name)

SaveRaw ==
  /\ At("save raw")
  /\ Save
  /\ cap_raw' = FALSE
  /\ Goto("picture")
  /\ UNCHANGED <<config, name, counters, capImage, signalquit, pointer, quit, wanted>>

(* store_picture; capImage stays until it has returned.                    *)
(* Mutant: it is cleared first.                                            *)
ClearedFirst == FALSE
FlagWhileSaving == TRUE

StorePicture ==
  /\ At("picture") /\ capImage
  /\ \/ format = "file" /\ pointer' = name /\ Goto("save") /\ UNCHANGED cap_raw
     \/ format = "raw" /\ cap_raw' = TRUE /\ Goto("clear") /\ UNCHANGED pointer
  /\ capImage' = FlagWhileSaving
  /\ UNCHANGED <<config, name, counters, signalquit, quit, history>>

NoPicture ==
  /\ At("picture") /\ ~capImage
  /\ Goto("rest")
  /\ UNCHANGED <<config, name, counters, flags, pointer, quit, history>>

SaveFile ==
  /\ At("save")
  /\ Save
  /\ Goto("clear")
  /\ UNCHANGED <<config, name, counters, flags, pointer, quit, wanted>>

ClearFlag ==
  /\ At("clear")
  /\ capImage' = FALSE
  /\ Goto("rest")
  /\ UNCHANGED <<config, name, counters, cap_raw, signalquit, pointer, quit, history>>

(* The video capture and the display.                                      *)
RestOfLoop ==
  /\ At("rest")
  /\ NextTurn
  /\ UNCHANGED <<config, name, counters, flags, pointer, quit, history>>

VideoThread ==
  LoopTop \/ Grab \/ GrabFails \/ SaveRaw \/ StorePicture \/ NoPicture
  \/ SaveFile \/ ClearFlag \/ RestOfLoop

Next == GtkThread \/ VideoThread

Spec == Init /\ [][Next]_vars
-----------------------------------------------------------------------------
(***************************************************************************)
(* Properties.                                                             *)
(***************************************************************************)
Names == [id : 0 .. MaxNames, suffix : Nat]

(* Every variable ranges over what its declaration in the code holds; the  *)
(* pictures taken are fewer than image_npics.                              *)
TypeOK ==
  /\ format \in Formats /\ timed \in BOOLEAN /\ exits \in BOOLEAN /\ patient \in Patience
  /\ name \in Names /\ pointer \in Names /\ wanted \subseteq Names /\ saved \subseteq Names
  /\ image_inc \in Nat /\ image_timer \in BOOLEAN /\ image_picn \in 0 .. NPics - 1
  /\ capImage \in BOOLEAN /\ cap_raw \in BOOLEAN /\ signalquit \in BOOLEAN
  /\ vpc \in {"top", "grab", "save raw", "picture", "save", "clear", "rest", "gone"}
  /\ quit \in BOOLEAN /\ dangled \in BOOLEAN

(* The button, and a timer that is slower than the camera, lose no picture:*)
(* when the flag is down all that were announced are saved.                *)
NoPictureLost ==
  (format = "file" /\ (patient \/ ~timed) /\ ~capImage) => wanted \subseteq saved

(* The name is not freed while the video thread saves under it, though no  *)
(* mutex protects it.                                                      *)
NameInUse == (format = "file" /\ (patient \/ ~timed)) => ~dangled

(* A picture announced before the shutdown is saved before the video       *)
(* thread ends, the last one of a timer that shuts down included.  (A raw  *)
(* one is not: no frame follows.)                                          *)
SavedAtExit == (vpc = "gone" /\ patient /\ format = "file") => wanted \subseteq saved
=============================================================================
