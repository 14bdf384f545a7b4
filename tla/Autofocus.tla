------------------------------ MODULE Autofocus ------------------------------
(***************************************************************************)
(* The software autofocus: with every frame the video thread measures the  *)
(* sharpness and asks getFocusVal for the next position of the lens.  A    *)
(* search samples the range at a coarse step (flag 0), then a window       *)
(* around the best sample at a fine one (flag 1); tracking (flags 2 to 4)  *)
(* compares the focus with a step to its right and one to its left.  The   *)
(* GTK thread starts a search, or turns tracking on and off, by writing    *)
(* into the same struct focusData; nothing guards it.                      *)
(* The scene does not move: it gives the sharpness of every position.      *)
(***************************************************************************)
EXTENDS Integers, Sequences, SequencesExt

CONSTANTS FocusMin, FocusMax, FocusStep, (* the focus control                *)
          ClickLeft, ClickRight,         (* 8 and 255 of setfocus_clicked    *)
          FrameTime,                     (* ms from frame to frame           *)
          Scenes,                        (* sharpness by position            *)
          MaxClicks                      (* bound: how often the user acts   *)

ASSUME FocusAssumption ==
  /\ FocusMin \in Nat /\ FocusMax \in Nat /\ FocusMin < FocusMax /\ FocusStep \in Nat \ {0}
  /\ ClickLeft \in Nat /\ ClickRight \in Nat /\ FrameTime \in Nat \ {0} /\ MaxClicks \in Nat
  /\ Scenes \subseteq [FocusMin .. FocusMax -> Nat]

Positions == FocusMin .. FocusMax
i_step ==
  LET s == (FocusMax + 1 - FocusMin) \div 32 IN IF s <= FocusStep THEN 2 * FocusStep ELSE s
coarse == 2 * i_step
fine == IF i_step \div 2 <= 0 THEN 1 ELSE i_step \div 2
TH == 80
Lost == 4 * TH

NoFocus == -1

VARIABLES
  af,         (* focusData: focus, left, right, flag, setFocus, the samples  *)
              (* (ind is their number), step, sharpness, focus_sharpness,    *)
              (* sharpLeft, sharpRight, focus_wait                           *)
  autofocus,  (* global->autofocus                                           *)
  last_focus, (* of the video thread                                         *)
  framepc,    (* where the video thread is: idle, measured, decided          *)
  chosen,     (* what getFocusVal returned                                   *)
  clickpc,    (* what the GTK thread has still to write                      *)
  scene, lens,
  clicks,
  search      (* history: the sharpest sample of this search, where this     *)
              (* round of tracking began, and whether the threads met        *)

focusVars == <<af, autofocus, last_focus, framepc, chosen, clickpc, scene, lens, clicks, search>>

InRange(p) == IF p > FocusMax THEN FocusMax ELSE IF p < FocusMin THEN FocusMin ELSE p

FocusInit ==
  /\ af = [focus |-> NoFocus, left |-> FocusMin + i_step, right |-> FocusMax, flag |-> 0,
           setFocus |-> FALSE, samples |-> <<>>, step |-> 0, sharpness |-> 0,
           focus_sharpness |-> 0, sharpLeft |-> 0, sharpRight |-> 0, focus_wait |-> 0]
  /\ autofocus \in BOOLEAN
  /\ framepc = "idle" /\ chosen = FocusMin /\ clickpc = "idle" /\ clicks = 0
  /\ scene \in Scenes /\ lens = FocusMin /\ last_focus = lens
  /\ search = [best |-> 0, from |-> NoFocus, met |-> FALSE]
-----------------------------------------------------------------------------
(***************************************************************************)
(* getFocusVal.                                                            *)
(***************************************************************************)
Sampled(a) == Append(a.samples, [sharp |-> a.sharpness, foc |-> a.focus])

(* The insertion sort is stable: of the sharpest samples the last one wins.*)
(* Mutant: the sample that is first in the array wins.                     *)
SortTakesFirst(samples) == samples[1]
Sort(samples) ==
  samples[CHOOSE k \in 1 .. Len(samples) : \A j \in 1 .. Len(samples) :
            \/ samples[j].sharp < samples[k].sharp
            \/ samples[j].sharp = samples[k].sharp /\ j <= k]

Coarse(a) ==
  LET best == Sort(Sampled(a)).foc
  IN IF a.focus >= a.right
     THEN [a EXCEPT !.left = InRange(best - i_step), !.right = InRange(best + i_step),
                    !.focus = InRange(best - i_step), !.samples = <<>>, !.flag = 1]
     ELSE [a EXCEPT !.focus = @ + coarse, !.samples = Sampled(a)]

Fine(a) ==
  LET best == Sort(Sampled(a))
  IN IF a.focus >= a.right
     THEN [a EXCEPT !.focus = best.foc, !.focus_sharpness = best.sharp, !.step = i_step,
                    !.flag = 2, !.samples = Sampled(a)]
     ELSE [a EXCEPT !.focus = @ + fine, !.samples = Sampled(a)]

(* Mutant: setFocus is not reset.                                          *)
SearchAgain(a) ==
  [a EXCEPT !.flag = 0, !.right = FocusMax, !.left = FocusMin + i_step, !.samples = <<>>]
SearchDone(a) ==
  [a EXCEPT !.setFocus = FALSE, !.flag = 0, !.right = FocusMax, !.left = FocusMin + i_step,
            !.samples = <<>>]

TrackRight(a) ==
  [a EXCEPT !.focus_sharpness = a.sharpness, !.flag = 3, !.sharpLeft = 0, !.sharpRight = 0,
            !.focus = @ + a.step]

TrackLeft(a) ==
  [a EXCEPT !.flag = 4, !.sharpRight = a.sharpness, !.focus = @ - 2 * a.step]

Distance(m, n) == IF m < n THEN n - m ELSE m - n

(* How many of two comparisons with the focus speak for a side: that it is *)
(* sharper there, or that the other side is less sharp.                    *)
Votes(a, side) ==
  LET much(v) == Distance(v, a.focus_sharpness) >= a.focus_sharpness \div TH
      more(v) == v > a.focus_sharpness
      l == much(a.sharpLeft) /\ (more(a.sharpLeft) <=> side = "left")
      r == much(a.sharpRight) /\ (more(a.sharpRight) <=> side = "right")
  IN (IF l THEN 1 ELSE 0) + (IF r THEN 1 ELSE 0)

(* The first comparison has its parenthesis before the <, so that the left *)
(* counts as flat however much less sharp it is.                           *)
checkFocus(a) ==
  LET little     == a.focus_sharpness \div TH
      bothDown   == /\ a.focus_sharpness - a.sharpRight >= little
                    /\ a.focus_sharpness - a.sharpLeft >= little
      bothLittle == /\ a.sharpLeft - a.focus_sharpness < little
                    /\ Distance(a.sharpRight, a.focus_sharpness) < little
  IN IF a.step > i_step THEN (IF bothDown THEN "local_max" ELSE "flat")
     ELSE IF bothLittle THEN "flat"
     ELSE IF bothDown THEN "incstep"
     ELSE IF Votes(a, "left") = Votes(a, "right") THEN "flat"
     ELSE IF Votes(a, "left") > Votes(a, "right") THEN "left" ELSE "right"

(* The focus is at the sample on the left.  Mutant: it stays there.        *)
StaysLeft(a) == [a EXCEPT !.step = i_step]
GoBack(a) == [a EXCEPT !.focus = @ + i_step, !.step = i_step]

(* focusDir is never anything but FLAT.                                   *)
TrackEnd(a) ==
  LET b == [a EXCEPT !.sharpLeft = a.sharpness, !.flag = 2]
      verdict == checkFocus(b)
  IN CASE verdict = "local_max" -> [b EXCEPT !.focus = @ + a.step, !.step = i_step]
       [] verdict = "incstep"   -> [b EXCEPT !.focus = @ + a.step, !.step = 2 * i_step]
       [] verdict = "right"     -> [b EXCEPT !.focus = @ + 2 * a.step]
       [] verdict = "left"      -> b
       [] verdict = "flat" /\ a.focus_sharpness < Lost ->
            [b EXCEPT !.focus = FocusMax \div 2, !.step = i_step]
       [] OTHER                 -> GoBack(b)

Clipped(a) ==
  [a EXCEPT !.focus = InRange(@), !.right = InRange(@), !.left = InRange(@)]

getFocusVal(a) ==
  Clipped(CASE a.flag = 0 -> Coarse(a)
            [] a.flag = 1 -> Fine(a)
            [] a.flag = 2 -> IF a.setFocus THEN SearchDone(a) ELSE TrackRight(a)
            [] a.flag = 3 -> TrackLeft(a)
            [] a.flag = 4 -> TrackEnd(a))
-----------------------------------------------------------------------------
(***************************************************************************)
(* The video thread, with every frame.                                     *)
(***************************************************************************)
Met == search.met \/ clickpc # "idle"

(* set_ctrl moves the lens; the frames until it is there are counted.      *)
FocusWait(p) == (14 * Distance(p, last_focus)) \div (10 * FrameTime) + 1

Active == autofocus \/ af.setFocus

StartSearch ==
  /\ framepc = "idle" /\ Active /\ af.focus < 0
  /\ af' = [af EXCEPT !.focus = af.left, !.focus_wait = FocusWait(af.left)]
  /\ lens' = InRange(af.left) /\ last_focus' = af.left
  /\ search' = [search EXCEPT !.best = 0, !.met = Met]
  /\ UNCHANGED <<autofocus, framepc, chosen, clickpc, scene, clicks>>

WaitForLens ==
  /\ framepc = "idle" /\ Active /\ af.focus >= 0 /\ af.focus_wait > 0
  /\ af' = [af EXCEPT !.focus_wait = @ - 1]
  /\ search' = [search EXCEPT !.met = Met]
  /\ UNCHANGED <<autofocus, last_focus, framepc, chosen, clickpc, scene, lens, clicks>>

(* getSharpness, which takes its time.                                     *)
Measure ==
  /\ framepc = "idle" /\ Active /\ af.focus >= 0 /\ af.focus_wait = 0
  /\ framepc' = "measured"
  /\ af' = [af EXCEPT !.sharpness = scene[lens]]
  /\ search' = [search EXCEPT !.met = Met]
  /\ UNCHANGED <<autofocus, last_focus, chosen, clickpc, scene, lens, clicks>>

Sampling == af.flag \in {0, 1}

Decide ==
  /\ framepc = "measured" /\ framepc' = "decided"
  /\ af' = getFocusVal(af)
  /\ chosen' = af'.focus
  /\ search' = [best |-> IF Sampling /\ af.sharpness > search.best THEN af.sharpness ELSE search.best,
                from |-> IF af.flag = 2 THEN af.focus ELSE search.from,
                met  |-> Met]
  /\ UNCHANGED <<autofocus, last_focus, clickpc, scene, lens, clicks>>

(* The value returned is stored, whatever was written in between.          *)
MoveLens ==
  /\ framepc = "decided" /\ framepc' = "idle"
  /\ af' = [af EXCEPT !.focus = chosen,
                      !.focus_wait = IF chosen # last_focus THEN FocusWait(chosen) ELSE @]
  /\ lens' = IF chosen # last_focus THEN chosen ELSE lens
  /\ last_focus' = chosen
  /\ search' = [search EXCEPT !.met = Met]
  /\ UNCHANGED <<autofocus, chosen, clickpc, scene, clicks>>

FocusFrame == StartSearch \/ WaitForLens \/ Measure \/ Decide \/ MoveLens
-----------------------------------------------------------------------------
(***************************************************************************)
(* The GTK thread.  It sets the control to -1: the driver refuses that, or *)
(* takes the lens to the end of its range.                                 *)
(***************************************************************************)
SetToNoFocus == lens' \in {lens, FocusMin}

MeetsFrame == [search EXCEPT !.met = framepc # "idle"]
StillMeets == [search EXCEPT !.met = @ \/ framepc # "idle"]

ClickSetFocus ==
  /\ clickpc = "idle" /\ clicks < MaxClicks
  /\ clicks' = clicks + 1 /\ clickpc' = "setfocus"
  /\ af' = [af EXCEPT !.setFocus = TRUE, !.samples = <<>>, !.flag = 0,
                      !.right = ClickRight, !.left = ClickLeft]
  /\ search' = MeetsFrame
  /\ UNCHANGED <<autofocus, last_focus, framepc, chosen, scene, lens>>

ResetFocus ==
  /\ clickpc = "setfocus" /\ clickpc' = "idle"
  /\ af' = [af EXCEPT !.focus = NoFocus]
  /\ SetToNoFocus
  /\ search' = StillMeets
  /\ UNCHANGED <<autofocus, last_focus, framepc, chosen, scene, clicks>>

(* autofocus_changed resets the focus before the limits.                   *)
ToggleAutofocus ==
  /\ clickpc = "idle" /\ clicks < MaxClicks
  /\ clicks' = clicks + 1 /\ clickpc' = "toggle"
  /\ af' = [af EXCEPT !.flag = 0, !.samples = <<>>, !.focus = NoFocus]
  /\ search' = MeetsFrame
  /\ UNCHANGED <<autofocus, last_focus, framepc, chosen, scene, lens>>

AutofocusToggled ==
  /\ clickpc = "toggle" /\ clickpc' = "idle"
  /\ af' = [af EXCEPT !.right = FocusMax, !.left = i_step]
  /\ autofocus' = ~autofocus
  /\ IF autofocus' THEN SetToNoFocus ELSE UNCHANGED lens
  /\ search' = StillMeets
  /\ UNCHANGED <<last_focus, framepc, chosen, scene, clicks>>

FocusCallback == ResetFocus \/ AutofocusToggled

FocusNext == FocusFrame \/ FocusCallback \/ ClickSetFocus \/ ToggleAutofocus

FocusFairness == WF_focusVars(FocusFrame) /\ WF_focusVars(FocusCallback)

FocusSpec == FocusInit /\ [][FocusNext]_focusVars /\ FocusFairness
-----------------------------------------------------------------------------
(***************************************************************************)
(* Properties.                                                             *)
(***************************************************************************)
MAX_ARR_S == 20

FocusTypeOK ==
  /\ af.focus \in {NoFocus} \cup Nat /\ lens \in Positions
  /\ af.flag \in 0 .. 4 /\ af.setFocus \in BOOLEAN /\ af.step \in {0, i_step, 2 * i_step}
  /\ Len(af.samples) < MAX_ARR_S

(* A search that the user asked for comes to an end, whatever the threads  *)
(* write over each other.                                                  *)
FocusSettles == af.setFocus ~> ~af.setFocus

(* The fine steps around a coarse sample come to the sample itself: not in *)
(* a range of 160 to 191 values, where a fine step is 2 and i_step is 5,   *)
(* and not when a search begins less than i_step from the end of the range.*)
Starts == {ClickLeft, i_step, FocusMin + i_step}
FineMeetsCoarse ==
  i_step % fine = 0 /\ \A p \in Starts : p \in Positions /\ p - i_step \in Positions

(* When it ends the lens is where the picture is as sharp as in the best   *)
(* of its samples, coarse and fine, if the click did not meet the work on  *)
(* a frame.                                                                *)
FocusIsBest ==
  [][(FineMeetsCoarse /\ af.setFocus /\ ~af'.setFocus /\ ~search.met)
     => scene[lens] >= search.best]_focusVars

TrackInside(p) == FocusMin + i_step <= p /\ p <= FocusMax - i_step

(* A round of tracking with the small step, away from the ends of the      *)
(* range and with a focus that is not lost, never leaves the picture less  *)
(* sharp than the threshold allows.                                        *)
TrackKeepsSharp ==
  [][(/\ af.flag = 4 /\ af'.flag = 2 /\ framepc = "measured" /\ ~search.met
      /\ af.step = i_step /\ TrackInside(search.from) /\ af.focus_sharpness >= Lost)
     => scene[af'.focus] + af.focus_sharpness \div TH >= scene[search.from]]_focusVars
=============================================================================
