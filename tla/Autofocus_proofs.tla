-------------------------- MODULE Autofocus_proofs --------------------------
(***************************************************************************)
(* Proofs about Autofocus, for every range and step of the focus control,  *)
(* all scenes and every number of clicks.                                  *)
(***************************************************************************)
EXTENDS Autofocus, SequenceTheorems, TLAPS

Sample == [sharp : Nat, foc : Int]

FocusState ==
  [focus : Int, left : Int, right : Int, flag : {0, 1, 2, 3, 4}, setFocus : BOOLEAN,
   samples : Seq(Sample), step : Nat, sharpness : Nat, focus_sharpness : Nat,
   sharpLeft : Nat, sharpRight : Nat, focus_wait : Int]

-----------------------------------------------------------------------------
(***************************************************************************)
(* The operators.                                                          *)
(***************************************************************************)

(* A step of the lens is at least one value of the control.                *)
LEMMA StepsAreNatural ==
  /\ FocusMin \in Nat /\ FocusMax \in Nat /\ FocusMin < FocusMax
  /\ ClickLeft \in Nat /\ ClickRight \in Nat /\ FrameTime \in Nat /\ FrameTime > 0
  /\ i_step \in Nat /\ i_step > 0 /\ coarse \in Nat /\ fine \in Nat /\ fine > 0
BY FocusAssumption DEF i_step, coarse, fine

(* The clipping ends in the range and leaves what is in it.                *)
LEMMA InRangeIs ==
  ASSUME NEW p \in Int
  PROVE  InRange(p) \in Positions /\ InRange(p) \in Int /\ (p \in Positions => InRange(p) = p)
BY StepsAreNatural DEF InRange, Positions

(* Some sample is the last of the sharpest: what the sort looks for.       *)
IsBest(s, k) ==
  \A j \in 1 .. Len(s) : \/ s[j].sharp < s[k].sharp
                         \/ s[j].sharp = s[k].sharp /\ j <= k
HasBest(s) == s # <<>> => \E k \in 1 .. Len(s) : IsBest(s, k)

(* A sequence that has a best sample has one when it grows: the old one,   *)
(* or the new one if that is as sharp.                                     *)
LEMMA AppendHasBest ==
  ASSUME NEW s \in Seq(Sample), NEW e \in Sample, HasBest(s)
  PROVE  HasBest(Append(s, e))
<1> DEFINE n == Len(s)
           t == Append(s, e)
<1>1. /\ n \in Nat /\ Len(t) = n + 1 /\ t[n + 1] = e
      /\ \A j \in 1 .. n : t[j] = s[j] /\ s[j] \in Sample
  BY AppendProperties, ElementOfSeq
<1>2. e.sharp \in Nat /\ \A j \in 1 .. n : s[j].sharp \in Nat
  BY <1>1 DEF Sample
<1> HIDE DEF t
<1>3. ASSUME NEW k \in 1 .. n + 1, \A j \in 1 .. n + 1 :
                 t[j].sharp < t[k].sharp \/ (t[j].sharp = t[k].sharp /\ j <= k)
      PROVE  HasBest(t)
  BY <1>1, <1>3 DEF HasBest, IsBest
<1>4. CASE s = <<>>
  <2>1. n = 0
    BY <1>4
  <2> QED
    BY <1>1, <1>3, <2>1 DEF t
<1>5. CASE s # <<>>
  <2>1. PICK k \in 1 .. n : IsBest(s, k)
    BY <1>5 DEF HasBest
  <2>2. \A j \in 1 .. n : s[j].sharp < s[k].sharp \/ (s[j].sharp = s[k].sharp /\ j <= k)
    BY <2>1 DEF IsBest
  <2> HIDE DEF n
  <2>3. CASE e.sharp >= s[k].sharp
    <3>0. e.sharp \in Nat /\ s[k].sharp \in Nat /\ n + 1 \in 1 .. n + 1
      BY <1>1, <1>2
    <3>1. \A j \in 1 .. n + 1 :
             t[j].sharp < t[n + 1].sharp \/ (t[j].sharp = t[n + 1].sharp /\ j <= n + 1)
      <4> SUFFICES ASSUME NEW j \in 1 .. n + 1
                   PROVE  t[j].sharp < e.sharp \/ (t[j].sharp = e.sharp /\ j <= n + 1)
        BY <1>1
      <4>1. CASE j = n + 1
        BY <4>1, <1>1
      <4>2. CASE j # n + 1
        <5>1. j \in 1 .. n
          BY <4>2, <1>1
        <5>2. t[j] = s[j] /\ s[j].sharp \in Nat
          BY <5>1, <1>1, <1>2
        <5>3. s[j].sharp <= s[k].sharp
          BY <5>1, <5>2, <3>0, <2>2
        <5> QED
          BY <5>1, <5>2, <5>3, <3>0, <2>3, <1>1
      <4> QED
        BY <4>1, <4>2
    <3>2. HasBest(t)
      BY <3>0, <1>3, <3>1
    <3> QED
      BY <3>2 DEF t
  <2>4. CASE ~(e.sharp >= s[k].sharp)
    <3>1. \A j \in 1 .. n + 1 :
             t[j].sharp < t[k].sharp \/ (t[j].sharp = t[k].sharp /\ j <= k)
      <4> SUFFICES ASSUME NEW j \in 1 .. n + 1
                   PROVE  t[j].sharp < t[k].sharp \/ (t[j].sharp = t[k].sharp /\ j <= k)
        OBVIOUS
      <4>0. e.sharp \in Nat /\ s[k].sharp \in Nat /\ t[k] = s[k]
        BY <1>1, <1>2
      <4>1. CASE j = n + 1
        BY <4>0, <4>1, <1>1, <2>4
      <4>2. CASE j # n + 1
        <5>1. j \in 1 .. n
          BY <4>2, <1>1
        <5> QED
          BY <5>1, <4>0, <1>1, <2>2
      <4> QED
        BY <4>1, <4>2
    <3>2. k \in 1 .. n + 1
      BY <1>1
    <3>3. HasBest(t)
      BY <1>3, <3>1, <3>2
    <3> QED
      BY <3>3 DEF t
  <2> QED
    BY <2>3, <2>4
<1> QED
  BY <1>4, <1>5

(* The sort returns a sample that no other one is sharper than.            *)
LEMMA SortIsBest ==
  ASSUME NEW s \in Seq(Sample), HasBest(s), s # <<>>
  PROVE  /\ \E k \in 1 .. Len(s) : Sort(s) = s[k]
         /\ Sort(s) \in Sample
         /\ \A j \in 1 .. Len(s) : s[j].sharp <= Sort(s).sharp
<1> DEFINE k == CHOOSE i \in 1 .. Len(s) : IsBest(s, i)
<1>1. k \in 1 .. Len(s) /\ IsBest(s, k)
  BY Zenon DEF HasBest
<1>2. Sort(s) = s[k]
  BY DEF Sort, IsBest
<1> HIDE DEF k
<1>3. \A j \in 1 .. Len(s) : s[j] \in Sample
  BY ElementOfSeq
<1>4. \A j \in 1 .. Len(s) : s[j].sharp \in Nat
  BY <1>3 DEF Sample
<1>5. \A j \in 1 .. Len(s) : s[j].sharp <= s[k].sharp
  BY <1>1, <1>4 DEF IsBest
<1> QED
  BY <1>1, <1>2, <1>3, <1>5

(* A sample is added at the end.                                           *)
LEMMA SampledIs ==
  ASSUME NEW a \in FocusState, HasBest(a.samples)
  PROVE  LET n == Len(a.samples) IN
         /\ Sampled(a) \in Seq(Sample) /\ HasBest(Sampled(a)) /\ Sampled(a) # <<>>
         /\ n \in Nat /\ Len(Sampled(a)) = n + 1
         /\ Sampled(a)[n + 1].sharp = a.sharpness /\ Sampled(a)[n + 1].foc = a.focus
         /\ \A j \in 1 .. n : Sampled(a)[j] = a.samples[j]
<1> DEFINE e == [sharp |-> a.sharpness, foc |-> a.focus]
<1>1. e \in Sample /\ a.samples \in Seq(Sample) /\ e.sharp = a.sharpness /\ e.foc = a.focus
  BY DEF Sample, FocusState
<1>2. Sampled(a) = Append(a.samples, e)
  BY DEF Sampled
<1> HIDE DEF e
<1>3. /\ Append(a.samples, e) \in Seq(Sample) /\ Append(a.samples, e) # <<>>
      /\ Len(Append(a.samples, e)) = Len(a.samples) + 1 /\ Len(a.samples) \in Nat
      /\ Append(a.samples, e)[Len(a.samples) + 1] = e
      /\ \A j \in 1 .. Len(a.samples) : Append(a.samples, e)[j] = a.samples[j]
  BY <1>1, AppendProperties
<1> QED
  BY <1>1, <1>2, <1>3, AppendHasBest

(* The three fields that are clipped, and those that are not.              *)
LEMMA ClippedIs ==
  ASSUME NEW a \in FocusState
  PROVE  LET c == Clipped(a) IN
         /\ c \in FocusState
         /\ c.focus = InRange(a.focus) /\ c.right = InRange(a.right) /\ c.left = InRange(a.left)
         /\ c.flag = a.flag /\ c.setFocus = a.setFocus /\ c.samples = a.samples
         /\ c.step = a.step /\ c.sharpness = a.sharpness
         /\ c.focus_sharpness = a.focus_sharpness
         /\ c.sharpLeft = a.sharpLeft /\ c.sharpRight = a.sharpRight
<1>1. a.focus \in Int /\ a.right \in Int /\ a.left \in Int
  BY DEF FocusState
<1>2. InRange(a.focus) \in Int /\ InRange(a.right) \in Int /\ InRange(a.left) \in Int
  BY <1>1, InRangeIs
<1> QED
  BY <1>2 DEF Clipped, FocusState

(* The verdict is one of five, and every verdict keeps the types.          *)
LEMMA TrackEndTyped ==
  ASSUME NEW a \in FocusState
  PROVE  TrackEnd(a) \in FocusState /\ TrackEnd(a).samples = a.samples
<1> DEFINE b == [a EXCEPT !.sharpLeft = a.sharpness, !.flag = 2]
<1>0. /\ b \in FocusState /\ b.samples = a.samples /\ b.focus \in Int /\ a.step \in Nat
  BY DEF FocusState
<1>1. /\ b \in FocusState /\ b.samples = a.samples
      /\ b.focus \in Int /\ a.step \in Nat /\ i_step \in Nat /\ FocusMax \div 2 \in Int
  BY <1>0, StepsAreNatural
<1>2. \A v \in {"local_max", "incstep", "right", "left", "flat"} :
        checkFocus(b) = v => TrackEnd(a) \in FocusState /\ TrackEnd(a).samples = a.samples
  <2> HIDE DEF b
  <2>1. \A p \in Int, n \in Nat : LET c == [b EXCEPT !.focus = p, !.step = n] IN
                                  c \in FocusState /\ c.samples = a.samples
    BY <1>1 DEF FocusState
  <2>2. \A p \in Int : LET c == [b EXCEPT !.focus = p] IN c \in FocusState /\ c.samples = a.samples
    BY <1>1 DEF FocusState
  <2>3. /\ b.focus + a.step \in Int /\ b.focus + 2 * a.step \in Int /\ b.focus + i_step \in Int
        /\ 2 * i_step \in Nat
    BY <1>1
  <2> QED
    BY <1>1, <2>1, <2>2, <2>3, Zenon DEF TrackEnd, GoBack, b
<1>3. checkFocus(b) \in {"local_max", "incstep", "right", "left", "flat"}
  <2> HIDE DEF b
  <2> QED
    BY Zenon DEF checkFocus
<1> QED
  BY <1>2, <1>3

(* getFocusVal keeps the types and the best sample, and returns a position.*)
LEMMA FocusValTyped ==
  ASSUME NEW a \in FocusState, HasBest(a.samples)
  PROVE  /\ getFocusVal(a) \in FocusState /\ HasBest(getFocusVal(a).samples)
         /\ getFocusVal(a).focus \in Positions
<1> USE StepsAreNatural
<1> DEFINE best == Sort(Sampled(a))
<1>0. HasBest(<<>>) /\ <<>> \in Seq(Sample)
  BY DEF HasBest
<1>1. best \in Sample /\ best.foc \in Int /\ best.sharp \in Nat
  BY SampledIs, SortIsBest DEF Sample
<1>2. Sampled(a) \in Seq(Sample) /\ HasBest(Sampled(a))
  BY SampledIs
<1>3. ASSUME NEW c \in FocusState, HasBest(c.samples), getFocusVal(a) = Clipped(c)
      PROVE  /\ getFocusVal(a) \in FocusState /\ HasBest(getFocusVal(a).samples)
             /\ getFocusVal(a).focus \in Positions
  <2>1. c.focus \in Int
    BY DEF FocusState
  <2> QED
    BY <1>3, <2>1, ClippedIs, InRangeIs
<1>4. CASE a.flag = 0
  <2>1. Coarse(a) \in FocusState /\ HasBest(Coarse(a).samples)
    <3>1. InRange(best.foc - i_step) \in Int /\ InRange(best.foc + i_step) \in Int
      BY <1>1, InRangeIs
    <3> HIDE DEF best
    <3>2. CASE a.focus >= a.right
      BY <1>0, <3>1, <3>2 DEF Coarse, FocusState, best
    <3>3. CASE ~(a.focus >= a.right)
      <4>1. a.focus + coarse \in Int
        BY DEF FocusState
      <4>2. \A p \in Int, t \in Seq(Sample) :
               LET c == [a EXCEPT !.focus = p, !.samples = t] IN c \in FocusState /\ c.samples = t
        BY DEF FocusState
      <4> QED
        BY <1>2, <3>3, <4>1, <4>2 DEF Coarse
    <3> QED
      BY <3>2, <3>3
  <2>2. getFocusVal(a) = Clipped(Coarse(a))
    BY <1>4 DEF getFocusVal
  <2> QED
    BY <1>3, <2>1, <2>2
<1>5. CASE a.flag = 1
  <2>1. Fine(a) \in FocusState /\ HasBest(Fine(a).samples)
    <3> HIDE DEF best
    <3>2. CASE a.focus >= a.right
      BY <1>1, <1>2, <3>2 DEF Fine, FocusState, best
    <3>3. CASE ~(a.focus >= a.right)
      <4>1. a.focus + fine \in Int
        BY DEF FocusState
      <4>2. \A p \in Int, t \in Seq(Sample) :
               LET c == [a EXCEPT !.focus = p, !.samples = t] IN c \in FocusState /\ c.samples = t
        BY DEF FocusState
      <4> QED
        BY <1>2, <3>3, <4>1, <4>2 DEF Fine
    <3> QED
      BY <3>2, <3>3
  <2>2. getFocusVal(a) = Clipped(Fine(a))
    BY <1>5 DEF getFocusVal
  <2> QED
    BY <1>3, <2>1, <2>2
<1>6. CASE a.flag = 2
  <2>1. SearchDone(a) \in FocusState /\ HasBest(SearchDone(a).samples)
    <3>1. \A p, q \in Int, t \in Seq(Sample) :
             LET c == [a EXCEPT !.setFocus = FALSE, !.flag = 0, !.right = p, !.left = q, !.samples = t]
             IN  c \in FocusState /\ c.samples = t
      BY DEF FocusState
    <3>2. FocusMax \in Int /\ FocusMin + i_step \in Int
      OBVIOUS
    <3>3. SearchDone(a) \in FocusState /\ SearchDone(a).samples = <<>>
      BY <1>0, <3>1, <3>2, ZenonT(60) DEF SearchDone
    <3> QED
      BY <1>0, <3>3
  <2>2. TrackRight(a) \in FocusState /\ HasBest(TrackRight(a).samples)
    <3>1. a.focus + a.step \in Int /\ a.sharpness \in Nat
      BY DEF FocusState
    <3>2. \A p \in Int, n \in Nat :
             LET c == [a EXCEPT !.focus_sharpness = n, !.flag = 3, !.sharpLeft = 0,
                                !.sharpRight = 0, !.focus = p]
             IN  c \in FocusState /\ c.samples = a.samples
      BY DEF FocusState
    <3> QED
      BY <3>1, <3>2 DEF TrackRight
  <2>3. getFocusVal(a) = Clipped(IF a.setFocus THEN SearchDone(a) ELSE TrackRight(a))
    BY <1>6 DEF getFocusVal
  <2> QED
    BY <1>3, <2>1, <2>2, <2>3
<1>7. CASE a.flag = 3
  <2>1. TrackLeft(a) \in FocusState /\ HasBest(TrackLeft(a).samples)
    <3>1. a.focus - 2 * a.step \in Int /\ a.sharpness \in Nat
      BY DEF FocusState
    <3>2. \A p \in Int, n \in Nat :
             LET c == [a EXCEPT !.flag = 4, !.sharpRight = n, !.focus = p]
             IN  c \in FocusState /\ c.samples = a.samples
      BY DEF FocusState
    <3> QED
      BY <3>1, <3>2 DEF TrackLeft
  <2>2. getFocusVal(a) = Clipped(TrackLeft(a))
    BY <1>7 DEF getFocusVal
  <2> QED
    BY <1>3, <2>1, <2>2
<1>8. CASE a.flag = 4
  <2>1. TrackEnd(a) \in FocusState /\ HasBest(TrackEnd(a).samples)
    BY TrackEndTyped
  <2>2. getFocusVal(a) = Clipped(TrackEnd(a))
    BY <1>8 DEF getFocusVal
  <2> QED
    BY <1>3, <2>1, <2>2
<1> QED
  BY <1>4, <1>5, <1>6, <1>7, <1>8 DEF FocusState

-----------------------------------------------------------------------------
(***************************************************************************)
(* Types: the lens and what getFocusVal returns stay in the range of the   *)
(* control, also when the threads write over each other.                   *)
(***************************************************************************)
FocusTyped ==
  /\ af \in FocusState /\ HasBest(af.samples)
  /\ autofocus \in BOOLEAN /\ last_focus \in Int
  /\ framepc \in {"idle", "measured", "decided"} /\ clickpc \in {"idle", "setfocus", "toggle"}
  /\ chosen \in Positions /\ lens \in Positions /\ scene \in Scenes /\ clicks \in Nat
  /\ search \in [best : Nat, from : Int, met : BOOLEAN]

(* The sharpness of a position is a natural number.                        *)
LEMMA SceneIs ==
  ASSUME FocusTyped, NEW p \in Positions
  PROVE  scene[p] \in Nat
BY FocusAssumption DEF FocusTyped, Positions

LEMMA FieldTypes ==
  ASSUME FocusTyped
  PROVE  /\ af \in FocusState /\ HasBest(af.samples)
         /\ af.focus \in Int /\ af.left \in Int /\ af.right \in Int
         /\ af.flag \in {0, 1, 2, 3, 4}
         /\ af.samples \in Seq(Sample) /\ af.step \in Nat /\ af.sharpness \in Nat
         /\ af.focus_sharpness \in Nat /\ af.sharpLeft \in Nat /\ af.sharpRight \in Nat
         /\ search.best \in Nat /\ search.from \in Int
         /\ \A p \in Positions : p \in Int
BY StepsAreNatural DEF FocusTyped, FocusState, Positions

LEMMA SwitchTypes ==
  ASSUME FocusTyped
  PROVE  af.setFocus \in BOOLEAN /\ search.met \in BOOLEAN
BY DEF FocusTyped, FocusState

LEMMA FocusWaitIs ==
  ASSUME FocusTyped, NEW p \in Int
  PROVE  FocusWait(p) \in Int
<1>1. 14 * Distance(p, last_focus) \in Int /\ 10 * FrameTime \in Nat \ {0}
  BY StepsAreNatural DEF FocusTyped, Distance
<1> DEFINE n == 14 * Distance(p, last_focus)
           d == 10 * FrameTime
<1> HIDE DEF n, d
<1>2. n \div d \in Int
  BY <1>1 DEF n, d
<1> QED
  BY <1>2 DEF FocusWait, n, d

LEMMA InitTyped == FocusInit => FocusTyped
<1> SUFFICES ASSUME FocusInit PROVE FocusTyped
  OBVIOUS
<1>1. HasBest(<<>>) /\ <<>> \in Seq(Sample)
  BY DEF HasBest
<1>2. NoFocus \in Int /\ FocusMin + i_step \in Int /\ FocusMax \in Int /\ FocusMin \in Positions
      /\ FocusMin \in Int
  BY StepsAreNatural DEF NoFocus, Positions
<1>3. af \in FocusState /\ HasBest(af.samples)
  BY <1>1, <1>2 DEF FocusInit, FocusState
<1> QED
  BY <1>2, <1>3 DEF FocusInit, FocusTyped

(* What the threads write into the structure keeps its types.              *)
LEMMA AfTyped ==
  ASSUME FocusTyped, [FocusNext]_focusVars
  PROVE  af' \in FocusState /\ HasBest(af'.samples)
<1> USE FieldTypes, StepsAreNatural
<1>0. HasBest(<<>>) /\ <<>> \in Seq(Sample)
  BY DEF HasBest
<1>1. CASE StartSearch
  <2>1. FocusWait(af.left) \in Int
    BY FocusWaitIs
  <2> QED
    BY <1>1, <2>1 DEF StartSearch, FocusState
<1>2. CASE WaitForLens
  <2>1. \A n \in Int : LET c == [af EXCEPT !.focus_wait = n] IN c \in FocusState /\ c.samples = af.samples
    BY DEF FocusState
  <2>2. af.focus_wait - 1 \in Int
    BY DEF FocusState
  <2> QED
    BY <1>2, <2>1, <2>2 DEF WaitForLens
<1>3. CASE Measure
  <2>1. scene[lens] \in Nat
    BY SceneIs DEF FocusTyped
  <2> QED
    BY <1>3, <2>1 DEF Measure, FocusState
<1>4. CASE Decide
  BY <1>4, FocusValTyped DEF Decide
<1>5. CASE MoveLens
  <2>1. chosen \in Int
    BY DEF FocusTyped
  <2>2. FocusWait(chosen) \in Int /\ af.focus_wait \in Int
    BY <2>1, FocusWaitIs DEF FocusState
  <2> DEFINE n == IF chosen # last_focus THEN FocusWait(chosen) ELSE af.focus_wait
  <2>3. n \in Int
    BY <2>2
  <2>4. af' = [af EXCEPT !.focus = chosen, !.focus_wait = n]
    BY <1>5 DEF MoveLens
  <2> HIDE DEF n
  <2> QED
    BY <2>1, <2>3, <2>4 DEF FocusState
<1>6. CASE ClickSetFocus
  <2> DEFINE c(p, q, t) == [af EXCEPT !.setFocus = TRUE, !.samples = t, !.flag = 0, !.right = p, !.left = q]
  <2>1. \A p, q \in Int, t \in Seq(Sample) : c(p, q, t) \in FocusState /\ c(p, q, t).samples = t
    BY DEF FocusState
  <2>2. ClickLeft \in Int /\ ClickRight \in Int
    OBVIOUS
  <2>3. af' = c(ClickRight, ClickLeft, <<>>)
    BY <1>6 DEF ClickSetFocus
  <2> HIDE DEF c
  <2>4. af' \in FocusState /\ af'.samples = <<>>
    BY <1>0, <2>1, <2>2, <2>3
  <2> QED
    BY <1>0, <2>4
<1>7. CASE ResetFocus
  <2>1. NoFocus \in Int
    BY DEF NoFocus
  <2> QED
    BY <1>7, <2>1 DEF ResetFocus, FocusState
<1>8. CASE ToggleAutofocus
  <2>1. NoFocus \in Int
    BY DEF NoFocus
  <2> QED
    BY <1>0, <1>8, <2>1 DEF ToggleAutofocus, FocusState
<1>9. CASE AutofocusToggled
  <2>1. af' = [af EXCEPT !.right = FocusMax, !.left = i_step]
    BY <1>9 DEF AutofocusToggled
  <2>2. \A p, q \in Int : LET c == [af EXCEPT !.right = p, !.left = q] IN
                          c \in FocusState /\ c.samples = af.samples
    BY DEF FocusState
  <2>3. FocusMax \in Int /\ i_step \in Int
    OBVIOUS
  <2> QED
    BY <2>1, <2>2, <2>3
<1>10. CASE UNCHANGED focusVars
  BY <1>10 DEF focusVars
<1> QED
  BY <1>1, <1>2, <1>3, <1>4, <1>5, <1>6, <1>7, <1>8, <1>9, <1>10
  DEF FocusNext, FocusFrame, FocusCallback

LEMMA StepTyped == FocusTyped /\ [FocusNext]_focusVars => FocusTyped'
<1> SUFFICES ASSUME FocusTyped, [FocusNext]_focusVars PROVE FocusTyped'
  OBVIOUS
<1> USE FieldTypes, StepsAreNatural
<1>1. af' \in FocusState /\ HasBest(af'.samples) /\ af'.focus \in Int
  BY AfTyped DEF FocusState
<1>2. autofocus' \in BOOLEAN /\ scene' \in Scenes /\ clicks' \in Nat
  <2>1. CASE AutofocusToggled
    <3>1. autofocus' = ~autofocus
      BY <2>1 DEF AutofocusToggled
    <3>2. scene' = scene /\ clicks' = clicks
      BY <2>1 DEF AutofocusToggled
    <3> QED
      BY <3>1, <3>2 DEF FocusTyped
  <2>2. CASE FocusFrame \/ ResetFocus \/ UNCHANGED focusVars
    <3>1. autofocus' = autofocus /\ scene' = scene /\ clicks' = clicks
      BY <2>2 DEF FocusFrame, StartSearch, WaitForLens, Measure, Decide, MoveLens, ResetFocus,
              focusVars
    <3> QED
      BY <3>1 DEF FocusTyped
  <2>3. CASE ClickSetFocus \/ ToggleAutofocus
    <3>1. autofocus' = autofocus /\ scene' = scene /\ clicks' = clicks + 1
      BY <2>3 DEF ClickSetFocus, ToggleAutofocus
    <3> QED
      BY <3>1 DEF FocusTyped
  <2> QED
    BY <2>1, <2>2, <2>3 DEF FocusNext, FocusCallback
<1>3. /\ framepc' \in {"idle", "measured", "decided"}
      /\ clickpc' \in {"idle", "setfocus", "toggle"}
  BY DEF FocusNext, FocusFrame, FocusCallback, StartSearch, WaitForLens, Measure, Decide, MoveLens,
         ClickSetFocus, ResetFocus, ToggleAutofocus, AutofocusToggled, focusVars, FocusTyped
<1>4. search' \in [best : Nat, from : Int, met : BOOLEAN]
  <2>1. search \in [best : Nat, from : Int, met : BOOLEAN]
    BY DEF FocusTyped
  <2>2. ASSUME NEW m \in BOOLEAN
        PROVE  /\ [search EXCEPT !.met = m] \in [best : Nat, from : Int, met : BOOLEAN]
               /\ [search EXCEPT !.best = 0, !.met = m] \in [best : Nat, from : Int, met : BOOLEAN]
    BY <2>1
  <2>3. /\ Met \in BOOLEAN /\ (framepc # "idle") \in BOOLEAN
        /\ (search.met \/ framepc # "idle") \in BOOLEAN
    BY DEF Met
  <2>4. CASE Decide
    <3> DEFINE n == IF Sampling /\ af.sharpness > search.best THEN af.sharpness ELSE search.best
               f == IF af.flag = 2 THEN af.focus ELSE search.from
    <3>1. n \in Nat /\ f \in Int
      OBVIOUS
    <3>2. search' = [best |-> n, from |-> f, met |-> Met]
      BY <2>4 DEF Decide
    <3> HIDE DEF n, f
    <3> QED
      BY <2>3, <3>1, <3>2
  <2>5. CASE ClickSetFocus \/ ToggleAutofocus
    BY <2>2, <2>3, <2>5 DEF ClickSetFocus, ToggleAutofocus, MeetsFrame
  <2>6. CASE FocusCallback
    <3>1. search' = StillMeets
      BY <2>6 DEF FocusCallback, ResetFocus, AutofocusToggled
    <3>2. StillMeets = [search EXCEPT !.met = search.met \/ framepc # "idle"]
      BY <2>1 DEF StillMeets
    <3> QED
      BY <2>2, <2>3, <3>1, <3>2
  <2>7. CASE StartSearch
    BY <2>2, <2>3, <2>7 DEF StartSearch
  <2>8. CASE WaitForLens \/ Measure \/ MoveLens
    <3>1. search' = [search EXCEPT !.met = Met]
      BY <2>8 DEF WaitForLens, Measure, MoveLens
    <3> QED
      BY <2>2, <2>3, <3>1
  <2>9. CASE UNCHANGED focusVars
    BY <2>1, <2>9 DEF focusVars
  <2> QED
    BY <2>4, <2>5, <2>6, <2>7, <2>8, <2>9 DEF FocusNext, FocusFrame
<1>5. chosen' \in Positions
  BY FocusValTyped DEF FocusNext, FocusFrame, FocusCallback, StartSearch, WaitForLens, Measure,
         Decide, MoveLens, ClickSetFocus, ResetFocus, ToggleAutofocus, AutofocusToggled, focusVars,
         FocusTyped
<1>6. lens' \in Positions /\ last_focus' \in Int
  <2>1. InRange(af.left) \in Positions
    BY InRangeIs
  <2>2. FocusMin \in Positions
    BY DEF Positions
  <2> QED
    BY <2>1, <2>2 DEF FocusNext, FocusFrame, FocusCallback, StartSearch, WaitForLens, Measure,
         Decide, MoveLens, ClickSetFocus, ResetFocus, ToggleAutofocus, AutofocusToggled, focusVars,
         FocusTyped, SetToNoFocus
<1> QED
  BY <1>1, <1>2, <1>3, <1>4, <1>5, <1>6 DEF FocusTyped

(* Whatever the threads write over each other, the lens is only ever sent  *)
(* to positions of the control, also by a search that begins outside.      *)
THEOREM FocusTypes == FocusSpec => []FocusTyped
BY InitTyped, StepTyped, PTL DEF FocusSpec

-----------------------------------------------------------------------------
(***************************************************************************)
(* The threads.  As long as they do not meet, the lens is where the focus  *)
(* says, and a click finds the work on no frame begun.                     *)
(***************************************************************************)
Unmet == search.met = FALSE
Quiet == Unmet /\ clickpc = "idle"

ClickInv ==
  Unmet /\ clickpc # "idle" =>
    /\ framepc = "idle" /\ af.flag = 0 /\ af.samples = <<>>
    /\ clickpc = "setfocus" => af.left = ClickLeft
    /\ clickpc = "toggle" => af.focus < 0

ResetInv ==
  Quiet /\ af.focus < 0 =>
    framepc = "idle" /\ af.flag = 0 /\ af.samples = <<>> /\ af.left \in Starts

LensInv ==
  Quiet /\ af.focus >= 0 =>
    /\ lens = InRange(last_focus)
    /\ framepc = "decided" => chosen = af.focus
    /\ framepc # "decided" => last_focus = af.focus
    /\ framepc = "measured" => af.sharpness = scene[lens]

ThreadInv == ClickInv /\ ResetInv /\ LensInv

(* A frame meets a click that is not over; a click, a frame that is not.   *)
LEMMA MetIs ==
  ASSUME FocusTyped
  PROVE  /\ FocusFrame => (Unmet' => Quiet) /\ clickpc' = clickpc
         /\ ClickSetFocus \/ ToggleAutofocus => (Unmet' => framepc = "idle")
         /\ FocusCallback => (Unmet' => Unmet /\ framepc = "idle")
<1>1. search \in [best : Nat, from : Int, met : BOOLEAN] /\ search.met \in BOOLEAN
  BY DEF FocusTyped
<1>2. ASSUME FocusFrame PROVE (Unmet' => Quiet) /\ clickpc' = clickpc
  <2>1. search'.met = Met
    <3> DEFINE m == Met
    <3>1. CASE Decide
      <4>1. \E n, f : search' = [best |-> n, from |-> f, met |-> m]
        BY <3>1 DEF Decide
      <4> HIDE DEF m
      <4> QED
        BY <4>1 DEF m
    <3>2. CASE StartSearch
      <4>1. search' = [search EXCEPT !.best = 0, !.met = m]
        BY <3>2 DEF StartSearch
      <4> HIDE DEF m
      <4>2. search'.met = m
        BY <1>1, <4>1
      <4> QED
        BY <4>2 DEF m
    <3>3. CASE WaitForLens \/ Measure \/ MoveLens
      <4>1. search' = [search EXCEPT !.met = m]
        BY <3>3 DEF WaitForLens, Measure, MoveLens
      <4> HIDE DEF m
      <4>2. search'.met = m
        BY <1>1, <4>1
      <4> QED
        BY <4>2 DEF m
    <3> QED
      BY <1>2, <3>1, <3>2, <3>3 DEF FocusFrame
  <2>2. clickpc' = clickpc
    BY <1>2 DEF FocusFrame, StartSearch, WaitForLens, Measure, Decide, MoveLens
  <2>3. Met = FALSE => search.met = FALSE /\ clickpc = "idle"
    BY <1>1, Zenon DEF Met
  <2> QED
    BY <2>1, <2>2, <2>3, Zenon DEF Unmet, Quiet
<1>3. ASSUME ClickSetFocus \/ ToggleAutofocus PROVE Unmet' => framepc = "idle"
  <2>1. search'.met = (framepc # "idle")
    BY <1>1, <1>3 DEF ClickSetFocus, ToggleAutofocus, MeetsFrame
  <2> QED
    BY <2>1, Zenon DEF Unmet
<1>4. ASSUME FocusCallback PROVE Unmet' => Unmet /\ framepc = "idle"
  <2>1. search'.met = (search.met \/ framepc # "idle")
    BY <1>1, <1>4 DEF FocusCallback, ResetFocus, AutofocusToggled, StillMeets
  <2>2. (search.met \/ framepc # "idle") = FALSE => search.met = FALSE /\ framepc = "idle"
    BY <1>1, Zenon
  <2> QED
    BY <2>1, <2>2, Zenon DEF Unmet
<1> QED
  BY <1>2, <1>3, <1>4

(* What each of the clicks writes.                                         *)
LEMMA ClickWrites ==
  ASSUME FocusTyped
  PROVE  /\ ClickSetFocus =>
              /\ framepc' = framepc /\ clickpc' = "setfocus" /\ clickpc = "idle"
              /\ af'.flag = 0 /\ af'.samples = <<>> /\ af'.left = ClickLeft
         /\ ToggleAutofocus =>
              /\ framepc' = framepc /\ clickpc' = "toggle" /\ clickpc = "idle"
              /\ af'.flag = 0 /\ af'.samples = <<>> /\ af'.focus < 0
         /\ ResetFocus =>
              /\ framepc' = framepc /\ clickpc' = "idle" /\ clickpc = "setfocus"
              /\ af'.flag = af.flag /\ af'.samples = af.samples /\ af'.left = af.left
              /\ af'.focus < 0
         /\ AutofocusToggled =>
              /\ framepc' = framepc /\ clickpc' = "idle" /\ clickpc = "toggle"
              /\ af'.flag = af.flag /\ af'.samples = af.samples /\ af'.left = i_step
              /\ af'.focus = af.focus
<1>1. af \in FocusState
  BY DEF FocusTyped
<1>2. ASSUME ClickSetFocus
      PROVE  af'.flag = 0 /\ af'.samples = <<>> /\ af'.left = ClickLeft
  BY <1>1, <1>2 DEF ClickSetFocus, FocusState
<1>3. ASSUME ToggleAutofocus
      PROVE  af'.flag = 0 /\ af'.samples = <<>> /\ af'.focus < 0
  BY <1>1, <1>3 DEF ToggleAutofocus, FocusState, NoFocus
<1>4. ASSUME ResetFocus
      PROVE  /\ af'.flag = af.flag /\ af'.samples = af.samples /\ af'.left = af.left
             /\ af'.focus < 0
  BY <1>1, <1>4 DEF ResetFocus, FocusState, NoFocus
<1>5. ASSUME AutofocusToggled
      PROVE  /\ af'.flag = af.flag /\ af'.samples = af.samples /\ af'.left = i_step
             /\ af'.focus = af.focus
  <2>1. af' = [af EXCEPT !.right = FocusMax, !.left = i_step]
    BY <1>5 DEF AutofocusToggled
  <2> QED
    BY <1>1, <2>1 DEF FocusState
<1>6. ClickSetFocus => framepc' = framepc /\ clickpc' = "setfocus" /\ clickpc = "idle"
  BY DEF ClickSetFocus
<1>7. ToggleAutofocus => framepc' = framepc /\ clickpc' = "toggle" /\ clickpc = "idle"
  BY DEF ToggleAutofocus
<1>8. ResetFocus => framepc' = framepc /\ clickpc' = "idle" /\ clickpc = "setfocus"
  BY DEF ResetFocus
<1>9. AutofocusToggled => framepc' = framepc /\ clickpc' = "idle" /\ clickpc = "toggle"
  BY DEF AutofocusToggled
<1> QED
  BY <1>2, <1>3, <1>4, <1>5, <1>6, <1>7, <1>8, <1>9

LEMMA InitThreads == FocusInit => ThreadInv
<1> SUFFICES ASSUME FocusInit PROVE ThreadInv
  OBVIOUS
<1>1. /\ clickpc = "idle" /\ framepc = "idle" /\ af.focus = NoFocus /\ af.flag = 0
      /\ af.samples = <<>> /\ af.left = FocusMin + i_step
  BY DEF FocusInit
<1>2. NoFocus < 0 /\ NoFocus \in Int
  BY DEF NoFocus
<1> QED
  BY <1>1, <1>2 DEF ThreadInv, ClickInv, ResetInv, LensInv, Quiet, Starts

LEMMA StepThreads == FocusTyped /\ ThreadInv /\ [FocusNext]_focusVars => ThreadInv'
<1> SUFFICES ASSUME FocusTyped, ThreadInv, [FocusNext]_focusVars PROVE ThreadInv'
  OBVIOUS
<1> USE FieldTypes, MetIs
<1>0. af'.focus \in Int
  BY AfTyped DEF FocusState
<1>1. CASE ClickSetFocus \/ ToggleAutofocus
  BY <1>0, <1>1, ClickWrites DEF ThreadInv, ClickInv, ResetInv, LensInv, Quiet
<1>2. CASE ResetFocus
  BY <1>0, <1>2, ClickWrites, SMTT(30) DEF ThreadInv, ClickInv, ResetInv, LensInv, Quiet, FocusCallback, Starts
<1>3. CASE AutofocusToggled
  BY <1>0, <1>3, ClickWrites DEF ThreadInv, ClickInv, ResetInv, LensInv, Quiet, FocusCallback, Starts
<1>4. CASE FocusFrame
  <2>1. ClickInv'
    BY <1>4 DEF ClickInv, Quiet
  <2> SUFFICES ASSUME Quiet, Quiet' PROVE ResetInv' /\ LensInv'
    BY <1>4, <2>1 DEF ThreadInv, ResetInv, LensInv, Quiet
  <2>2. CASE StartSearch
    <3>1. /\ framepc = "idle" /\ framepc' = "idle" /\ af.focus < 0
          /\ af'.focus = af.left /\ lens' = InRange(af.left) /\ last_focus' = af.left
      BY <2>2 DEF StartSearch, FocusState
    <3>2. af.left \in Starts
      BY <3>1 DEF ThreadInv, ResetInv
    <3>3. af.left >= 0
      BY <3>2, StepsAreNatural DEF Starts
    <3> QED
      BY <3>1, <3>3 DEF ResetInv, LensInv
  <2>3. CASE WaitForLens
    <3>1. /\ framepc = "idle" /\ framepc' = "idle" /\ lens' = lens /\ last_focus' = last_focus
          /\ af'.focus = af.focus /\ af.focus >= 0
      BY <2>3 DEF WaitForLens, FocusState
    <3> QED
      BY <3>1 DEF ThreadInv, ResetInv, LensInv
  <2>4. CASE Measure
    <3>1. /\ framepc = "idle" /\ framepc' = "measured" /\ lens' = lens /\ last_focus' = last_focus
          /\ af'.focus = af.focus /\ af.focus >= 0 /\ scene' = scene /\ af'.sharpness = scene[lens]
      BY <2>4 DEF Measure, FocusState
    <3> QED
      BY <3>1 DEF ThreadInv, ResetInv, LensInv
  <2>5. CASE Decide
    <3>1. /\ framepc = "measured" /\ framepc' = "decided" /\ lens' = lens /\ last_focus' = last_focus
          /\ chosen' = af'.focus
      BY <2>5 DEF Decide
    <3>2. af'.focus \in Positions
      BY <2>5, FocusValTyped DEF Decide
    <3>3. af.focus >= 0
      BY <3>1 DEF ThreadInv, ResetInv
    <3>4. af'.focus >= 0
      BY <3>2, StepsAreNatural DEF Positions
    <3> QED
      BY <1>0, <3>1, <3>3, <3>4 DEF ThreadInv, ResetInv, LensInv
  <2>6. CASE MoveLens
    <3>1. /\ framepc = "decided" /\ framepc' = "idle" /\ last_focus' = chosen
          /\ af'.focus = chosen
          /\ lens' = IF chosen # last_focus THEN chosen ELSE lens
      BY <2>6 DEF MoveLens, FocusState
    <3>2. chosen \in Positions /\ chosen >= 0 /\ chosen \in Int
      BY StepsAreNatural DEF FocusTyped, Positions
    <3>3. InRange(chosen) = chosen
      BY <3>2, InRangeIs
    <3>4. af.focus >= 0
      BY <3>1 DEF ThreadInv, ResetInv
    <3>5. lens = InRange(last_focus)
      BY <3>4 DEF ThreadInv, LensInv
    <3>6. lens' = InRange(chosen)
      BY <3>1, <3>3, <3>5
    <3> QED
      BY <3>1, <3>2, <3>6 DEF ResetInv, LensInv
  <2> QED
    BY <1>4, <2>2, <2>3, <2>4, <2>5, <2>6 DEF FocusFrame
<1>5. CASE UNCHANGED focusVars
  BY <1>5 DEF ThreadInv, ClickInv, ResetInv, LensInv, Quiet, Unmet, focusVars
<1> QED
  BY <1>1, <1>2, <1>3, <1>4, <1>5 DEF FocusNext, FocusCallback

-----------------------------------------------------------------------------
(***************************************************************************)
(* A round of tracking: where it began is kept in the history, and the     *)
(* sharpness of the focus and of its right is that of the scene there.     *)
(***************************************************************************)
TrackInv ==
  Quiet /\ af.focus >= 0 /\ af.step = i_step /\ TrackInside(search.from) =>
    /\ af.flag = 3 => /\ af.focus_sharpness = scene[search.from]
                      /\ af.focus = search.from + i_step
    /\ af.flag = 4 => /\ af.focus_sharpness = scene[search.from]
                      /\ af.focus = search.from - i_step
                      /\ af.sharpRight = scene[search.from + i_step]

(* Away from the ends of the range a step to either side stays in it.      *)
LEMMA InsideIs ==
  ASSUME NEW p \in Int, TrackInside(p)
  PROVE  p \in Positions /\ p - i_step \in Positions /\ p + i_step \in Positions
BY StepsAreNatural DEF TrackInside, Positions

(* A search goes on or leads to tracking, a round of tracking has three    *)
(* steps, and only a search that the user asked for is over at flag 2.     *)
LEMMA FlagIs ==
  ASSUME NEW a \in FocusState, HasBest(a.samples)
  PROVE  LET f == getFocusVal(a).flag IN
         /\ a.flag = 0 => f \in {0, 1}
         /\ a.flag = 1 => f \in {1, 2}
         /\ a.flag = 2 /\ a.setFocus = TRUE => f = 0
         /\ a.flag = 2 /\ a.setFocus = FALSE => f = 3
         /\ a.flag = 3 => f = 4
         /\ a.flag = 4 => f = 2
<1>1. /\ Coarse(a).flag \in {0, 1} \/ a.flag # 0
      /\ Fine(a).flag \in {1, 2} \/ a.flag # 1
      /\ SearchDone(a).flag = 0 /\ TrackRight(a).flag = 3 /\ TrackLeft(a).flag = 4
  BY DEF Coarse, Fine, SearchDone, TrackRight, TrackLeft, FocusState
<1>2. \A c : Clipped(c).flag = c.flag
  BY DEF Clipped
<1>3. TrackEnd(a).flag = 2
  BY DEF TrackEnd, GoBack
<1>4. /\ a.flag = 0 => getFocusVal(a) = Clipped(Coarse(a))
      /\ a.flag = 1 => getFocusVal(a) = Clipped(Fine(a))
      /\ a.flag = 2 /\ a.setFocus = TRUE => getFocusVal(a) = Clipped(SearchDone(a))
      /\ a.flag = 2 /\ a.setFocus = FALSE => getFocusVal(a) = Clipped(TrackRight(a))
      /\ a.flag = 3 => getFocusVal(a) = Clipped(TrackLeft(a))
      /\ a.flag = 4 => getFocusVal(a) = Clipped(TrackEnd(a))
  BY DEF getFocusVal
<1> QED
  BY <1>1, <1>2, <1>3, <1>4

(* The first two steps of a round: to the right of the focus, and to its   *)
(* left.                                                                   *)
LEMMA TrackRightIs ==
  ASSUME NEW a \in FocusState, a.flag = 2, a.setFocus = FALSE
  PROVE  LET c == getFocusVal(a) IN
         /\ c.flag = 3 /\ c.focus = InRange(a.focus + a.step) /\ c.step = a.step
         /\ c.focus_sharpness = a.sharpness
<1>1. getFocusVal(a) = Clipped(TrackRight(a))
  BY DEF getFocusVal
<1> DEFINE t == TrackRight(a)
<1>2. /\ t.flag = 3 /\ t.focus = a.focus + a.step /\ t.step = a.step
      /\ t.focus_sharpness = a.sharpness
  BY DEF TrackRight, FocusState
<1>3. /\ Clipped(t).flag = t.flag /\ Clipped(t).focus = InRange(t.focus)
      /\ Clipped(t).step = t.step /\ Clipped(t).focus_sharpness = t.focus_sharpness
  BY DEF Clipped, TrackRight, FocusState
<1> QED
  BY <1>1, <1>2, <1>3

LEMMA TrackLeftIs ==
  ASSUME NEW a \in FocusState, a.flag = 3
  PROVE  LET c == getFocusVal(a) IN
         /\ c.flag = 4 /\ c.focus = InRange(a.focus - 2 * a.step) /\ c.step = a.step
         /\ c.focus_sharpness = a.focus_sharpness /\ c.sharpRight = a.sharpness
<1>1. getFocusVal(a) = Clipped(TrackLeft(a))
  BY DEF getFocusVal
<1> DEFINE t == TrackLeft(a)
<1>2. /\ t.flag = 4 /\ t.focus = a.focus - 2 * a.step /\ t.step = a.step
      /\ t.focus_sharpness = a.focus_sharpness /\ t.sharpRight = a.sharpness
  BY DEF TrackLeft, FocusState
<1>3. /\ Clipped(t).flag = t.flag /\ Clipped(t).focus = InRange(t.focus)
      /\ Clipped(t).step = t.step /\ Clipped(t).focus_sharpness = t.focus_sharpness
      /\ Clipped(t).sharpRight = t.sharpRight
  BY DEF Clipped, TrackLeft, FocusState
<1> QED
  BY <1>1, <1>2, <1>3

(* Only the work on a frame changes what tracking looks at.                *)
LEMMA FrameKeeps ==
  ASSUME FocusTyped, WaitForLens \/ Measure \/ MoveLens
  PROVE  /\ af'.left = af.left /\ af'.right = af.right /\ af'.flag = af.flag
         /\ af'.setFocus = af.setFocus /\ af'.samples = af.samples /\ af'.step = af.step
         /\ af'.focus_sharpness = af.focus_sharpness /\ af'.sharpLeft = af.sharpLeft
         /\ af'.sharpRight = af.sharpRight
         /\ search'.best = search.best /\ search'.from = search.from /\ scene' = scene
         /\ MoveLens => framepc = "decided" /\ af'.focus = chosen
         /\ ~MoveLens => af'.focus = af.focus
<1>1. /\ af'.left = af.left /\ af'.right = af.right /\ af'.flag = af.flag
      /\ af'.setFocus = af.setFocus /\ af'.samples = af.samples /\ af'.step = af.step
      /\ af'.focus_sharpness = af.focus_sharpness /\ af'.sharpLeft = af.sharpLeft
      /\ af'.sharpRight = af.sharpRight
  BY FieldTypes DEF WaitForLens, Measure, MoveLens, FocusState
<1>2. search' = [search EXCEPT !.met = Met] /\ scene' = scene
  BY DEF WaitForLens, Measure, MoveLens
<1>3. search'.best = search.best /\ search'.from = search.from
  BY <1>2 DEF FocusTyped
<1>4. MoveLens => framepc = "decided" /\ af'.focus = chosen
  BY FieldTypes DEF MoveLens, FocusState
<1>5. WaitForLens \/ Measure => af'.focus = af.focus
  BY FieldTypes DEF WaitForLens, Measure, FocusState
<1> QED
  BY <1>1, <1>2, <1>3, <1>4, <1>5

LEMMA StepTrack ==
  FocusTyped /\ ThreadInv /\ TrackInv /\ [FocusNext]_focusVars => TrackInv'
<1> SUFFICES ASSUME FocusTyped, ThreadInv, TrackInv, [FocusNext]_focusVars,
                    Quiet', af'.focus >= 0, af'.step = i_step, TrackInside(search'.from),
                    af'.flag \in {3, 4}
             PROVE  /\ af'.focus_sharpness = scene'[search'.from]
                    /\ af'.flag = 3 => af'.focus = search'.from + i_step
                    /\ af'.flag = 4 => /\ af'.focus = search'.from - i_step
                                       /\ af'.sharpRight = scene'[search'.from + i_step]
  BY DEF TrackInv, TrackInside
<1> USE FieldTypes, MetIs
<1>0. af'.focus \in Int
  BY AfTyped DEF FocusState
<1>1. CASE ClickSetFocus \/ ToggleAutofocus
  BY <1>1, ClickWrites DEF Quiet
<1>2. CASE ResetFocus
  BY <1>0, <1>2, ClickWrites
<1>3. CASE AutofocusToggled
  BY <1>0, <1>3, ClickWrites DEF ThreadInv, ClickInv, FocusCallback, Quiet
<1>4. CASE StartSearch
  <2>1. Quiet /\ af.focus < 0
    BY <1>4 DEF Quiet, FocusFrame, StartSearch
  <2>2. af'.flag = af.flag
    BY <1>4 DEF StartSearch, FocusState
  <2> QED
    BY <2>1, <2>2 DEF ThreadInv, ResetInv
<1>5. CASE WaitForLens \/ Measure \/ MoveLens
  <2>1. Quiet
    BY <1>5 DEF Quiet, FocusFrame
  <2>2. af'.focus = af.focus
    BY <1>5, <2>1, FrameKeeps DEF ThreadInv, ResetInv, LensInv
  <2> QED
    BY <1>5, <2>1, <2>2, FrameKeeps DEF TrackInv
<1>6. CASE Decide
  <2>1. Quiet
    BY <1>6 DEF Quiet, FocusFrame
  <2>2. framepc = "measured" /\ af' = getFocusVal(af) /\ scene' = scene
    BY <1>6 DEF Decide
  <2>3. search'.from = IF af.flag = 2 THEN af.focus ELSE search.from
    BY <1>6 DEF Decide
  <2>4. af.focus >= 0 /\ af.focus = last_focus /\ lens = InRange(af.focus)
        /\ af.sharpness = scene[lens]
    BY <2>1, <2>2 DEF ThreadInv, ResetInv, LensInv
  <2>5. CASE af.flag = 2
    <3>1. af.setFocus = FALSE
      <4>1. af.setFocus = TRUE => af'.flag = 0
        BY <2>2, <2>5, FlagIs
      <4> QED
        BY <4>1, SwitchTypes, SMTT(30)
    <3>2. /\ af'.flag = 3 /\ af'.focus = InRange(af.focus + i_step)
          /\ af'.focus_sharpness = af.sharpness
      BY <2>2, <2>5, <3>1, TrackRightIs
    <3>3. TrackInside(af.focus) /\ search'.from = af.focus
      BY <2>3, <2>5
    <3>4. af.focus \in Positions /\ af.focus + i_step \in Positions
      BY <3>3, InsideIs
    <3>5. lens = af.focus /\ InRange(af.focus + i_step) = af.focus + i_step
      BY <2>4, <3>4, InRangeIs
    <3> QED
      BY <2>2, <2>4, <3>2, <3>3, <3>5
  <2>6. CASE af.flag = 3
    <3>1. /\ af'.flag = 4 /\ af'.focus = InRange(af.focus - 2 * i_step) /\ af.step = i_step
          /\ af'.focus_sharpness = af.focus_sharpness /\ af'.sharpRight = af.sharpness
      BY <2>2, <2>6, TrackLeftIs
    <3>2. TrackInside(search.from) /\ search'.from = search.from
      BY <2>3, <2>6
    <3>3. af.focus_sharpness = scene[search.from] /\ af.focus = search.from + i_step
      BY <2>1, <2>4, <2>6, <3>1, <3>2 DEF TrackInv
    <3>4. af.focus \in Positions /\ search.from - i_step \in Positions
      BY <3>2, <3>3, InsideIs
    <3>5. af.focus - 2 * i_step = search.from - i_step
      BY <3>3, StepsAreNatural
    <3>6. lens = af.focus /\ InRange(af.focus - 2 * i_step) = search.from - i_step
      BY <2>4, <3>4, <3>5, InRangeIs
    <3> QED
      BY <2>2, <2>4, <3>1, <3>2, <3>3, <3>6
  <2>7. CASE af.flag \in {0, 1, 4}
    <3>1. af'.flag \in {0, 1, 2}
      BY <2>2, <2>7, FlagIs
    <3> QED
      BY <3>1
  <2> QED
    BY <2>5, <2>6, <2>7
<1>7. CASE UNCHANGED focusVars
  BY <1>7 DEF TrackInv, Quiet, Unmet, focusVars
<1> QED
  BY <1>1, <1>2, <1>3, <1>4, <1>5, <1>6, <1>7 DEF FocusNext, FocusFrame, FocusCallback

(* A side that gets more votes than the other one is not less sharp than   *)
(* the focus by more than the threshold.                                   *)
LEMMA VotesAre ==
  ASSUME NEW b \in FocusState
  PROVE  LET much(v) == Distance(v, b.focus_sharpness) >= b.focus_sharpness \div TH
             more(v) == v > b.focus_sharpness
         IN  /\ Votes(b, "left") = (IF much(b.sharpLeft) /\ more(b.sharpLeft) THEN 1 ELSE 0)
                                 + (IF much(b.sharpRight) /\ ~more(b.sharpRight) THEN 1 ELSE 0)
             /\ Votes(b, "right") = (IF much(b.sharpLeft) /\ ~more(b.sharpLeft) THEN 1 ELSE 0)
                                  + (IF much(b.sharpRight) /\ more(b.sharpRight) THEN 1 ELSE 0)
BY DEF Votes

LEMMA VotesKeepSharp ==
  ASSUME NEW b \in FocusState
  PROVE  LET little == b.focus_sharpness \div TH IN
         /\ Votes(b, "left") > Votes(b, "right") => b.sharpLeft + little >= b.focus_sharpness
         /\ ~(Votes(b, "left") > Votes(b, "right")) /\ Votes(b, "left") # Votes(b, "right")
            => b.sharpRight + little >= b.focus_sharpness
<1> DEFINE f == b.focus_sharpness
           l == b.sharpLeft
           r == b.sharpRight
           little == f \div TH
<1>1. f \in Nat /\ l \in Nat /\ r \in Nat /\ little \in Nat
  BY DEF FocusState, TH
<1>2. /\ Votes(b, "left") = (IF Distance(l, f) >= little /\ l > f THEN 1 ELSE 0)
                          + (IF Distance(r, f) >= little /\ ~(r > f) THEN 1 ELSE 0)
      /\ Votes(b, "right") = (IF Distance(l, f) >= little /\ ~(l > f) THEN 1 ELSE 0)
                           + (IF Distance(r, f) >= little /\ r > f THEN 1 ELSE 0)
  BY VotesAre
<1> DEFINE vl == Votes(b, "left")
           vr == Votes(b, "right")
<1> HIDE DEF f, l, r, little, vl, vr
<1>3. /\ vl = (IF Distance(l, f) >= little /\ l > f THEN 1 ELSE 0)
            + (IF Distance(r, f) >= little /\ ~(r > f) THEN 1 ELSE 0)
      /\ vr = (IF Distance(l, f) >= little /\ ~(l > f) THEN 1 ELSE 0)
            + (IF Distance(r, f) >= little /\ r > f THEN 1 ELSE 0)
  BY <1>2 DEF vl, vr
<1>4. vl > vr => l + little >= f
  BY <1>1, <1>3 DEF Distance
<1>5. ~(vl > vr) /\ vl # vr => r + little >= f
  BY <1>1, <1>3 DEF Distance
<1> QED
  BY <1>4, <1>5 DEF f, l, r, little, vl, vr

(* With the small step the verdict sends the lens back, on, or to a side   *)
(* that has the votes.                                                     *)
LEMMA VerdictKeepsSharp ==
  ASSUME NEW b \in FocusState, b.step = i_step
  PROVE  LET little == b.focus_sharpness \div TH IN
         /\ checkFocus(b) \in {"flat", "incstep", "left", "right"}
         /\ checkFocus(b) = "left" => b.sharpLeft + little >= b.focus_sharpness
         /\ checkFocus(b) = "right" => b.sharpRight + little >= b.focus_sharpness
<1>1. ~(b.step > i_step)
  BY StepsAreNatural
<1> DEFINE left == Votes(b, "left") > Votes(b, "right")
           even == Votes(b, "left") = Votes(b, "right")
<1>2. /\ checkFocus(b) \in {"flat", "incstep", "left", "right"}
      /\ checkFocus(b) = "left" => ~even /\ left
      /\ checkFocus(b) = "right" => ~even /\ ~left
  BY <1>1, Zenon DEF checkFocus
<1> QED
  BY <1>2, VotesKeepSharp

(* Where a round with the small step ends.                                 *)
LEMMA TrackEndIs ==
  ASSUME NEW a \in FocusState, a.flag = 4, a.step = i_step, a.focus_sharpness >= Lost,
         NEW p \in Int, a.focus = p - i_step
  PROVE  LET little == a.focus_sharpness \div TH
             f == getFocusVal(a).focus
         IN  \/ f = InRange(p)
             \/ f = InRange(p - i_step) /\ a.sharpness + little >= a.focus_sharpness
             \/ f = InRange(p + i_step) /\ a.sharpRight + little >= a.focus_sharpness
<1> DEFINE b == [a EXCEPT !.sharpLeft = a.sharpness, !.flag = 2]
           v == checkFocus(b)
           little == a.focus_sharpness \div TH
<1>1. /\ b \in FocusState /\ b.step = i_step /\ b.focus = p - i_step /\ b.sharpLeft = a.sharpness
      /\ b.sharpRight = a.sharpRight /\ b.focus_sharpness = a.focus_sharpness
  BY DEF FocusState
<1>2. /\ v \in {"flat", "incstep", "left", "right"}
      /\ v = "left" => a.sharpness + little >= a.focus_sharpness
      /\ v = "right" => a.sharpRight + little >= a.focus_sharpness
  <2> HIDE DEF b
  <2>1. LET small == b.focus_sharpness \div TH IN
        /\ checkFocus(b) \in {"flat", "incstep", "left", "right"}
        /\ checkFocus(b) = "left" => b.sharpLeft + small >= b.focus_sharpness
        /\ checkFocus(b) = "right" => b.sharpRight + small >= b.focus_sharpness
    BY <1>1, VerdictKeepsSharp
  <2> QED
    BY <1>1, <2>1
<1>3. ~(a.focus_sharpness < Lost)
  BY DEF FocusState, Lost, TH
<1>4. getFocusVal(a) = Clipped(TrackEnd(a)) /\ TrackEnd(a) \in FocusState
  BY TrackEndTyped DEF getFocusVal
<1>5. getFocusVal(a).focus = InRange(TrackEnd(a).focus)
  BY <1>4, ClippedIs
<1> HIDE DEF b
<1>6. /\ v = "flat" => TrackEnd(a) = GoBack(b)
      /\ v = "incstep" => TrackEnd(a) = [b EXCEPT !.focus = @ + a.step, !.step = 2 * i_step]
      /\ v = "left" => TrackEnd(a) = b
      /\ v = "right" => TrackEnd(a) = [b EXCEPT !.focus = @ + 2 * a.step]
  <2> HIDE DEF v
  <2>1. TrackEnd(a) =
          CASE v = "local_max" -> [b EXCEPT !.focus = @ + a.step, !.step = i_step]
            [] v = "incstep"   -> [b EXCEPT !.focus = @ + a.step, !.step = 2 * i_step]
            [] v = "right"     -> [b EXCEPT !.focus = @ + 2 * a.step]
            [] v = "left"      -> b
            [] v = "flat" /\ a.focus_sharpness < Lost ->
                 [b EXCEPT !.focus = FocusMax \div 2, !.step = i_step]
            [] OTHER           -> GoBack(b)
    BY DEF TrackEnd, b, v
  <2> QED
    BY <1>3, <2>1
<1>7. \A n \in Int, k \in Nat : /\ [b EXCEPT !.focus = n].focus = n
                              /\ [b EXCEPT !.focus = n, !.step = k].focus = n
  BY <1>1 DEF FocusState
<1>8. /\ b.focus + i_step = p /\ b.focus + a.step = p /\ b.focus + 2 * a.step = p + i_step
      /\ p \in Int /\ p + i_step \in Int /\ i_step \in Nat /\ 2 * i_step \in Nat
  BY <1>1, StepsAreNatural
<1>9. /\ v = "flat" => TrackEnd(a).focus = p
      /\ v = "incstep" => TrackEnd(a).focus = p
      /\ v = "left" => TrackEnd(a).focus = p - i_step
      /\ v = "right" => TrackEnd(a).focus = p + i_step
  <2> HIDE DEF v
  <2>1. /\ GoBack(b) = [b EXCEPT !.focus = p, !.step = a.step]
        /\ [b EXCEPT !.focus = @ + a.step, !.step = 2 * i_step]
             = [b EXCEPT !.focus = p, !.step = 2 * i_step]
        /\ [b EXCEPT !.focus = @ + 2 * a.step] = [b EXCEPT !.focus = p + i_step]
    BY <1>8 DEF GoBack
  <2>2. GoBack(b).focus = p
    BY <1>7, <1>8, <2>1
  <2>3. [b EXCEPT !.focus = @ + a.step, !.step = 2 * i_step].focus = p
    BY <1>7, <1>8, <2>1
  <2>4. [b EXCEPT !.focus = @ + 2 * a.step].focus = p + i_step
    BY <1>7, <1>8, <2>1
  <2> QED
    BY <1>1, <1>6, <2>2, <2>3, <2>4
<1> HIDE DEF v, little
<1>10. \/ v = "flat" \/ v = "incstep"
       \/ v = "left" /\ a.sharpness + little >= a.focus_sharpness
       \/ v = "right" /\ a.sharpRight + little >= a.focus_sharpness
  BY <1>2
<1> QED
  BY <1>5, <1>9, <1>10 DEF little

(* Wherever tracking is, in every range and with every scene: a round with *)
(* the small step ends where the picture is no less sharp than the         *)
(* threshold allows.                                                       *)
THEOREM TrackingKeepsSharp == FocusSpec => TrackKeepsSharp
<1> DEFINE Inv == FocusTyped /\ ThreadInv /\ TrackInv
           Kept == (/\ af.flag = 4 /\ af'.flag = 2 /\ framepc = "measured" /\ ~search.met
                    /\ af.step = i_step /\ TrackInside(search.from) /\ af.focus_sharpness >= Lost)
                   => scene[af'.focus] + af.focus_sharpness \div TH >= scene[search.from]
<1>1. FocusInit => Inv
  <2>1. FocusInit => TrackInv
    BY DEF FocusInit, TrackInv
  <2> QED
    BY <2>1, InitTyped, InitThreads
<1>2. Inv /\ [FocusNext]_focusVars => Inv'
  BY StepTyped, StepThreads, StepTrack
<1>3. ASSUME Inv, [FocusNext]_focusVars, af.flag = 4, af'.flag = 2, framepc = "measured", ~search.met,
             af.step = i_step, TrackInside(search.from), af.focus_sharpness >= Lost
      PROVE  scene[af'.focus] + af.focus_sharpness \div TH >= scene[search.from]
  <2>1. Unmet /\ Quiet
    <3>1. search.met = FALSE
      BY <1>3, SwitchTypes, Zenon
    <3> QED
      BY <1>3, <3>1 DEF Unmet, Quiet, ThreadInv, ClickInv
  <2>2. af.focus >= 0
    BY <1>3, <2>1, FieldTypes DEF ThreadInv, ResetInv
  <2>3. /\ af.focus_sharpness = scene[search.from] /\ af.focus = search.from - i_step
        /\ af.sharpRight = scene[search.from + i_step]
        /\ af.sharpness = scene[lens] /\ lens = InRange(af.focus)
    BY <1>3, <2>1, <2>2 DEF TrackInv, ThreadInv, LensInv
  <2>4. /\ search.from \in Positions /\ search.from - i_step \in Positions
        /\ search.from + i_step \in Positions /\ search.from \in Int
    BY <1>3, FieldTypes, InsideIs
  <2>5. af.sharpness = scene[search.from - i_step]
    BY <2>3, <2>4, StepsAreNatural, InRangeIs
  <2>6. Decide
    <3>1. ~(StartSearch \/ WaitForLens \/ Measure \/ MoveLens)
      BY <1>3 DEF StartSearch, WaitForLens, Measure, MoveLens
    <3>2. ~(ClickSetFocus \/ ToggleAutofocus \/ FocusCallback)
      BY <1>3, ClickWrites DEF FocusCallback
    <3>3. ~UNCHANGED focusVars
      BY <1>3 DEF focusVars
    <3> QED
      BY <1>3, <3>1, <3>2, <3>3 DEF FocusNext, FocusFrame
  <2>7. af' = getFocusVal(af)
    BY <2>6 DEF Decide
  <2> DEFINE p == search.from
             little == af.focus_sharpness \div TH
  <2>8. \/ af'.focus = InRange(p)
        \/ af'.focus = InRange(p - i_step) /\ af.sharpness + little >= af.focus_sharpness
        \/ af'.focus = InRange(p + i_step) /\ af.sharpRight + little >= af.focus_sharpness
    BY <1>3, <2>3, <2>4, <2>7, FieldTypes, TrackEndIs
  <2>9. InRange(p) = p /\ InRange(p - i_step) = p - i_step /\ InRange(p + i_step) = p + i_step
    BY <2>4, StepsAreNatural, InRangeIs
  <2>10. little \in Nat
    BY FieldTypes, <1>3, SMTT(30) DEF TH
  <2>11. scene[p] \in Nat
    BY <1>3, <2>4, SceneIs
  <2> HIDE DEF little
  <2>12. scene[af'.focus] + little >= scene[p]
    BY <2>3, <2>5, <2>8, <2>9, <2>10, <2>11
  <2> QED
    BY <2>12 DEF little
<1>4. Inv /\ [FocusNext]_focusVars => [Kept]_focusVars
  BY <1>3
<1> QED
  BY <1>1, <1>2, <1>4, PTL DEF FocusSpec, TrackKeepsSharp

-----------------------------------------------------------------------------
(***************************************************************************)
(* A search that the user asked for.  The coarse samples are i_step or     *)
(* more from the beginning of the range, so that the fine ones begin right *)
(* i_step before the best of them, and come to it.                         *)
(***************************************************************************)
Asked == af.setFocus = TRUE
Searching == Quiet /\ Asked /\ af.focus >= 0 /\ FineMeetsCoarse

RoomLeft(p) == p \in Positions /\ p - i_step \in Positions

(* Some sample is as sharp as the best one seen, or nothing was seen.      *)
Kept(samples, best) == \E j \in 1 .. Len(samples) : samples[j].sharp >= best

(* The best coarse sample is still ahead of the fine ones.                 *)
Ahead(focus, right, best, seen) ==
  \E m \in Nat, p \in Positions : p = focus + m * fine /\ p <= right /\ seen[p] >= best

SamplesInv ==
  af.flag \in {0, 1} =>
    \A j \in 1 .. Len(af.samples) :
       /\ af.samples[j].foc \in Positions
       /\ af.samples[j].sharp = scene[af.samples[j].foc]
       /\ af.flag = 0 => RoomLeft(af.samples[j].foc)

BestInv ==
  /\ af.flag = 0 => search.best = 0 \/ Kept(af.samples, search.best)
  /\ af.flag = 1 => \/ Kept(af.samples, search.best)
                    \/ Ahead(af.focus, af.right, search.best, scene)
  /\ af.flag = 2 => scene[af.focus] >= search.best

SearchInv ==
  Searching =>
    /\ af.flag \in {0, 1, 2} /\ af.focus \in Positions
    /\ af.flag = 0 => RoomLeft(af.focus)
    /\ SamplesInv /\ BestInv

(* The fine step divides i_step.                                           *)
LEMMA FineDivides ==
  ASSUME i_step % fine = 0
  PROVE  \E m \in Nat : i_step = m * fine
<1> DEFINE f == fine
           i == i_step
<1>1. i \in Nat /\ f \in Nat /\ f > 0 /\ i % f = 0
  BY StepsAreNatural
<1> HIDE DEF f, i
<1>2. \E m \in Nat : i = m * f
  BY <1>1, SMTT(30)
<1> QED
  BY <1>2 DEF f, i

(* A sample taken where the lens is joins the others.                      *)
LEMMA SampledKeeps ==
  ASSUME NEW a \in FocusState, HasBest(a.samples), NEW best \in Nat
  PROVE  LET b == IF a.sharpness > best THEN a.sharpness ELSE best IN
         /\ best = 0 \/ Kept(a.samples, best) \/ a.sharpness >= best => Kept(Sampled(a), b)
         /\ a.sharpness > best => Kept(Sampled(a), b)
<1> DEFINE n == Len(a.samples)
           s == Sampled(a)
           b == IF a.sharpness > best THEN a.sharpness ELSE best
<1>1. /\ n \in Nat /\ Len(s) = n + 1 /\ s[n + 1].sharp = a.sharpness
      /\ \A j \in 1 .. n : s[j] = a.samples[j]
  BY SampledIs
<1>2. a.sharpness \in Nat /\ n + 1 \in 1 .. n + 1
  BY <1>1 DEF FocusState
<1> HIDE DEF s
<1>3. a.sharpness >= best => Kept(s, b)
  BY <1>1, <1>2 DEF Kept
<1>4. ASSUME Kept(a.samples, best), ~(a.sharpness > best)
      PROVE  Kept(s, b)
  <2>1. PICK j \in 1 .. n : a.samples[j].sharp >= best
    BY <1>4 DEF Kept
  <2>2. j \in 1 .. n + 1 /\ s[j] = a.samples[j]
    BY <1>1, <2>1
  <2> QED
    BY <1>1, <1>4, <2>1, <2>2 DEF Kept
<1> QED
  BY <1>2, <1>3, <1>4 DEF s

(* The two steps of a search: the next sample, or the window around the    *)
(* best one; the next sample, or the end at the best one.                  *)
LEMMA CoarseIs ==
  ASSUME NEW a \in FocusState, HasBest(a.samples), a.flag = 0
  PROVE  LET c == getFocusVal(a)
             best == Sort(Sampled(a)).foc
         IN  /\ c.setFocus = a.setFocus
             /\ a.focus >= a.right =>
                  /\ c.flag = 1 /\ c.samples = <<>> /\ c.focus = InRange(InRange(best - i_step))
                  /\ c.right = InRange(InRange(best + i_step))
             /\ ~(a.focus >= a.right) =>
                  c.flag = 0 /\ c.samples = Sampled(a) /\ c.focus = InRange(a.focus + coarse)
<1> DEFINE t == Coarse(a)
           best == Sort(Sampled(a)).foc
<1>1. getFocusVal(a) = Clipped(t)
  BY DEF getFocusVal
<1>2. CASE a.focus >= a.right
  <2>1. t = [a EXCEPT !.left = InRange(best - i_step), !.right = InRange(best + i_step),
                      !.focus = InRange(best - i_step), !.samples = <<>>, !.flag = 1]
    BY <1>2 DEF Coarse
  <2> HIDE DEF t, best
  <2>2. /\ t.setFocus = a.setFocus /\ t.flag = 1 /\ t.samples = <<>>
        /\ t.focus = InRange(best - i_step) /\ t.right = InRange(best + i_step)
        /\ \A v, w, x : LET c == [t EXCEPT !.focus = v, !.right = w, !.left = x] IN
              /\ c.setFocus = t.setFocus /\ c.flag = t.flag /\ c.samples = t.samples
              /\ c.focus = v /\ c.right = w
    BY <2>1 DEF FocusState
  <2> QED
    BY <1>1, <1>2, <2>2 DEF Clipped, best
<1>3. CASE ~(a.focus >= a.right)
  <2>1. t = [a EXCEPT !.focus = a.focus + coarse, !.samples = Sampled(a)]
    BY <1>3 DEF Coarse
  <2> HIDE DEF t, best
  <2>2. /\ t.setFocus = a.setFocus /\ t.flag = 0 /\ t.samples = Sampled(a)
        /\ t.focus = a.focus + coarse
        /\ \A v, w, x : LET c == [t EXCEPT !.focus = v, !.right = w, !.left = x] IN
              /\ c.setFocus = t.setFocus /\ c.flag = t.flag /\ c.samples = t.samples
              /\ c.focus = v
    BY <2>1 DEF FocusState
  <2> QED
    BY <1>1, <1>3, <2>2 DEF Clipped
<1> QED
  BY <1>2, <1>3

LEMMA FineIs ==
  ASSUME NEW a \in FocusState, HasBest(a.samples), a.flag = 1
  PROVE  LET c == getFocusVal(a)
             best == Sort(Sampled(a)).foc
         IN  /\ c.setFocus = a.setFocus
             /\ a.focus >= a.right => c.flag = 2 /\ c.focus = InRange(best)
             /\ ~(a.focus >= a.right) =>
                  /\ c.flag = 1 /\ c.samples = Sampled(a) /\ c.focus = InRange(a.focus + fine)
                  /\ c.right = InRange(a.right)
<1> DEFINE t == Fine(a)
           best == Sort(Sampled(a))
<1>1. getFocusVal(a) = Clipped(t)
  BY DEF getFocusVal
<1>2. CASE a.focus >= a.right
  <2>1. t = [a EXCEPT !.focus = best.foc, !.focus_sharpness = best.sharp, !.step = i_step,
                      !.flag = 2, !.samples = Sampled(a)]
    BY <1>2 DEF Fine
  <2> HIDE DEF t, best
  <2>2. /\ t.setFocus = a.setFocus /\ t.flag = 2 /\ t.focus = best.foc
        /\ \A v, w, x : LET c == [t EXCEPT !.focus = v, !.right = w, !.left = x] IN
              c.setFocus = t.setFocus /\ c.flag = t.flag /\ c.focus = v
    BY <2>1 DEF FocusState
  <2> QED
    BY <1>1, <1>2, <2>2 DEF Clipped, best
<1>3. CASE ~(a.focus >= a.right)
  <2>1. t = [a EXCEPT !.focus = a.focus + fine, !.samples = Sampled(a)]
    BY <1>3 DEF Fine
  <2> HIDE DEF t, best
  <2>2. /\ t.setFocus = a.setFocus /\ t.flag = 1 /\ t.samples = Sampled(a)
        /\ t.focus = a.focus + fine /\ t.right = a.right
        /\ \A v, w, x : LET c == [t EXCEPT !.focus = v, !.right = w, !.left = x] IN
              /\ c.setFocus = t.setFocus /\ c.flag = t.flag /\ c.samples = t.samples
              /\ c.focus = v /\ c.right = w
    BY <2>1 DEF FocusState
  <2> QED
    BY <1>1, <1>3, <2>2 DEF Clipped
<1> QED
  BY <1>2, <1>3

(* A frame is measured where the lens is: the sample taken then is true,   *)
(* and as sharp as every one before, or one before is sharper.             *)
SampledTrue(s, rooms) ==
  \A j \in 1 .. Len(s) : /\ s[j].foc \in Positions /\ s[j].sharp = scene[s[j].foc]
                         /\ rooms = TRUE => RoomLeft(s[j].foc)

LEMMA DecideSamples ==
  ASSUME FocusTyped, ThreadInv, SearchInv, Quiet, Asked, FineMeetsCoarse, Decide,
         af.flag \in {0, 1}
  PROVE  /\ af.focus \in Positions /\ af.sharpness = scene[af.focus] /\ af.sharpness \in Nat
         /\ SampledTrue(Sampled(af), FALSE)
         /\ af.flag = 0 => RoomLeft(af.focus) /\ SampledTrue(Sampled(af), TRUE)
         /\ SamplesInv /\ BestInv
         /\ search'.best = IF af.sharpness > search.best THEN af.sharpness ELSE search.best
<1> USE FieldTypes
<1>1. framepc = "measured" /\ af.focus >= 0
  BY DEF Decide, ThreadInv, ResetInv
<1>2. /\ af.focus \in Positions /\ SamplesInv /\ BestInv
      /\ af.flag = 0 => RoomLeft(af.focus)
  BY <1>1 DEF SearchInv, Searching
<1>3. lens = InRange(af.focus) /\ af.sharpness = scene[lens]
  BY <1>1 DEF ThreadInv, LensInv
<1>4. af.sharpness = scene[af.focus]
  BY <1>2, <1>3, InRangeIs
<1> DEFINE n == Len(af.samples)
           s == Sampled(af)
<1>5. /\ n \in Nat /\ Len(s) = n + 1
      /\ s[n + 1].sharp = af.sharpness /\ s[n + 1].foc = af.focus
      /\ \A j \in 1 .. n : s[j] = af.samples[j]
  BY SampledIs
<1> HIDE DEF s
<1>6. \A j \in 1 .. n : /\ s[j].foc \in Positions /\ s[j].sharp = scene[s[j].foc]
                        /\ af.flag = 0 => RoomLeft(s[j].foc)
  BY <1>2, <1>5 DEF SamplesInv
<1>7. \A j \in 1 .. n + 1 : j \in 1 .. n \/ j = n + 1
  BY <1>5
<1>8. \A j \in 1 .. n + 1 : /\ s[j].foc \in Positions /\ s[j].sharp = scene[s[j].foc]
                            /\ af.flag = 0 => RoomLeft(s[j].foc)
  BY <1>2, <1>4, <1>5, <1>6, <1>7
<1>9. SampledTrue(s, FALSE) /\ (af.flag = 0 => SampledTrue(s, TRUE))
  BY <1>5, <1>8 DEF SampledTrue
<1>10. search'.best = IF af.sharpness > search.best THEN af.sharpness ELSE search.best
  BY DEF Decide, Sampling
<1> QED
  BY <1>2, <1>4, <1>9, <1>10 DEF s

(* The best of the samples is at a position, and as sharp as all that was  *)
(* seen.                                                                   *)
LEMMA BestSample ==
  ASSUME NEW a \in FocusState, HasBest(a.samples), NEW rooms \in BOOLEAN, NEW best \in Nat,
         SampledTrue(Sampled(a), rooms), Kept(Sampled(a), best)
  PROVE  LET p == Sort(Sampled(a)).foc IN
         /\ p \in Positions /\ scene[p] >= best
         /\ rooms = TRUE => RoomLeft(p)
<1> DEFINE s == Sampled(a)
           b == Sort(s)
<1>1. s \in Seq(Sample) /\ HasBest(s) /\ s # <<>>
  BY SampledIs
<1>2. /\ \E k \in 1 .. Len(s) : b = s[k]
      /\ b \in Sample
      /\ \A j \in 1 .. Len(s) : s[j].sharp <= b.sharp
  BY <1>1, SortIsBest
<1>3. \A j \in 1 .. Len(s) : s[j] \in Sample
  BY <1>1, ElementOfSeq
<1> HIDE DEF b, s
<1>4. PICK j \in 1 .. Len(s) : s[j].sharp >= best
  BY DEF Kept, s
<1>5. s[j].sharp \in Nat /\ b.sharp \in Nat /\ s[j].sharp <= b.sharp
  BY <1>2, <1>3 DEF Sample
<1>6. b.sharp >= best
  BY <1>4, <1>5
<1>7. b.foc \in Positions /\ b.sharp = scene[b.foc] /\ (rooms = TRUE => RoomLeft(b.foc))
  BY <1>2 DEF SampledTrue, s
<1> QED
  BY <1>6, <1>7 DEF b, s

(* A move to the right that is clipped ends no further left; what is below *)
(* a limit in the range is below the limit when that is clipped.           *)
LEMMA InRangeRight ==
  ASSUME NEW p \in Positions, NEW n \in Nat
  PROVE  /\ p + n \in Int /\ InRange(p + n) \in Positions
         /\ RoomLeft(p) => RoomLeft(InRange(p + n))
         /\ \A q \in Positions : q >= p /\ q <= p + n => InRange(p + n) >= q
<1>1. p \in Int /\ p + n \in Int
  BY StepsAreNatural DEF Positions
<1>2. InRange(p + n) \in Positions
  BY <1>1, InRangeIs
<1>3. InRange(p + n) >= p /\ InRange(p + n) \in Int
  BY <1>1, StepsAreNatural DEF InRange, Positions
<1>4. RoomLeft(p) => RoomLeft(InRange(p + n))
  BY <1>1, <1>2, <1>3, StepsAreNatural DEF RoomLeft, Positions
<1>5. \A q \in Positions : q >= p /\ q <= p + n => InRange(p + n) >= q
  BY <1>1, StepsAreNatural DEF InRange, Positions
<1> QED
  BY <1>1, <1>2, <1>4, <1>5

LEMMA InRangeLimit ==
  ASSUME NEW p \in Positions, NEW q \in Int, p <= q
  PROVE  p <= InRange(q)
BY StepsAreNatural DEF InRange, Positions

(* The coarse part of a search.                                            *)
LEMMA CoarseStep ==
  ASSUME FocusTyped, ThreadInv, SearchInv, Quiet, Asked, FineMeetsCoarse, Decide,
         af.flag = 0
  PROVE  /\ af'.flag \in {0, 1} /\ af'.focus \in Positions
         /\ af'.flag = 0 => RoomLeft(af'.focus)
         /\ SamplesInv' /\ BestInv'
<1> USE FieldTypes
<1>1. /\ af.focus \in Positions /\ af.sharpness \in Nat
      /\ RoomLeft(af.focus) /\ SampledTrue(Sampled(af), TRUE) /\ BestInv
      /\ search'.best = IF af.sharpness > search.best THEN af.sharpness ELSE search.best
  BY DecideSamples
<1>2. af' = getFocusVal(af) /\ scene' = scene
  BY DEF Decide
<1>3. search.best = 0 \/ Kept(af.samples, search.best)
  BY <1>1 DEF BestInv
<1>4. Kept(Sampled(af), search'.best)
  BY <1>1, <1>3, SampledKeeps
<1>5. search'.best \in Nat
  BY <1>1
<1>6. CASE af.focus >= af.right
  <2> DEFINE p == Sort(Sampled(af)).foc
  <2>1. p \in Positions /\ scene[p] >= search'.best /\ RoomLeft(p)
    BY <1>1, <1>4, <1>5, BestSample
  <2>2. /\ af'.flag = 1 /\ af'.samples = <<>> /\ af'.focus = InRange(InRange(p - i_step))
        /\ af'.right = InRange(InRange(p + i_step))
    BY <1>2, <1>6, CoarseIs
  <2> HIDE DEF p
  <2>3. p \in Int /\ p - i_step \in Positions /\ p - i_step \in Int /\ p + i_step \in Int
    BY <2>1, StepsAreNatural DEF RoomLeft, Positions
  <2>4. InRange(InRange(p - i_step)) = p - i_step
    BY <2>3, InRangeIs
  <2>5. p <= InRange(InRange(p + i_step))
    <3>1. InRange(InRange(p + i_step)) = InRange(p + i_step)
      BY <2>3, InRangeIs
    <3>2. p <= InRange(p + i_step)
      BY <2>1, <2>3, StepsAreNatural DEF InRange, Positions
    <3> QED
      BY <3>1, <3>2
  <2>6. PICK m \in Nat : i_step = m * fine
    BY FineDivides DEF FineMeetsCoarse
  <2>7. p = af'.focus + m * fine
    BY <2>2, <2>3, <2>4, <2>6, StepsAreNatural
  <2>8. Ahead(af'.focus, af'.right, search'.best, scene)
    BY <2>1, <2>2, <2>5, <2>7 DEF Ahead
  <2>9. SamplesInv'
    BY <2>2 DEF SamplesInv
  <2> QED
    BY <1>2, <2>2, <2>3, <2>4, <2>8, <2>9 DEF BestInv
<1>7. CASE ~(af.focus >= af.right)
  <2>1. af'.flag = 0 /\ af'.samples = Sampled(af) /\ af'.focus = InRange(af.focus + coarse)
    BY <1>2, <1>7, CoarseIs
  <2>2. InRange(af.focus + coarse) \in Positions
    BY <1>1, StepsAreNatural, InRangeRight
  <2>3. RoomLeft(InRange(af.focus + coarse))
    BY <1>1, StepsAreNatural, InRangeRight
  <2>4. SamplesInv'
    BY <1>1, <1>2, <2>1 DEF SamplesInv, SampledTrue
  <2>5. BestInv'
    BY <1>4, <2>1 DEF BestInv
  <2> QED
    BY <2>1, <2>2, <2>3, <2>4, <2>5
<1> QED
  BY <1>6, <1>7

(* The fine part: as long as the best coarse sample is ahead the window is *)
(* not at its end.                                                         *)
LEMMA FineStep ==
  ASSUME FocusTyped, ThreadInv, SearchInv, Quiet, Asked, FineMeetsCoarse, Decide,
         af.flag = 1
  PROVE  /\ af'.flag \in {1, 2} /\ af'.focus \in Positions
         /\ SamplesInv' /\ BestInv'
<1> USE FieldTypes
<1>1. /\ af.focus \in Positions /\ af.sharpness \in Nat /\ af.sharpness = scene[af.focus]
      /\ SampledTrue(Sampled(af), FALSE) /\ BestInv
      /\ search'.best = IF af.sharpness > search.best THEN af.sharpness ELSE search.best
  BY DecideSamples
<1>2. af' = getFocusVal(af) /\ scene' = scene
  BY DEF Decide
<1>3. search'.best \in Nat
  BY <1>1
<1>4. \/ Kept(Sampled(af), search'.best)
      \/ /\ search'.best = search.best /\ ~(af.focus >= af.right)
         /\ Ahead(InRange(af.focus + fine), InRange(af.right), search.best, scene)
  <2>1. CASE af.sharpness >= search.best \/ Kept(af.samples, search.best)
    BY <1>1, <2>1, SampledKeeps
  <2>2. CASE ~(af.sharpness >= search.best) /\ ~Kept(af.samples, search.best)
    <3>1. Ahead(af.focus, af.right, search.best, scene)
      BY <1>1, <2>2 DEF BestInv
    <3>2. PICK m \in Nat, p \in Positions :
             p = af.focus + m * fine /\ p <= af.right /\ scene[p] >= search.best
      BY <3>1 DEF Ahead
    <3>3. m # 0
      BY <1>1, <2>2, <3>2, StepsAreNatural
    <3> DEFINE k == m - 1
           far == m * fine
           rest == k * fine
    <3>4. k \in Nat /\ k * fine \in Nat /\ m * fine = k * fine + fine
      BY <3>3, StepsAreNatural, SMTT(30)
    <3>10. /\ p = af.focus + far /\ p <= af.right /\ far = rest + fine /\ rest \in Nat
          /\ p \in Int /\ af.focus \in Int /\ af.right \in Int /\ fine \in Nat /\ fine > 0
      BY <3>2, <3>4, StepsAreNatural
    <3> HIDE DEF k, far, rest
    <3> DEFINE x == af.focus
           r == af.right
           f == fine
    <3>11. /\ p = x + far /\ p <= r /\ far = rest + f /\ rest \in Nat
           /\ p \in Int /\ x \in Int /\ r \in Int /\ f \in Nat /\ f > 0
      BY <3>10
    <3> HIDE DEF x, r, f
    <3>12. p = x + f + rest /\ x + f <= p /\ ~(x >= r) /\ x + f \in Int
      BY <3>11
    <3>13. x \in Positions => x + f \in Positions
      BY <3>11, <3>12, StepsAreNatural DEF Positions
    <3>5. /\ p = af.focus + fine + rest /\ af.focus + fine <= p
          /\ ~(af.focus >= af.right) /\ af.focus + fine \in Int
      BY <3>12 DEF x, r, f
    <3>6. af.focus + fine \in Positions
      BY <1>1, <3>13 DEF x, f
    <3>7. /\ p = af.focus + fine + k * fine /\ ~(af.focus >= af.right)
      BY <3>5 DEF rest
    <3>8. InRange(af.focus + fine) = af.focus + fine /\ p <= InRange(af.right)
      BY <3>2, <3>5, <3>6, InRangeIs, InRangeLimit
    <3>9. Ahead(InRange(af.focus + fine), InRange(af.right), search.best, scene)
      BY <3>2, <3>4, <3>7, <3>8 DEF Ahead
    <3> QED
      BY <1>1, <2>2, <3>7, <3>9
  <2> QED
    BY <2>1, <2>2
<1>5. CASE af.focus >= af.right
  <2> DEFINE p == Sort(Sampled(af)).foc
  <2>1. p \in Positions /\ scene[p] >= search'.best
    BY <1>1, <1>3, <1>4, <1>5, BestSample
  <2>2. af'.flag = 2 /\ af'.focus = InRange(p)
    BY <1>2, <1>5, FineIs
  <2> HIDE DEF p
  <2>3. InRange(p) = p
    BY <2>1, InRangeIs
  <2> QED
    BY <1>2, <2>1, <2>2, <2>3 DEF SamplesInv, BestInv
<1>6. CASE ~(af.focus >= af.right)
  <2>1. /\ af'.flag = 1 /\ af'.samples = Sampled(af) /\ af'.focus = InRange(af.focus + fine)
        /\ af'.right = InRange(af.right)
    BY <1>2, <1>6, FineIs
  <2>2. InRange(af.focus + fine) \in Positions
    BY <1>1, StepsAreNatural, InRangeRight
  <2>3. SamplesInv'
    BY <1>1, <1>2, <2>1 DEF SamplesInv, SampledTrue
  <2>4. BestInv'
    BY <1>2, <1>4, <2>1 DEF BestInv
  <2> QED
    BY <2>1, <2>2, <2>3, <2>4
<1> QED
  BY <1>5, <1>6

(* Only the end of a search takes the wish of the user back.               *)
LEMMA AskedIs ==
  ASSUME NEW a \in FocusState, HasBest(a.samples)
  PROVE  LET c == getFocusVal(a) IN
         /\ a.flag # 2 \/ a.setFocus = FALSE => c.setFocus = a.setFocus
         /\ a.flag = 2 /\ a.setFocus = TRUE => c.setFocus = FALSE
<1>1. \A c : Clipped(c).setFocus = c.setFocus
  BY DEF Clipped
<1>2. /\ TrackRight(a).setFocus = a.setFocus /\ TrackLeft(a).setFocus = a.setFocus
      /\ SearchDone(a).setFocus = FALSE
  BY DEF TrackRight, TrackLeft, SearchDone, FocusState
<1>3. TrackEnd(a).setFocus = a.setFocus
  BY DEF TrackEnd, GoBack, FocusState
<1>4. /\ a.flag = 2 /\ a.setFocus = TRUE => getFocusVal(a) = Clipped(SearchDone(a))
      /\ a.flag = 2 /\ a.setFocus = FALSE => getFocusVal(a) = Clipped(TrackRight(a))
      /\ a.flag = 3 => getFocusVal(a) = Clipped(TrackLeft(a))
      /\ a.flag = 4 => getFocusVal(a) = Clipped(TrackEnd(a))
  BY DEF getFocusVal
<1>5. a.flag \in {0, 1} => getFocusVal(a).setFocus = a.setFocus
  BY CoarseIs, FineIs
<1>6. a.flag \in {0, 1, 2, 3, 4} /\ a.setFocus \in BOOLEAN
  BY DEF FocusState
<1> QED
  BY <1>1, <1>2, <1>3, <1>4, <1>5, <1>6

LEMMA OnlyEnd ==
  ASSUME FocusTyped, [FocusNext]_focusVars, Asked, ~Asked'
  PROVE  Decide /\ af.flag = 2
<1>1. af \in FocusState /\ HasBest(af.samples)
  BY FieldTypes
<1>2. ASSUME StartSearch \/ FocusCallback \/ ToggleAutofocus \/ UNCHANGED focusVars
      PROVE  af'.setFocus = af.setFocus
  BY <1>1, <1>2 DEF StartSearch, FocusCallback, ResetFocus, AutofocusToggled, ToggleAutofocus,
          FocusState, focusVars
<1>3. WaitForLens \/ Measure \/ MoveLens => af'.setFocus = af.setFocus
  BY FrameKeeps
<1>4. ClickSetFocus => af'.setFocus = TRUE
  BY <1>1 DEF ClickSetFocus, FocusState
<1>5. Decide
  BY <1>2, <1>3, <1>4 DEF Asked, FocusNext, FocusFrame
<1>6. af.flag = 2
  BY <1>1, <1>5, AskedIs DEF Decide, Asked
<1> QED
  BY <1>5, <1>6

LEMMA StepSearch ==
  FocusTyped /\ ThreadInv /\ SearchInv /\ [FocusNext]_focusVars => SearchInv'
<1> SUFFICES ASSUME FocusTyped, ThreadInv, SearchInv, [FocusNext]_focusVars, Searching'
             PROVE  /\ af'.flag \in {0, 1, 2} /\ af'.focus \in Positions
                    /\ af'.flag = 0 => RoomLeft(af'.focus)
                    /\ SamplesInv' /\ BestInv'
  BY DEF SearchInv
<1> USE FieldTypes, MetIs
<1>0. af'.focus \in Int /\ af'.focus >= 0 /\ Quiet' /\ Asked' /\ FineMeetsCoarse
  BY AfTyped DEF FocusState, Searching, FineMeetsCoarse, Starts
<1>1. CASE ClickSetFocus \/ ToggleAutofocus
  BY <1>0, <1>1, ClickWrites DEF Quiet
<1>2. CASE ResetFocus
  BY <1>0, <1>2, ClickWrites
<1>3. CASE AutofocusToggled
  BY <1>0, <1>3, ClickWrites DEF ThreadInv, ClickInv, FocusCallback, Quiet
<1>4. CASE StartSearch
  <2>1. Quiet /\ af.focus < 0
    BY <1>0, <1>4 DEF Quiet, FocusFrame, StartSearch
  <2>2. af.flag = 0 /\ af.samples = <<>> /\ af.left \in Starts
    BY <2>1 DEF ThreadInv, ResetInv
  <2>3. af'.flag = 0 /\ af'.samples = <<>> /\ af'.focus = af.left
    BY <1>4, <2>2 DEF StartSearch, FocusState
  <2>4. search'.best = 0
    BY <1>4 DEF StartSearch, FocusTyped
  <2>5. RoomLeft(af.left)
    BY <1>0, <2>2 DEF FineMeetsCoarse, RoomLeft
  <2> QED
    BY <2>3, <2>4, <2>5 DEF RoomLeft, SamplesInv, BestInv
<1>5. CASE WaitForLens \/ Measure \/ MoveLens
  <2>1. Quiet
    BY <1>0, <1>5 DEF Quiet, FocusFrame
  <2>2. af'.focus = af.focus
    BY <1>5, <2>1, FrameKeeps DEF ThreadInv, ResetInv, LensInv
  <2>3. Searching
    BY <1>0, <1>5, <2>1, <2>2, FrameKeeps DEF Searching, Asked
  <2>4. /\ af.flag \in {0, 1, 2} /\ af.focus \in Positions
        /\ af.flag = 0 => RoomLeft(af.focus)
        /\ SamplesInv /\ BestInv
    BY <2>3 DEF SearchInv
  <2>5. /\ af'.flag = af.flag /\ af'.samples = af.samples /\ af'.right = af.right
        /\ search'.best = search.best /\ scene' = scene
    BY <1>5, FrameKeeps
  <2> QED
    BY <2>2, <2>4, <2>5 DEF SamplesInv, BestInv
<1>6. CASE Decide
  <2>1. Quiet
    BY <1>0, <1>6 DEF Quiet, FocusFrame
  <2>2. framepc = "measured" /\ af' = getFocusVal(af)
    BY <1>6 DEF Decide
  <2>3. af.focus >= 0
    BY <2>1, <2>2 DEF ThreadInv, ResetInv
  <2>4. Asked /\ af.flag # 2
    <3>1. /\ af'.setFocus = af.setFocus
          /\ af.flag # 2 \/ af.setFocus = FALSE
      BY <1>0, <2>2, AskedIs, SwitchTypes DEF Asked
    <3> QED
      BY <1>0, <3>1 DEF Asked
  <2>5. Searching
    BY <1>0, <2>1, <2>3, <2>4 DEF Searching
  <2>6. af.flag \in {0, 1}
    BY <2>4, <2>5 DEF SearchInv
  <2>7. CASE af.flag = 0
    BY <1>0, <1>6, <2>1, <2>4, <2>7, CoarseStep
  <2>8. CASE af.flag = 1
    BY <1>0, <1>6, <2>1, <2>4, <2>8, FineStep
  <2> QED
    BY <2>6, <2>7, <2>8
<1>7. CASE UNCHANGED focusVars
  <2>1. Searching
    BY <1>0, <1>7 DEF Searching, Quiet, Unmet, Asked, focusVars
  <2> QED
    BY <1>7, <2>1 DEF SearchInv, SamplesInv, BestInv, focusVars
<1> QED
  BY <1>1, <1>2, <1>3, <1>4, <1>5, <1>6, <1>7 DEF FocusNext, FocusFrame, FocusCallback

(* When a search ends, the lens is where the picture is as sharp as in the *)
(* best of all its samples, for every range in which the fine steps meet   *)
(* the coarse ones and every scene.                                        *)
THEOREM SearchFindsBest == FocusSpec => FocusIsBest
<1> DEFINE Inv == FocusTyped /\ ThreadInv /\ SearchInv
           Best == (FineMeetsCoarse /\ af.setFocus /\ ~af'.setFocus /\ ~search.met)
                   => scene[lens] >= search.best
<1>1. FocusInit => Inv
  <2>1. FocusInit => SearchInv
    BY DEF FocusInit, SearchInv, Searching, NoFocus
  <2> QED
    BY <2>1, InitTyped, InitThreads
<1>2. Inv /\ [FocusNext]_focusVars => Inv'
  BY StepTyped, StepThreads, StepSearch
<1>3. ASSUME Inv, [FocusNext]_focusVars, FineMeetsCoarse, af.setFocus, ~af'.setFocus, ~search.met
      PROVE  scene[lens] >= search.best
  <2>1. Asked /\ Unmet /\ ~Asked'
    BY <1>3, SwitchTypes, Zenon DEF Asked, Unmet
  <2>2. Decide /\ af.flag = 2
    BY <1>3, <2>1, OnlyEnd
  <2>3. framepc = "measured" /\ Quiet
    BY <1>3, <2>1, <2>2 DEF Decide, Quiet, ThreadInv, ClickInv
  <2>4. af.focus >= 0
    BY <1>3, <2>3, FieldTypes DEF ThreadInv, ResetInv
  <2>5. lens = InRange(af.focus)
    BY <1>3, <2>3, <2>4 DEF ThreadInv, LensInv
  <2>6. Searching
    BY <1>3, <2>1, <2>3, <2>4 DEF Searching
  <2>7. af.focus \in Positions /\ scene[af.focus] >= search.best
    BY <1>3, <2>2, <2>6 DEF SearchInv, BestInv
  <2> QED
    BY <1>3, <2>5, <2>7, FieldTypes, InRangeIs
<1>4. Inv /\ [FocusNext]_focusVars => [Best]_focusVars
  BY <1>3
<1> QED
  BY <1>1, <1>2, <1>4, PTL DEF FocusSpec, FocusIsBest
=============================================================================
