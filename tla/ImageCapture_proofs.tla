------------------------ MODULE ImageCapture_proofs ------------------------
(***************************************************************************)
(* Proofs about ImageCapture, for every number of pictures and of names,   *)
(* every set of formats and either environment.                            *)
(***************************************************************************)
EXTENDS ImageCapture, WellFoundedInduction, TLAPS

-----------------------------------------------------------------------------
(* Where the flag protects the name: files are saved at once, and nothing  *)
(* names a picture while one is to be taken.                               *)
Protected == format = "file" /\ (patient \/ ~timed)

NoRaw == ~cap_raw /\ vpc # "save raw"
TimerIsTimed == image_timer => timed

(* Only the picture named last may be missing, and only while the flag is  *)
(* up; what is being saved is that picture, and then it is missing no more.*)
OnlyLastMissing == wanted \subseteq saved \cup {name}
DownMeansSaved == ~capImage => wanted \subseteq saved
SavesTheLast == vpc = "save" => capImage /\ pointer = name
SavedThenCleared == vpc = "clear" => capImage /\ wanted \subseteq saved

SaveInv ==
  Protected =>
    /\ NoRaw /\ TimerIsTimed /\ ~dangled
    /\ OnlyLastMissing /\ DownMeansSaved /\ SavesTheLast /\ SavedThenCleared

LEMMA ProtectedStays == [Next]_vars => (Protected' <=> Protected)
<1> SUFFICES ASSUME [Next]_vars PROVE config' = config
  BY DEF Protected, config
<1>1. CASE GtkThread
  BY <1>1 DEF GtkThread, CaptureImage, StopTimer, Timer, NumberFiles, Quit
<1>2. CASE VideoThread
  BY <1>2 DEF VideoThread, LoopTop, Grab, GrabFails, SaveRaw, StorePicture, NoPicture,
              SaveFile, ClearFlag, RestOfLoop
<1>3. CASE UNCHANGED vars
  BY <1>3 DEF vars
<1> QED
  BY <1>1, <1>2, <1>3 DEF Next

LEMMA SaveInit == Init => SaveInv
BY DEF Init, SaveInv, NoRaw, TimerIsTimed, OnlyLastMissing, DownMeansSaved, SavesTheLast,
       SavedThenCleared

LEMMA SaveStep == SaveInv /\ [Next]_vars => SaveInv'
<1> SUFFICES ASSUME SaveInv, [Next]_vars, Protected
             PROVE  (/\ NoRaw /\ TimerIsTimed /\ ~dangled
                     /\ OnlyLastMissing /\ DownMeansSaved /\ SavesTheLast /\ SavedThenCleared)'
  BY ProtectedStays DEF SaveInv
<1> USE DEF NoRaw, TimerIsTimed, OnlyLastMissing, DownMeansSaved, SavesTheLast,
            SavedThenCleared, At, Goto, NextTurn, config, counters, flags, video, history
<1>0. /\ NoRaw /\ TimerIsTimed /\ ~dangled
      /\ OnlyLastMissing /\ DownMeansSaved /\ SavesTheLast /\ SavedThenCleared
  BY DEF SaveInv
<1>1. CASE CaptureImage
  <2>1. ~capImage
    BY <1>1 DEF CaptureImage, ButtonReady
  <2>2. capImage' = TRUE /\ wanted' = wanted \cup {name'} /\ saved' = saved
    BY <1>1 DEF CaptureImage, Announce
  <2>3. UNCHANGED <<vpc, pointer, cap_raw, dangled, image_timer, timed>>
    BY <1>1 DEF CaptureImage
  <2> QED
    BY <1>0, <2>1, <2>2, <2>3
<1>2. CASE StopTimer
  <2>1. ~capImage /\ image_timer' = FALSE
    BY <1>2 DEF StopTimer, ButtonReady
  <2>2. UNCHANGED <<capImage, wanted, saved, vpc, pointer, cap_raw, dangled>>
    BY <1>2 DEF StopTimer
  <2> QED
    BY <1>0, <2>1, <2>2
<1>3. CASE Timer
  <2>1. ~capImage
    BY <1>0, <1>3 DEF Timer, Protected
  <2>2. capImage' = TRUE /\ wanted' = wanted \cup {name'} /\ saved' = saved
    BY <1>3 DEF Timer, Announce
  <2>3. image_timer /\ UNCHANGED <<vpc, pointer, cap_raw, dangled, timed>>
    BY <1>3 DEF Timer
  <2> QED
    BY <1>0, <2>1, <2>2, <2>3
<1>4. CASE NumberFiles \/ Quit
  <2>1. UNCHANGED <<name, wanted, saved, dangled, capImage, cap_raw, vpc, pointer, image_timer, timed>>
    BY <1>4 DEF NumberFiles, Quit
  <2> QED
    BY <1>0, <2>1
<1>5. CASE LoopTop \/ Grab \/ GrabFails
  <2>1. UNCHANGED <<name, wanted, saved, dangled, capImage, cap_raw, image_timer, timed>>
    BY <1>5 DEF LoopTop, Grab, GrabFails
  <2>2. vpc' \in {"top", "grab", "picture", "gone"}
    BY <1>0, <1>5 DEF LoopTop, Grab, GrabFails
  <2> QED
    BY <1>0, <2>1, <2>2
<1>6. CASE SaveRaw
  BY <1>0, <1>6 DEF SaveRaw
<1>7. CASE StorePicture
  <2>1. capImage /\ capImage' = TRUE /\ vpc' = "save" /\ pointer' = name
    BY <1>7 DEF StorePicture, FlagWhileSaving, Protected
  <2>2. UNCHANGED <<name, wanted, saved, dangled, cap_raw, image_timer, timed>>
    BY <1>7 DEF StorePicture, Protected
  <2> QED
    BY <1>0, <2>1, <2>2
<1>8. CASE NoPicture \/ RestOfLoop
  <2>1. UNCHANGED <<name, wanted, saved, dangled, capImage, cap_raw, image_timer, timed>>
    BY <1>8 DEF NoPicture, RestOfLoop
  <2>2. vpc' \in {"rest", "top", "gone"}
    BY <1>8 DEF NoPicture, RestOfLoop
  <2> QED
    BY <1>0, <2>1, <2>2
<1>9. CASE SaveFile
  <2>1. capImage /\ pointer = name
    BY <1>0, <1>9 DEF SaveFile
  <2>2. saved' = saved \cup {name} /\ ~dangled'
    BY <1>0, <1>9, <2>1 DEF SaveFile, Save
  <2>3. vpc' = "clear" /\ UNCHANGED <<name, wanted, capImage, cap_raw, image_timer, timed>>
    BY <1>9 DEF SaveFile
  <2> QED
    BY <1>0, <2>1, <2>2, <2>3
<1>10. CASE ClearFlag
  <2>1. wanted \subseteq saved
    BY <1>0, <1>10 DEF ClearFlag
  <2>2. vpc' = "rest" /\ UNCHANGED <<name, wanted, saved, dangled, cap_raw, image_timer, timed>>
    BY <1>10 DEF ClearFlag
  <2> QED
    BY <1>0, <2>1, <2>2
<1>11. CASE UNCHANGED vars
  BY <1>0, <1>11 DEF vars
<1> QED
  BY <1>1, <1>2, <1>3, <1>4, <1>5, <1>6, <1>7, <1>8, <1>9, <1>10, <1>11
     DEF Next, GtkThread, VideoThread

LEMMA SaveInvariance == Spec => []SaveInv
BY SaveInit, SaveStep, PTL DEF Spec

(* The button, and a timer slower than the camera, lose no picture: the    *)
(* flag that main_loop clears after store_picture is all that protects the *)
(* name, for any number of pictures.                                       *)
THEOREM NoneLost == Spec => []NoPictureLost
<1>1. SaveInv => NoPictureLost
  BY DEF SaveInv, Protected, DownMeansSaved, NoPictureLost
<1> QED
  BY <1>1, SaveInvariance, PTL

(* The name the video thread saves under is not freed meanwhile.           *)
THEOREM NameNotFreed == Spec => []NameInUse
<1>1. SaveInv => NameInUse
  BY DEF SaveInv, Protected, NameInUse
<1> QED
  BY <1>1, SaveInvariance, PTL

-----------------------------------------------------------------------------
(* The iteration that reads signalquit as TRUE still looks at the flag, and *)
(* nothing raises it any more.                                              *)
QuitInv ==
  patient =>
    /\ quit => signalquit
    /\ vpc = "top" => ~quit
    /\ vpc = "rest" /\ quit => ~capImage
    /\ vpc = "gone" => quit /\ ~capImage

LEMMA QuitInit == Init => QuitInv
BY DEF Init, QuitInv

LEMMA QuitStep == QuitInv /\ [Next]_vars => QuitInv'
<1> SUFFICES ASSUME QuitInv, [Next]_vars, patient' PROVE QuitInv'
  BY DEF QuitInv
<1> USE DEF QuitInv, At, Goto, NextTurn, LoopEnds, config, counters, flags, video, history
<1>1. CASE GtkThread
  <2>1. ~signalquit /\ UNCHANGED <<vpc, quit, patient>>
    BY <1>1 DEF GtkThread, CaptureImage, StopTimer, Timer, NumberFiles, Quit
  <2> QED
    BY <2>1
<1>2. CASE LoopTop
  BY <1>2 DEF LoopTop
<1>3. CASE Grab \/ GrabFails
  BY <1>3 DEF Grab, GrabFails
<1>4. CASE SaveRaw \/ SaveFile
  BY <1>4 DEF SaveRaw, SaveFile
<1>5. CASE StorePicture
  BY <1>5 DEF StorePicture
<1>6. CASE NoPicture
  BY <1>6 DEF NoPicture
<1>7. CASE ClearFlag
  BY <1>7 DEF ClearFlag
<1>8. CASE RestOfLoop
  BY <1>8 DEF RestOfLoop
<1>9. CASE UNCHANGED vars
  BY <1>9 DEF vars
<1> QED
  BY <1>1, <1>2, <1>3, <1>4, <1>5, <1>6, <1>7, <1>8, <1>9 DEF Next, VideoThread

(* A picture announced before the shutdown is saved before the video       *)
(* thread ends, for any number of pictures: capture_image and the timer    *)
(* raise capImage before signalquit, and main_loop reads them in the       *)
(* opposite order.                                                         *)
THEOREM LastPictureSaved == Spec => []SavedAtExit
<1>1. SaveInv /\ QuitInv => SavedAtExit
  BY DEF SaveInv, QuitInv, Protected, DownMeansSaved, SavedAtExit
<1>2. Spec => []QuitInv
  BY QuitInit, QuitStep, PTL DEF Spec
<1> QED
  BY <1>1, <1>2, SaveInvariance, PTL
-----------------------------------------------------------------------------
(***************************************************************************)
(* Types.  A number for the files can be found because the files saved are *)
(* numbered up to some number.                                             *)
(***************************************************************************)
Bounded(numbers) == \E b \in Nat : \A n \in numbers : n <= b

(* The least bound of a set of numbers is the greatest of them.            *)
LEMMA BoundedHasMax ==
  ASSUME NEW S \in SUBSET Nat, 0 \in S, Bounded(S)
  PROVE  Max(S) \in S
<1> DEFINE B == {b \in Nat : \A n \in S : n <= b}
<1>1. PICK b \in B : \A c \in B : <<c, b>> \notin OpToRel(<, Nat)
  <2>1. B # {} /\ B \subseteq Nat
    BY DEF Bounded
  <2> HIDE DEF B
  <2> QED
    BY <2>1, NatLessThanWellFounded, WFMin, Zenon
<1>2. b \in S
  <2>1. SUFFICES ASSUME b \notin S PROVE FALSE
    OBVIOUS
  <2>2. b \in Nat /\ b # 0 /\ \A n \in S : n < b
    <3>1. b \in Nat /\ \A n \in S : n <= b
      BY <1>1
    <3>2. \A n \in S : n \in Nat /\ n # b
      BY <2>1
    <3> QED
      BY <3>1, <3>2
  <2>3. b - 1 \in Nat /\ b - 1 < b /\ \A n \in S : n <= b - 1
    BY <2>2
  <2>4. <<b - 1, b>> \in OpToRel(<, Nat)
    BY <2>2, <2>3 DEF OpToRel
  <2> QED
    BY <1>1, <2>3, <2>4
<1>3. \A n \in S : b >= n
  BY <1>1
<1> QED
  BY <1>2, <1>3, Zenon DEF Max

TypeInv == TypeOK /\ Bounded(SuffixesOf(saved))

LEMMA TypeInit == Init => TypeInv
<1> SUFFICES ASSUME Init PROVE TypeInv
  OBVIOUS
<1>1. Bounded(SuffixesOf(saved))
  BY DEF Init, Bounded, SuffixesOf
<1>2. 0 \in 0 .. NPics - 1 /\ NoName \in Names
  BY PicsAssumption, NamesAssumption DEF Names, NoName
<1>3. image_inc \in Nat
  BY DEF Init
<1> QED
  BY <1>1, <1>2, <1>3 DEF Init, TypeInv, TypeOK

(* The next name is a name; the number in it stays or grows.               *)
LEMMA NewNameTyped ==
  ASSUME TypeOK, NewName
  PROVE  name' \in Names /\ image_inc' \in Nat
<1>1. name.id \in 0 .. MaxNames /\ name.id < MaxNames /\ image_inc \in Nat /\ MaxNames \in Nat
  BY NamesAssumption DEF TypeOK, Names, NewName
<1>2. name' = [id |-> name.id + 1, suffix |-> image_inc]
  BY DEF NewName, Named
<1>3. image_inc' = IF image_inc > 0 THEN image_inc + 1 ELSE 0
  BY DEF NewName, NextNumber
<1> QED
  BY <1>1, <1>2, <1>3 DEF Names

LEMMA SaveTyped ==
  ASSUME TypeInv, Save
  PROVE  saved' \subseteq Names /\ Bounded(SuffixesOf(saved))' /\ dangled' \in BOOLEAN
<1>1. saved' = saved \cup {pointer} /\ pointer \in Names /\ saved \subseteq Names
  BY DEF Save, TypeInv, TypeOK
<1>2. dangled' \in BOOLEAN
  BY Zenon DEF Save, TypeInv, TypeOK
<1>3. PICK b \in Nat : \A n \in SuffixesOf(saved) : n <= b
  BY DEF TypeInv, Bounded
<1>4. pointer.suffix \in Nat
  BY <1>1 DEF Names
<1>5. PICK c \in Nat : b <= c /\ pointer.suffix <= c
  BY <1>3, <1>4
<1>6. \A n \in saved : n.suffix \in Nat /\ n.suffix <= b
  BY <1>1, <1>3 DEF SuffixesOf, Names
<1>7. \A n \in saved' : n.suffix <= c
  BY <1>1, <1>3, <1>4, <1>5, <1>6
<1>8. Bounded(SuffixesOf(saved))'
  BY <1>5, <1>7 DEF Bounded, SuffixesOf
<1> QED
  BY <1>1, <1>2, <1>8

LEMMA TypeStep == TypeInv /\ [Next]_vars => TypeInv'
<1> SUFFICES ASSUME TypeInv, [Next]_vars PROVE TypeInv'
  OBVIOUS
<1> USE DEF config, counters, flags, video, history
<1>0. TypeOK /\ Bounded(SuffixesOf(saved)) /\ NPics \in Nat \ {0} /\ MaxNames \in Nat
  BY PicsAssumption, NamesAssumption DEF TypeInv
<1>1. CASE CaptureImage
  <2>1. name' \in Names /\ image_inc' \in Nat
    BY <1>0, <1>1, NewNameTyped DEF CaptureImage
  <2>2. wanted' = wanted \cup {name'} /\ capImage' = TRUE
    BY <1>1 DEF CaptureImage, Announce
  <2>3. UNCHANGED <<config, image_timer, image_picn, cap_raw, signalquit, video, saved, dangled>>
    BY <1>1 DEF CaptureImage
  <2>4. TypeOK'
    BY <1>0, <2>1, <2>2, <2>3 DEF TypeOK
  <2>5. Bounded(SuffixesOf(saved))'
    BY <1>0, <2>3, Zenon
  <2> QED
    BY <2>4, <2>5 DEF TypeInv
<1>2. CASE StopTimer
  <2>1. name.id \in 0 .. MaxNames /\ name.id < MaxNames /\ name' = [id |-> name.id + 1, suffix |-> 0]
    BY <1>0, <1>2 DEF StopTimer, Named, TypeOK, Names
  <2>2. name' \in Names
    BY <1>0, <2>1 DEF Names
  <2>3. image_timer' = FALSE /\ UNCHANGED <<config, image_inc, image_picn, flags, video, history>>
    BY <1>2 DEF StopTimer
  <2>4. TypeOK'
    BY <1>0, <2>2, <2>3 DEF TypeOK
  <2>5. Bounded(SuffixesOf(saved))'
    BY <1>0, <2>3, Zenon
  <2> QED
    BY <2>4, <2>5 DEF TypeInv
<1>3. CASE Timer
  <2>1. name' \in Names /\ image_inc' \in Nat
    BY <1>0, <1>3, NewNameTyped DEF Timer
  <2>2. wanted' = wanted \cup {name'} /\ capImage' = TRUE
    BY <1>3 DEF Timer, Announce
  <2>3. UNCHANGED <<config, cap_raw, video, saved, dangled>>
    BY <1>3 DEF Timer
  <2>4. image_picn' \in 0 .. NPics - 1 /\ image_timer' \in BOOLEAN
    <3>1. image_picn \in 0 .. NPics - 1 /\ image_timer \in BOOLEAN
      BY <1>0 DEF TypeOK
    <3>2. CASE LastPicture
      <4>1. image_timer' = FALSE /\ image_picn' = 0
        BY <1>3, <3>2 DEF Timer
      <4>2. 0 \in 0 .. NPics - 1 /\ FALSE \in BOOLEAN
        BY PicsAssumption
      <4> QED
        BY <4>1, <4>2
    <3>3. CASE ~LastPicture
      <4>1. image_timer' = image_timer /\ image_picn' = image_picn + 1
        BY <1>3, <3>3 DEF Timer
      <4>2. image_picn + 1 \in 0 .. NPics - 1
        BY <1>0, <3>1, <3>3 DEF LastPicture
      <4> QED
        BY <3>1, <4>1, <4>2
    <3> QED
      BY <3>2, <3>3
  <2>5. signalquit' \in BOOLEAN
    BY <1>0, <1>3, Zenon DEF Timer, TypeOK
  <2>6. TypeOK'
    BY <1>0, <2>1, <2>2, <2>3, <2>4, <2>5 DEF TypeOK
  <2>7. Bounded(SuffixesOf(saved))'
    BY <1>0, <2>3, Zenon
  <2> QED
    BY <2>6, <2>7 DEF TypeInv
<1>4. CASE NumberFiles
  <2> DEFINE S == SuffixesOf(saved) \cup {0}
  <2>1. S \in SUBSET Nat /\ 0 \in S
    <3>1. \A n \in saved : n.suffix \in Nat
      BY <1>0 DEF TypeOK, Names
    <3> QED
      BY <3>1 DEF SuffixesOf
  <2>2. Bounded(S)
    <3>1. PICK b \in Nat : \A n \in SuffixesOf(saved) : n <= b
      BY <1>0 DEF Bounded
    <3> QED
      BY <3>1 DEF Bounded
  <2>3. image_inc' \in {0, Max(S) + 1}
    BY <1>4 DEF NumberFiles
  <2>4. UNCHANGED <<config, name, image_timer, image_picn, flags, video, history>>
    BY <1>4 DEF NumberFiles
  <2> HIDE DEF S
  <2>5. Max(S) \in Nat
    BY <2>1, <2>2, BoundedHasMax
  <2>6. image_inc' \in Nat
    BY <2>3, <2>5
  <2>7. TypeOK'
    BY <1>0, <2>4, <2>6, ZenonT(60) DEF TypeOK
  <2>8. Bounded(SuffixesOf(saved))'
    BY <1>0, <2>4, Zenon
  <2> QED
    BY <2>7, <2>8 DEF TypeInv
<1>5. CASE Quit
  <2>1. signalquit' = TRUE
    BY <1>0, <1>5 DEF Quit, TypeOK
  <2>2. UNCHANGED <<config, name, counters, capImage, cap_raw, video, history>>
    BY <1>5 DEF Quit
  <2>3. TypeOK'
    BY <1>0, <2>1, <2>2 DEF TypeOK
  <2>4. Bounded(SuffixesOf(saved))'
    BY <1>0, <2>2, Zenon
  <2> QED
    BY <2>3, <2>4 DEF TypeInv
<1>6. CASE LoopTop
  <2>1. quit' \in BOOLEAN /\ vpc' = "grab"
    BY <1>0, <1>6 DEF LoopTop, Goto, TypeOK
  <2>2. UNCHANGED <<config, name, counters, flags, pointer, history>>
    BY <1>6 DEF LoopTop, Goto
  <2>3. TypeOK'
    BY <1>0, <2>1, <2>2 DEF TypeOK
  <2>4. Bounded(SuffixesOf(saved))'
    BY <1>0, <2>2, Zenon
  <2> QED
    BY <2>3, <2>4 DEF TypeInv
<1>7. CASE Grab
  <2>1. pointer' \in Names /\ vpc' \in {"save raw", "picture"}
    BY <1>0, <1>7 DEF Grab, Goto, TypeOK
  <2>2. UNCHANGED <<config, name, counters, flags, quit, history>>
    BY <1>7 DEF Grab, Goto
  <2>3. TypeOK'
    BY <1>0, <2>1, <2>2 DEF TypeOK
  <2>4. Bounded(SuffixesOf(saved))'
    BY <1>0, <2>2, Zenon
  <2> QED
    BY <2>3, <2>4 DEF TypeInv
<1>8. CASE GrabFails \/ RestOfLoop
  <2>1. vpc' \in {"gone", "top"}
    BY <1>0, <1>8 DEF GrabFails, RestOfLoop, NextTurn, Goto, TypeOK
  <2>2. UNCHANGED <<config, name, counters, flags, pointer, quit, history>>
    BY <1>8 DEF GrabFails, RestOfLoop, NextTurn, Goto
  <2>3. TypeOK'
    BY <1>0, <2>1, <2>2 DEF TypeOK
  <2>4. Bounded(SuffixesOf(saved))'
    BY <1>0, <2>2, Zenon
  <2> QED
    BY <2>3, <2>4 DEF TypeInv
<1>9. CASE SaveRaw
  <2>1. saved' \subseteq Names /\ Bounded(SuffixesOf(saved))' /\ dangled' \in BOOLEAN
    BY <1>9, SaveTyped DEF SaveRaw
  <2>2. /\ cap_raw' = FALSE /\ vpc' = "picture"
        /\ UNCHANGED <<config, name, counters, capImage, signalquit, pointer, quit, wanted>>
    BY <1>9 DEF SaveRaw, Goto
  <2>3. TypeOK'
    BY <1>0, <2>1, <2>2 DEF TypeOK
  <2> QED
    BY <2>1, <2>3 DEF TypeInv
<1>10. CASE StorePicture
  <2>1. UNCHANGED <<config, name, counters, signalquit, quit, history>> /\ capImage' = TRUE
    BY <1>10 DEF StorePicture, FlagWhileSaving
  <2>2. pointer' \in Names /\ cap_raw' \in BOOLEAN /\ vpc' \in {"save", "clear"}
    BY <1>0, <1>10 DEF StorePicture, Goto, TypeOK
  <2>3. TypeOK'
    BY <1>0, <2>1, <2>2 DEF TypeOK
  <2>4. Bounded(SuffixesOf(saved))'
    BY <1>0, <2>1, Zenon
  <2> QED
    BY <2>3, <2>4 DEF TypeInv
<1>11. CASE NoPicture
  <2>1. vpc' = "rest"
    BY <1>0, <1>11 DEF NoPicture, Goto, TypeOK
  <2>2. UNCHANGED <<config, name, counters, flags, pointer, quit, history>>
    BY <1>11 DEF NoPicture, Goto
  <2>3. TypeOK'
    BY <1>0, <2>1, <2>2 DEF TypeOK
  <2>4. Bounded(SuffixesOf(saved))'
    BY <1>0, <2>2, Zenon
  <2> QED
    BY <2>3, <2>4 DEF TypeInv
<1>12. CASE SaveFile
  <2>1. saved' \subseteq Names /\ Bounded(SuffixesOf(saved))' /\ dangled' \in BOOLEAN
    BY <1>12, SaveTyped DEF SaveFile
  <2>2. vpc' = "clear" /\ UNCHANGED <<config, name, counters, flags, pointer, quit, wanted>>
    BY <1>12 DEF SaveFile, Goto
  <2>3. TypeOK'
    BY <1>0, <2>1, <2>2 DEF TypeOK
  <2> QED
    BY <2>1, <2>3 DEF TypeInv
<1>13. CASE ClearFlag
  <2>1. capImage' = FALSE /\ vpc' = "rest"
    BY <1>0, <1>13 DEF ClearFlag, Goto, TypeOK
  <2>2. UNCHANGED <<config, name, counters, cap_raw, signalquit, pointer, quit, history>>
    BY <1>13 DEF ClearFlag, Goto
  <2>3. TypeOK'
    BY <1>0, <2>1, <2>2 DEF TypeOK
  <2>4. Bounded(SuffixesOf(saved))'
    BY <1>0, <2>2, Zenon
  <2> QED
    BY <2>3, <2>4 DEF TypeInv
<1>14. CASE UNCHANGED vars
  <2>1. UNCHANGED <<config, name, counters, flags, video, history>>
    BY <1>14 DEF vars
  <2>2. TypeOK'
    BY <1>0, <2>1, ZenonT(60) DEF TypeOK
  <2>3. Bounded(SuffixesOf(saved))'
    BY <1>0, <2>1, Zenon
  <2> QED
    BY <2>2, <2>3 DEF TypeInv
<1> QED
  BY <1>1, <1>2, <1>3, <1>4, <1>5, <1>6, <1>7, <1>8, <1>9, <1>10, <1>11, <1>12, <1>13, <1>14
     DEF Next, GtkThread, VideoThread

(* Every variable keeps to its range, also the numbers of the files and    *)
(* the count of the timer's pictures, for any number of both.              *)
THEOREM ImageTypes == Spec => []TypeOK
<1>1. TypeInv => TypeOK
  BY DEF TypeInv
<1> QED
  BY <1>1, TypeInit, TypeStep, PTL DEF Spec
=============================================================================
