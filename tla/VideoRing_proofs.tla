-------------------------- MODULE VideoRing_proofs --------------------------
(***************************************************************************)
(* Proofs about VideoRing, for every size of the ring, every number of     *)
(* loops and polls, every encoder delay and every bound.                   *)
(***************************************************************************)
EXTENDS VideoRing, SequenceTheorems, TLAPS

Assumptions ==
  /\ Size \in Nat \ {0}
  /\ MaxLoops \in Nat \ {0} /\ StallLoops \in Nat \ {0}
  /\ Delay \in Nat /\ VidFormat \in {"AVI", "MKV"}
  /\ MaxFrames \in Nat /\ MaxDrift \in Nat /\ MaxSkip \in Nat /\ MaxCaptures \in Nat

LEMMA AllAssumptions == Assumptions
BY SizeAssumption, LoopsAssumption, EncoderAssumption, BoundsAssumption
   DEF Assumptions

-----------------------------------------------------------------------------
(* What TypeOK needs to be inductive: the IO loop always has an iteration  *)
(* left while it runs, no capture starts later than the last frame, and    *)
(* the time main_loop gives a frame is not negative.                       *)
LoopsLeft ==
  /\ ipc \in {"none", "init", "open"} => loops = MaxLoops
  /\ ipc \in {"loop", "process", "peek", "take", "encode"} => loops >= 1
StartedInThePast == Vidstarttime <= grabbed /\ frame.ts \in 0 .. MaxFrames
TypeInv == TypeOK /\ LoopsLeft /\ StartedInThePast

LEMMA NextIndex ==
  ASSUME NEW i \in Slots
  PROVE  NEXT_IND(i) \in Slots
BY SizeAssumption DEF NEXT_IND, Slots

LEMMA TypeInit == Init => TypeInv
<1> SUFFICES ASSUME Init PROVE TypeInv
  OBVIOUS
<1> USE AllAssumptions DEF Assumptions
<1>1. NoFrame \in Frame /\ NoFrame.ts = 0
  BY DEF NoFrame, Frame, Span
<1>2. 0 \in Slots
  BY DEF Slots
<1>3. given \in Seq(Frame) /\ packets \in 0 .. Len(given)
  BY DEF Init
<1>4. /\ flush_delayed_frames \in BOOLEAN /\ sound \in BOOLEAN /\ resetting \in BOOLEAN
      /\ capVid \in BOOLEAN /\ VidCapStop \in BOOLEAN /\ signalquit \in BOOLEAN
      /\ allocated \in BOOLEAN /\ vCap \in BOOLEAN /\ vQuit \in BOOLEAN
      /\ signalled \in BOOLEAN /\ stamp \in BOOLEAN /\ iCap \in BOOLEAN /\ pCap \in BOOLEAN
  BY Zenon DEF Init
<1>5. TypeOK
  BY <1>1, <1>2, <1>3, <1>4 DEF Init, TypeOK, VideoPc, IOPc
<1> QED
  BY <1>1, <1>5 DEF Init, TypeInv, LoopsLeft, StartedInThePast

(* How often the frame just taken is given to the encoder.                 *)
LEMMA TimesNat ==
  ASSUME NEW k \in -1 .. 1
  PROVE  Times(k) \in 0 .. 2
BY DEF Times

LEMMA WriteType ==
  ASSUME given \in Seq(Frame), packets \in 0 .. Len(given), proc \in Frame,
         NEW c \in Nat, WriteVideoFrame(c)
  PROVE  given' \in Seq(Frame) /\ packets' \in 0 .. Len(given')
<1> USE AllAssumptions DEF Assumptions
<1>1. CASE flush_delayed_frames
  BY <1>1 DEF WriteVideoFrame, Flushed
<1>2. CASE ~flush_delayed_frames
  <2>1. Written(c) \in Seq(Frame) /\ Len(Written(c)) = c
    BY DEF Written
  <2>2. given' = given \o Written(c)
    BY <1>2 DEF WriteVideoFrame
  <2>3. given' \in Seq(Frame) /\ Len(given') = Len(given) + c
    BY <2>1, <2>2, ConcatProperties
  <2> QED
    BY <1>2, <2>3 DEF WriteVideoFrame
<1> QED
  BY <1>1, <1>2

LEMMA DriftType ==
  ASSUME TypeOK, EncodeFrame
  PROVE  /\ given' \in Seq(Frame) /\ packets' \in 0 .. Len(given')
         /\ av_drift' \in -MaxDrift .. MaxDrift /\ shifted' \in Nat
         /\ resetting' \in BOOLEAN /\ sound' \in BOOLEAN
<1>1. PICK k \in AudioDrift : Correct(k) /\ WriteVideoFrame(Times(k))
  BY DEF EncodeFrame
<1>2. k \in -1 .. 1 /\ (sound => av_drift + k \in -MaxDrift .. MaxDrift)
  BY DEF AudioDrift
<1>3. Times(k) \in Nat
  BY <1>2, TimesNat
<1>4. given' \in Seq(Frame) /\ packets' \in 0 .. Len(given')
  BY <1>1, <1>3, WriteType DEF TypeOK
<1>5. av_drift' \in -MaxDrift .. MaxDrift /\ shifted' \in Nat
  BY <1>1, <1>2 DEF Correct, TypeOK
<1>6. resetting' \in {resetting, FALSE} /\ sound' = sound
  BY <1>1, Zenon DEF Correct
<1>7. resetting' \in BOOLEAN /\ sound' \in BOOLEAN
  BY <1>6, Zenon DEF TypeOK
<1> QED
  BY <1>4, <1>5, <1>7

(* The correction is subtracted from the time of a stored frame.           *)
LEMMA StampedFrame ==
  ASSUME TypeInv
  PROVE  /\ Stamped \in Frame
         /\ Stamped.id = frame.id /\ Stamped.ts = frame.ts - av_drift
<1> DEFINE t == frame.ts - av_drift
<1>1. frame.ts \in 0 .. MaxFrames /\ av_drift \in -MaxDrift .. MaxDrift /\ frame \in Frame
  BY DEF TypeInv, TypeOK, StartedInThePast
<1>2. t \in -Span .. Span
  BY <1>1, BoundsAssumption DEF Span
<1> HIDE DEF t
<1>3. Stamped = [frame EXCEPT !.ts = t]
  BY DEF Stamped, t
<1>4. Stamped = [id |-> frame.id, ts |-> t] /\ frame.id \in 0 .. MaxFrames
  BY <1>1, <1>3 DEF Frame
<1> QED
  BY <1>2, <1>4 DEF Frame, t

LEMMA TypeVideo ==
  ASSUME TypeInv, VideoThread
  PROVE  TypeInv'
<1> USE AllAssumptions, NextIndex
    DEF Assumptions, TypeInv, TypeOK, LoopsLeft, StartedInThePast, VideoPc,
        EndIteration, flags, ring, count, video, io, enc, drift, gtk
<1>1. CASE MainLoopTop
  BY <1>1 DEF MainLoopTop
<1>2. CASE GrabFails
  <2>1. stamp' \in BOOLEAN /\ signalquit' \in BOOLEAN
    BY <1>2, Zenon DEF GrabFails
  <2> QED
    BY <1>2, <2>1 DEF GrabFails
<1>3. CASE Grab
  <2>1. stamp' \in BOOLEAN /\ signalquit' \in BOOLEAN
    BY <1>3, Zenon DEF Grab
  <2> QED
    BY <1>3, <2>1, SMTT(90) DEF Grab, Frame, Span
<1>4. CASE FlagCapturing
  <2>1. VidCapStop' \in BOOLEAN
    BY <1>4, Zenon DEF FlagCapturing
  <2> QED
    BY <1>4, <2>1 DEF FlagCapturing
<1>5. CASE FlagStopped
  BY <1>5 DEF FlagStopped
<1>6. CASE Store
  <2>1. signalled' \in BOOLEAN
    BY <1>6, Zenon DEF Store, StoreAtIndex
  <2> QED
    BY <1>6, <2>1, StampedFrame DEF Store, StoreAtIndex, CountFrame
<1>7. CASE StoreNoRing
  <2>1. signalled' \in BOOLEAN
    BY <1>7, Zenon DEF StoreNoRing, DropFrame
  <2> QED
    BY <1>7, <2>1 DEF StoreNoRing, DropFrame, CountFrame
<1>8. CASE StoreFull
  BY <1>8 DEF StoreFull
<1>9. CASE RetryStores
  <2>1. signalled' \in BOOLEAN
    BY <1>9, Zenon DEF RetryStores, StoreAtIndex
  <2> QED
    BY <1>9, <2>1, StampedFrame DEF RetryStores, StoreAtIndex, CountFrame
<1>10. CASE RetryDrops
  <2>1. signalled' \in BOOLEAN
    BY <1>10, Zenon DEF RetryDrops, DropFrame
  <2> QED
    BY <1>10, <2>1 DEF RetryDrops, DropFrame, CountFrame
<1>11. CASE SignalDrops
  <2>1. signalled' \in BOOLEAN
    BY <1>11, Zenon DEF SignalDrops, DropFrame
  <2> QED
    BY <1>11, <2>1 DEF SignalDrops, DropFrame, CountFrame
<1>12. CASE ExitChecks
  BY <1>12 DEF ExitChecks
<1>13. CASE ExitFlags
  BY <1>13 DEF ExitFlags
<1>14. CASE ExitStops
  <2>1. capVid' \in BOOLEAN
    BY <1>14, Zenon DEF ExitStops
  <2> QED
    BY <1>14, <2>1 DEF ExitStops
<1>15. CASE ExitJoins
  BY <1>15 DEF ExitJoins
<1> QED
  BY VideoThread, <1>1, <1>2, <1>3, <1>4, <1>5, <1>6, <1>7, <1>8, <1>9, <1>10, <1>11, <1>12, <1>13, <1>14, <1>15 DEF VideoThread

LEMMA TypeIO ==
  ASSUME TypeInv, IOThread
  PROVE  TypeInv'
<1> USE AllAssumptions, NextIndex
    DEF Assumptions, TypeInv, TypeOK, LoopsLeft, StartedInThePast, IOPc,
        EndLoop, flags, ring, count, video, io, enc, drift, gtk
<1>1. CASE AllocRing
  <2>1. Occupancy \in Nat
    BY DEF Occupancy, Slots
  <2>2. discarded' \in Nat
    BY <1>1, <2>1 DEF AllocRing
  <2>3. NoFrame \in Frame /\ 0 \in Slots
    BY DEF NoFrame, Frame, Span, Slots
  <2>4. allocated' \in BOOLEAN
    BY <1>1, Zenon DEF AllocRing
  <2> QED
    BY <1>1, <2>2, <2>3, <2>4 DEF AllocRing
<1>2. CASE OpenFails
  <2>1. capVid' \in BOOLEAN
    BY <1>2, Zenon DEF OpenFails
  <2> QED
    BY <1>2, <2>1 DEF OpenFails
<1>3. CASE OpenFile
  <2>1. capVid' \in BOOLEAN /\ sound' \in BOOLEAN /\ resetting' \in BOOLEAN
    BY <1>3, Zenon DEF OpenFile
  <2> QED
    BY <1>3, <2>1 DEF OpenFile
<1>4. CASE IOLoopTop
  BY <1>4 DEF IOLoopTop
<1>5. CASE ProcessVideo
  BY <1>5 DEF ProcessVideo
<1>6. CASE PeekUsed
  BY <1>6 DEF PeekUsed
<1>7. CASE Underrun
  BY <1>7 DEF Underrun
<1>8. CASE FlushEncoder
  <2>1. flush_delayed_frames' \in BOOLEAN
    BY <1>8, Zenon DEF FlushEncoder
  <2> QED
    BY <1>8, <2>1 DEF FlushEncoder, FlushDone, Flushed
<1>9. CASE TakeFrame
  BY <1>9 DEF TakeFrame, ReleaseSlot
<1>10. CASE EncodeFrame
  <2>1. /\ given' \in Seq(Frame) /\ packets' \in 0 .. Len(given')
        /\ av_drift' \in -MaxDrift .. MaxDrift /\ shifted' \in Nat
        /\ resetting' \in BOOLEAN /\ sound' \in BOOLEAN
    BY <1>10, DriftType
  <2> QED
    BY <1>10, <2>1 DEF EncodeFrame
<1>11. CASE CloseStops
  <2>1. capVid' \in BOOLEAN
    BY <1>11, Zenon DEF CloseStops
  <2> QED
    BY <1>11, <2>1 DEF CloseStops
<1>12. CASE PollAgain
  BY <1>12 DEF PollAgain, WaitOver
<1>13. CASE PollEnds
  BY <1>13 DEF PollEnds
<1>14. CASE FreeRing
  <2>1. allocated' \in BOOLEAN
    BY <1>14, Zenon DEF FreeRing
  <2>2. NoFrame \in Frame /\ 0 \in Slots
    BY DEF NoFrame, Frame, Span, Slots
  <2> QED
    BY <1>14, <2>1, <2>2 DEF FreeRing
<1>15. CASE CloseFile
  <2>1. /\ flush_delayed_frames' \in BOOLEAN /\ sound' \in BOOLEAN
        /\ iCap' \in BOOLEAN /\ pCap' \in BOOLEAN
    BY <1>15, Zenon DEF CloseFile
  <2>2. given' \in Seq(Frame) /\ packets' \in 0 .. Len(given')
    BY <1>15 DEF CloseFile
  <2>3. NoFrame \in Frame
    BY DEF NoFrame, Frame, Span
  <2> QED
    BY <1>15, <2>1, <2>2, <2>3 DEF CloseFile
<1> QED
  BY IOThread, <1>1, <1>2, <1>3, <1>4, <1>5, <1>6, <1>7, <1>8, <1>9, <1>10, <1>11, <1>12, <1>13, <1>14, <1>15 DEF IOThread

LEMMA TypeGtk ==
  ASSUME TypeInv, GtkThread
  PROVE  TypeInv'
<1> USE AllAssumptions
    DEF Assumptions, TypeInv, TypeOK, LoopsLeft, StartedInThePast, IOPc,
        flags, ring, count, video, io, enc, drift, gtk
<1>1. CASE StartCapture
  BY <1>1 DEF StartCapture
<1>2. CASE StopCapture
  <2>1. capVid' \in BOOLEAN
    BY <1>2, Zenon DEF StopCapture
  <2> QED
    BY <1>2, <2>1 DEF StopCapture
<1>3. CASE JoinIO
  BY <1>3 DEF JoinIO
<1>4. CASE Shutdown
  BY <1>4 DEF Shutdown
<1> QED
  BY GtkThread, <1>1, <1>2, <1>3, <1>4 DEF GtkThread

LEMMA TypeResets ==
  ASSUME TypeInv, AudioResets
  PROVE  TypeInv'
<1> USE AllAssumptions
    DEF Assumptions, TypeInv, TypeOK, LoopsLeft, StartedInThePast,
        flags, ring, count, video, io, enc, gtk
<1>1. resetting' \in BOOLEAN
  BY Zenon DEF AudioResets
<1> QED
  BY <1>1, SMTT(30) DEF AudioResets

LEMMA TypeStep == TypeInv /\ [Next]_vars => TypeInv'
<1> SUFFICES ASSUME TypeInv, [Next]_vars PROVE TypeInv'
  OBVIOUS
<1>1. CASE UNCHANGED vars \/ Terminated
  BY <1>1, SMTT(90) DEF Terminated, vars, flags, ring, count, video, io, enc, drift, gtk,
              TypeInv, TypeOK, LoopsLeft, StartedInThePast
<1> QED
  BY <1>1, TypeVideo, TypeIO, TypeResets, TypeGtk DEF Next

(* Whatever the size of the ring and the numbers of loops, every variable  *)
(* keeps to its range: no index leaves the ring, no counter of IO_loop or  *)
(* wait_ms runs below 0, and no more packets are written than were given.  *)
THEOREM TypeCorrect == Spec => []TypeOK
<1>1. TypeInv => TypeOK
  BY DEF TypeInv
<1> QED
  BY <1>1, TypeInit, TypeStep, PTL DEF Spec
-----------------------------------------------------------------------------
(***************************************************************************)
(* The ring.  Only four actions touch it: a store, the taking of a frame,  *)
(* the allocation and the freeing.  The taker tested the flag of its slot  *)
(* in an earlier critical section and relies on nobody clearing it since.  *)
(***************************************************************************)
TakesUsed == ipc = "take" => used[r_ind]
RingIInv == TypeInv /\ RingInv /\ TakesUsed

LEMMA SlotInSlots ==
  ASSUME TypeOK, NEW j \in 0 .. Size - 1
  PROVE  Slot(j) \in Slots
BY SizeAssumption DEF TypeOK, Slot, Slots

LEMMA OccupancyBound ==
  ASSUME TypeOK
  PROVE  Occupancy \in 0 .. Size
BY SizeAssumption DEF TypeOK, Occupancy, Slots

LEMMA SlotInjective ==
  ASSUME TypeOK, NEW i \in 0 .. Size - 1, NEW j \in 0 .. Size - 1, Slot(i) = Slot(j)
  PROVE  i = j
BY SizeAssumption DEF TypeOK, Slot, Slots

(* A free slot at w_ind is the one after the last slot in use.             *)
LEMMA FreeSlotIsNext ==
  ASSUME TypeOK, RingInv, allocated, SlotFree
  PROVE  Occupancy < Size /\ w_ind = Slot(Occupancy)
<1>1. CASE w_ind = r_ind
  BY <1>1, SizeAssumption DEF TypeOK, SlotFree, Occupancy, Slot, Slots
<1>2. CASE w_ind # r_ind
  BY <1>2, SizeAssumption DEF TypeOK, Occupancy, Slot, Slots
<1> QED
  BY <1>1, <1>2

LEMMA StoreCounts ==
  ASSUME TypeOK, RingInv, allocated, SlotFree, StoreAtIndex
  PROVE  Occupancy' = Occupancy + 1
<1> USE SizeAssumption DEF TypeOK, StoreAtIndex, Occupancy, NEXT_IND, Slots
<1>1. used' = [used EXCEPT ![w_ind] = TRUE] /\ r_ind' = r_ind
  OBVIOUS
<1>2. CASE w_ind = r_ind
  BY <1>1, <1>2 DEF SlotFree
<1>3. CASE w_ind # r_ind
  <2>1. Slot(0) = r_ind /\ 0 < Occupancy
    BY <1>3 DEF Slot
  <2>2. used[r_ind]
    BY <2>1 DEF RingInv
  <2> QED
    BY <1>1, <1>3, <2>2
<1> QED
  BY <1>2, <1>3

LEMMA StoreKeepsRing ==
  ASSUME TypeOK, RingInv, SlotFree, StoreAtIndex
  PROVE  RingInv'
<1> SUFFICES ASSUME allocated', NEW s \in Slots
             PROVE  used'[s] <=> \E j \in 0 .. Size - 1 : j < Occupancy' /\ s = Slot(j)'
  BY DEF RingInv
<1>1. allocated /\ r_ind' = r_ind /\ used' = [used EXCEPT ![w_ind] = TRUE]
  BY DEF StoreAtIndex
<1>2. \A j \in 0 .. Size - 1 : Slot(j)' = Slot(j)
  BY <1>1 DEF Slot
<1>3. Occupancy' = Occupancy + 1 /\ Occupancy \in 0 .. Size - 1 /\ w_ind = Slot(Occupancy)
  BY <1>1, StoreCounts, FreeSlotIsNext, OccupancyBound, SizeAssumption
<1>4. used'[s] <=> (s = w_ind \/ used[s])
  BY <1>1 DEF TypeOK
<1>5. used[s] <=> \E j \in 0 .. Size - 1 : j < Occupancy /\ s = Slot(j)
  BY <1>1 DEF RingInv
<1> QED
  BY <1>2, <1>3, <1>4, <1>5, SizeAssumption

(* Taking moves every slot one place nearer to the front.                  *)
LEMMA TakeShifts ==
  ASSUME TypeOK, RingInv, TakesUsed, allocated, TakeFrame
  PROVE  /\ Occupancy >= 1 /\ Occupancy' = Occupancy - 1
         /\ \A j \in 0 .. Size - 2 : Slot(j)' = Slot(j + 1)
<1> USE SizeAssumption
<1>1. used[r_ind] /\ used' = [used EXCEPT ![r_ind] = FALSE] /\ r_ind' = NEXT_IND(r_ind)
      /\ w_ind' = w_ind
  BY DEF TakesUsed, TakeFrame, ReleaseSlot
<1>2. Occupancy >= 1
  BY <1>1 DEF TypeOK, Occupancy, Slots
<1>3. \A j \in 0 .. Size - 2 : Slot(j)' = Slot(j + 1)
  BY <1>1 DEF TypeOK, Slot, NEXT_IND, Slots
<1>4. ASSUME w_ind = r_ind
      PROVE  Occupancy' = Occupancy - 1
  <2>1. Occupancy = Size
    BY <1>1, <1>4 DEF TypeOK, Occupancy, Slots
  <2>2. CASE Size = 1
    <3>1. ~used'[r_ind] /\ r_ind' = r_ind /\ w_ind' = r_ind
      BY <1>1, <1>4, <2>2 DEF TypeOK, NEXT_IND, Slots
    <3>2. Occupancy' = 0
      BY <3>1 DEF TypeOK, Occupancy, Slots
    <3> QED
      BY <2>1, <2>2, <3>2
  <2>3. CASE Size # 1
    BY <1>1, <1>4, <2>1, <2>3 DEF TypeOK, Occupancy, NEXT_IND, Slots
  <2> QED
    BY <2>2, <2>3
<1>5. ASSUME w_ind # r_ind
      PROVE  Occupancy' = Occupancy - 1
  <2>1. w_ind = NEXT_IND(r_ind) => ~used[w_ind]
    <3> SUFFICES ASSUME w_ind = NEXT_IND(r_ind), used[w_ind] PROVE FALSE
      OBVIOUS
    <3>1. PICK j \in 0 .. Size - 1 : j < Occupancy /\ w_ind = Slot(j)
      BY DEF RingInv, TypeOK
    <3> QED
      BY <1>5, <3>1 DEF TypeOK, Occupancy, Slot, NEXT_IND, Slots
  <2>2. CASE w_ind = NEXT_IND(r_ind)
    <3>1. ~used'[w_ind] /\ r_ind' = w_ind'
      BY <1>1, <1>5, <2>1, <2>2 DEF TypeOK
    <3>2. Occupancy' = 0
      BY <1>1, <3>1 DEF TypeOK, Occupancy, Slots
    <3> QED
      BY <1>5, <2>2, <3>2 DEF TypeOK, Occupancy, NEXT_IND, Slots
  <2>3. CASE w_ind # NEXT_IND(r_ind)
    BY <1>1, <1>5, <2>3 DEF TypeOK, Occupancy, NEXT_IND, Slots
  <2> QED
    BY <2>2, <2>3
<1> QED
  BY <1>2, <1>3, <1>4, <1>5

LEMMA TakeKeepsRing ==
  ASSUME TypeOK, RingInv, TakesUsed, TakeFrame
  PROVE  RingInv'
<1> SUFFICES ASSUME allocated', NEW s \in Slots
             PROVE  used'[s] <=> \E j \in 0 .. Size - 1 : j < Occupancy' /\ s = Slot(j)'
  BY DEF RingInv
<1>1. allocated /\ used' = [used EXCEPT ![r_ind] = FALSE]
  BY DEF TakeFrame, ReleaseSlot
<1>2. /\ Occupancy \in 1 .. Size /\ Occupancy' = Occupancy - 1
      /\ \A j \in 0 .. Size - 2 : Slot(j)' = Slot(j + 1)
  BY <1>1, TakeShifts, OccupancyBound, SizeAssumption
<1>3. r_ind = Slot(0)
  BY SizeAssumption DEF TypeOK, Slot, Slots
<1>4. used'[s] <=> (s # r_ind /\ used[s])
  BY <1>1 DEF TypeOK
<1>5. used[s] <=> \E j \in 0 .. Size - 1 : j < Occupancy /\ s = Slot(j)
  BY <1>1 DEF RingInv
<1>6. ASSUME used'[s]
      PROVE  \E j \in 0 .. Size - 1 : j < Occupancy' /\ s = Slot(j)'
  <2>1. PICK j \in 0 .. Size - 1 : j < Occupancy /\ s = Slot(j)
    BY <1>4, <1>5, <1>6
  <2>2. j - 1 \in 0 .. Size - 2 /\ j - 1 < Occupancy'
    BY <1>2, <1>3, <1>4, <1>6, <2>1, SizeAssumption
  <2>3. s = Slot(j - 1)'
    BY <1>2, <2>1, <2>2
  <2> QED
    BY <2>2, <2>3, SizeAssumption
<1>7. ASSUME NEW j \in 0 .. Size - 1, j < Occupancy', s = Slot(j)'
      PROVE  used'[s]
  <2>1. j \in 0 .. Size - 2 /\ j + 1 < Occupancy /\ s = Slot(j + 1)
    BY <1>2, <1>7, SizeAssumption
  <2>2. s # r_ind
    BY <1>3, <2>1, SlotInjective, SizeAssumption
  <2> QED
    BY <1>4, <1>5, <2>1, <2>2, SizeAssumption
<1> QED
  BY <1>6, <1>7

LEMMA AllocEmpties ==
  ASSUME TypeOK, AllocRing
  PROVE  RingInv' /\ Occupancy' = 0
<1>1. allocated' /\ r_ind' = 0 /\ w_ind' = 0 /\ used' = [s \in Slots |-> FALSE] /\ 0 \in Slots
  BY SizeAssumption DEF AllocRing, Slots
<1>2. Occupancy' = 0
  BY <1>1 DEF Occupancy
<1>3. \A s \in Slots : ~used'[s]
  BY <1>1
<1>4. \A j \in 0 .. Size - 1 : ~(j < Occupancy')
  BY <1>2, SizeAssumption
<1> QED
  BY <1>2, <1>3, <1>4 DEF RingInv

(* What the other actions leave alone.                                     *)
LEMMA RingUnchanged ==
  ASSUME UNCHANGED ring
  PROVE  (RingInv <=> RingInv') /\ UNCHANGED <<allocated, Contents, Occupancy>>
BY DEF ring, RingInv, Contents, Occupancy, Slot

RingAction == Store \/ RetryStores \/ TakeFrame \/ AllocRing \/ FreeRing

LEMMA OtherActions ==
  ASSUME [Next]_vars, ~RingAction
  PROVE  UNCHANGED ring
<1>1. CASE VideoThread
  BY <1>1 DEF RingAction, VideoThread, MainLoopTop, GrabFails, Grab, FlagCapturing, FlagStopped,
              StoreNoRing, StoreFull, RetryDrops, SignalDrops, DropFrame, ExitChecks,
              ExitFlags, ExitStops, ExitJoins
<1>2. CASE IOThread
  BY <1>2 DEF RingAction, IOThread, OpenFails, OpenFile, IOLoopTop, ProcessVideo, PeekUsed,
              Underrun, FlushEncoder, EncodeFrame, CloseStops, PollAgain, PollEnds, CloseFile
<1>3. CASE GtkThread
  BY <1>3 DEF GtkThread, StartCapture, StopCapture, JoinIO, Shutdown
<1>4. CASE Terminated \/ UNCHANGED vars
  BY <1>4 DEF Terminated, vars
<1>5. CASE AudioResets
  BY <1>5 DEF AudioResets
<1> QED
  BY <1>1, <1>2, <1>3, <1>4, <1>5 DEF Next

LEMMA RingInvStep == RingIInv /\ [Next]_vars => RingInv'
<1> SUFFICES ASSUME TypeOK, RingInv, TakesUsed, [Next]_vars PROVE RingInv'
  BY DEF RingIInv, TypeInv
<1>1. CASE Store \/ RetryStores
  BY <1>1, StoreKeepsRing DEF Store, RetryStores
<1>2. CASE TakeFrame
  BY <1>2, TakeKeepsRing
<1>3. CASE AllocRing
  BY <1>3, AllocEmpties
<1>4. CASE FreeRing
  BY <1>4 DEF FreeRing, RingInv
<1>5. CASE ~RingAction
  BY <1>5, OtherActions, RingUnchanged
<1> QED
  BY <1>1, <1>2, <1>3, <1>4, <1>5 DEF RingAction

(* Nobody but the taker clears the flag it has seen.                       *)
LEMMA TakesUsedStep == RingIInv /\ [Next]_vars => TakesUsed'
<1> SUFFICES ASSUME TypeOK, TakesUsed, [Next]_vars, ipc' = "take" PROVE used'[r_ind']
  BY DEF RingIInv, TypeInv, TakesUsed
<1>1. CASE PeekUsed
  BY <1>1 DEF PeekUsed, FrameWaiting, ring
<1>2. CASE Store \/ RetryStores
  BY <1>2 DEF Store, RetryStores, StoreAtIndex, TakesUsed, TypeOK, io
<1>3. CASE ~PeekUsed /\ ~Store /\ ~RetryStores
  <2>1. ipc = "take" /\ UNCHANGED ring
    <3>1. CASE VideoThread
      BY <1>3, <3>1 DEF VideoThread, MainLoopTop, GrabFails, Grab, FlagCapturing, FlagStopped,
              StoreNoRing, StoreFull, RetryDrops, SignalDrops, DropFrame, ExitChecks,
              ExitFlags, ExitStops, ExitJoins, io
    <3>2. CASE IOThread
      BY <1>3, <3>2 DEF IOThread, AllocRing, OpenFails, OpenFile, IOLoopTop, ProcessVideo,
              Underrun, FlushEncoder, TakeFrame, EncodeFrame, EndLoop, CloseStops, PollAgain,
              PollEnds, FreeRing, CloseFile
    <3>3. CASE GtkThread
      BY <3>3 DEF GtkThread, StartCapture, StopCapture, JoinIO, Shutdown, io
    <3>4. CASE Terminated \/ UNCHANGED vars
      BY <3>4 DEF Terminated, vars, io
    <3>5. CASE AudioResets
      BY <3>5 DEF AudioResets, io
    <3> QED
      BY <3>1, <3>2, <3>3, <3>4, <3>5 DEF Next
  <2> QED
    BY <2>1 DEF TakesUsed, ring
<1> QED
  BY <1>1, <1>2, <1>3

LEMMA RingInvariance == Spec => []RingIInv
<1>1. Init => RingIInv
  BY TypeInit DEF Init, RingIInv, RingInv, TakesUsed
<1>2. RingIInv /\ [Next]_vars => RingIInv'
  BY TypeStep, RingInvStep, TakesUsedStep DEF RingIInv
<1> QED
  BY <1>1, <1>2, PTL DEF Spec

(* Whatever the size of the ring and however the threads interleave, the   *)
(* slots flagged used are exactly those between the two indexes, although  *)
(* store_video_frame and process_video each test one flag only.            *)
THEOREM RingCorrect == Spec => []RingInv
BY RingInvariance, PTL DEF RingIInv

-----------------------------------------------------------------------------
(***************************************************************************)
(* The ring implements the bounded FIFO.                                   *)
(***************************************************************************)
ContentsOK == Contents \in Seq(Frame) /\ (allocated => Len(Contents) = Occupancy)

LEMMA ContentsType == TypeOK => ContentsOK
<1> SUFFICES ASSUME TypeOK PROVE ContentsOK
  OBVIOUS
<1>1. Occupancy \in 0 .. Size
  BY OccupancyBound
<1>2. \A j \in 1 .. Occupancy : buf[Slot(j - 1)] \in Frame
  <2> TAKE j \in 1 .. Occupancy
  <2>1. j - 1 \in 0 .. Size - 1
    BY <1>1, SizeAssumption
  <2> QED
    BY <2>1, SlotInSlots DEF TypeOK
<1> QED
  BY <1>1, <1>2, SizeAssumption DEF Contents, ContentsOK

LEMMA ContentsTypeAfter == TypeOK' => ContentsOK'
BY ContentsType, PTL

LEMMA StoreIsPut ==
  ASSUME TypeInv, RingInv, TypeOK', allocated, SlotFree, StoreAtIndex
  PROVE  Len(Contents) < Size /\ Contents' = Append(Contents, Stamped) /\ Stamped \in Frame
<1>1. /\ allocated' = allocated /\ r_ind' = r_ind
      /\ buf' = [buf EXCEPT ![w_ind] = Stamped] /\ Stamped \in Frame
  BY StampedFrame DEF StoreAtIndex
<1>0. TypeOK
  BY DEF TypeInv
<1>2. /\ Occupancy \in 0 .. Size - 1 /\ w_ind = Slot(Occupancy)
      /\ Occupancy' = Occupancy + 1
  BY <1>0, FreeSlotIsNext, StoreCounts, OccupancyBound, SizeAssumption
<1>3. Contents \in Seq(Frame) /\ Len(Contents) = Occupancy
  BY <1>0, ContentsType DEF ContentsOK
<1>4. Contents' \in Seq(Frame) /\ Len(Contents') = Occupancy + 1
  BY <1>0, <1>1, <1>2, ContentsTypeAfter DEF ContentsOK
<1>5. /\ Append(Contents, Stamped) \in Seq(Frame)
      /\ Len(Append(Contents, Stamped)) = Occupancy + 1
      /\ \A i \in 1 .. Occupancy : Append(Contents, Stamped)[i] = Contents[i]
      /\ Append(Contents, Stamped)[Occupancy + 1] = Stamped
  BY <1>0, <1>1, <1>3, AppendProperties
<1>6. ASSUME NEW i \in 1 .. Occupancy + 1
      PROVE  Contents'[i] = Append(Contents, Stamped)[i]
  <2>1. i - 1 \in 0 .. Size - 1 /\ Slot(i - 1)' = Slot(i - 1) /\ Slot(i - 1) \in Slots
    BY <1>0, <1>1, <1>2, SlotInSlots, SizeAssumption DEF Slot
  <2>2. Contents'[i] = buf'[Slot(i - 1)]
    BY <1>0, <1>1, <1>2, <2>1 DEF Contents
  <2>3. CASE i = Occupancy + 1
    BY <1>0, <1>1, <1>2, <1>5, <2>1, <2>2, <2>3 DEF TypeOK
  <2>4. CASE i \in 1 .. Occupancy
    <3>1. Slot(i - 1) # w_ind
      BY <1>0, <1>2, <2>1, <2>4, SlotInjective
    <3>2. Contents[i] = buf[Slot(i - 1)]
      BY <2>4 DEF Contents
    <3> QED
      BY <1>0, <1>1, <1>5, <2>1, <2>2, <2>4, <3>1, <3>2 DEF TypeOK
  <2>5. i = Occupancy + 1 \/ i \in 1 .. Occupancy
    BY <1>2, SizeAssumption
  <2> QED
    BY <2>3, <2>4, <2>5
<1>7. Contents' = Append(Contents, Stamped)
  BY <1>4, <1>5, <1>6, SeqEqual
<1> QED
  BY <1>0, <1>1, <1>2, <1>3, <1>7, SizeAssumption

LEMMA TakeIsTake ==
  ASSUME TypeOK, RingInv, TakesUsed, TypeOK', allocated, TakeFrame
  PROVE  Contents # <<>> /\ Contents' = Tail(Contents)
<1>1. allocated' = allocated /\ buf' = buf
  BY DEF TakeFrame
<1>2. /\ Occupancy \in 1 .. Size /\ Occupancy' = Occupancy - 1
      /\ \A j \in 0 .. Size - 2 : Slot(j)' = Slot(j + 1)
  BY TakeShifts, OccupancyBound, SizeAssumption
<1>3. Contents \in Seq(Frame) /\ Len(Contents) = Occupancy
  BY ContentsType DEF ContentsOK
<1>4. Contents' \in Seq(Frame) /\ Len(Contents') = Occupancy - 1
  BY <1>1, <1>2, ContentsTypeAfter DEF ContentsOK
<1>5. /\ Contents # <<>> /\ Tail(Contents) \in Seq(Frame)
      /\ Len(Tail(Contents)) = Occupancy - 1
      /\ \A i \in 1 .. Occupancy - 1 : Tail(Contents)[i] = Contents[i + 1]
  <2>1. Contents # <<>>
    BY <1>2, <1>3
  <2> QED
    BY <1>3, <2>1, HeadTailProperties
<1>6. ASSUME NEW i \in 1 .. Occupancy - 1
      PROVE  Contents'[i] = Tail(Contents)[i]
  <2>1. i \in 1 .. Occupancy' /\ i + 1 \in 1 .. Occupancy /\ i - 1 \in 0 .. Size - 2
    BY <1>2, SizeAssumption
  <2>2. Contents'[i] = buf'[Slot(i - 1)'] /\ Contents[i + 1] = buf[Slot(i)]
    BY <1>1, <2>1 DEF Contents
  <2>3. Slot(i - 1)' = Slot(i)
    BY <1>2, <2>1
  <2> QED
    BY <1>1, <1>5, <2>2, <2>3
<1>7. Contents' = Tail(Contents)
  BY <1>4, <1>5, <1>6, SeqEqual
<1> QED
  BY <1>5, <1>7

LEMMA FifoStep ==
  RingIInv /\ RingIInv' /\ [Next]_vars => [Fifo!FifoNext]_(Fifo!fifoVars)
<1> SUFFICES ASSUME TypeInv, TypeOK, RingInv, TakesUsed, TypeOK', [Next]_vars
             PROVE  [Fifo!FifoNext]_(Fifo!fifoVars)
  BY DEF RingIInv, TypeInv
<1> USE DEF Fifo!FifoNext, Fifo!fifoVars
<1>1. CASE Store \/ RetryStores
  <2>1. SlotFree /\ StoreAtIndex
    BY <1>1 DEF Store, RetryStores
  <2>2. CASE allocated
    <3>1. Fifo!Put(Stamped)
      BY <2>1, <2>2, StoreIsPut DEF Fifo!Put, StoreAtIndex
    <3>2. Stamped \in Frame
      BY StampedFrame
    <3> QED
      BY <3>1, <3>2
  <2>3. CASE ~allocated
    BY <2>1, <2>3 DEF StoreAtIndex, Contents
  <2> QED
    BY <2>2, <2>3
<1>2. CASE TakeFrame
  <2>1. CASE allocated
    BY <1>2, <2>1, TakeIsTake DEF Fifo!Take, TakeFrame
  <2>2. CASE ~allocated
    BY <1>2, <2>2 DEF TakeFrame, Contents
  <2> QED
    BY <2>1, <2>2
<1>3. CASE AllocRing
  <2>1. Occupancy' = 0 /\ allocated' = TRUE
    BY <1>3, AllocEmpties, Zenon DEF AllocRing
  <2>2. Contents' = <<>>
    BY <2>1 DEF Contents
  <2> QED
    BY <2>1, <2>2 DEF Fifo!Open
<1>4. CASE FreeRing
  <2>1. allocated' = FALSE
    BY <1>4, Zenon DEF FreeRing
  <2>2. Contents' = <<>>
    BY <2>1 DEF Contents
  <2> QED
    BY <2>1, <2>2, Zenon DEF Fifo!Close
<1>5. CASE ~RingAction
  BY <1>5, OtherActions, RingUnchanged
<1> QED
  BY <1>1, <1>2, <1>3, <1>4, <1>5 DEF RingAction

(* The ring of flags and indexes is a bounded FIFO of Size frames: no frame *)
(* store_video_frame accepted is lost, repeated, overwritten or reordered   *)
(* before the ring is freed, whatever the size and the interleaving.        *)
THEOREM RingIsFifo == Spec => ImplementsFifo
<1>1. Init => Fifo!FifoInit
  <2> SUFFICES ASSUME Init PROVE Fifo!FifoInit
    OBVIOUS
  <2>1. allocated = FALSE
    BY Zenon DEF Init
  <2> QED
    BY <2>1, Zenon DEF Fifo!FifoInit, Contents
<1> QED
  BY <1>1, RingInvariance, FifoStep, PTL DEF Spec, ImplementsFifo, Fifo!FifoSpec

-----------------------------------------------------------------------------
(***************************************************************************)
(* The file a capture writes: that no thread touches a freed ring, that    *)
(* the frame counter is exact and that the frames of a file are in the     *)
(* order they were grabbed.  All of it builds on the ring being a FIFO.    *)
(***************************************************************************)

(* The states of IO_loop in which the file of the capture is open, in      *)
(* which it works on it, and in which no frame may be waited for any more: *)
(* the iteration knows that the capture has stopped.                       *)
Looping == {"loop", "process", "peek", "take", "encode"}
InFile == ipc \in Looping \cup {"close", "handshake", "free"}
Closing == (ipc = "encode" /\ ~iCap) \/ ipc \in {"close", "handshake", "free"}

(* capVid is up only while the loop runs; once an iteration has read it as *)
(* FALSE nothing raises it again before the file is closed.                *)
CaptureFlag ==
  /\ capVid => ipc \in Looping
  /\ (ipc \in {"process", "peek", "take", "encode"} /\ ~iCap) => ~capVid
  /\ (ipc \in {"peek", "take", "encode"} /\ ~pCap) => ~capVid

RingThere ==
  /\ (ipc = "open" \/ InFile) => allocated
  /\ ipc = "finish" => ~allocated

(* The handshake of closeVideoFile: a thread that waits for a slot has its *)
(* flag down and holds the polling up; the one iteration that may still    *)
(* store a frame finds a slot free, so it does not begin to wait.          *)
Handshake ==
  /\ vpc \in {"store", "wait"} => vCap /\ ~VidCapStop
  /\ vpc = "wait" => /\ allocated /\ ipc # "free"
                     /\ ipc = "handshake" => n >= 1
  /\ (Closing /\ vCap /\ vpc \in {"grab", "flag", "store"}) => SlotFree

AccessInv == CaptureFlag /\ RingThere /\ Handshake
AccessIInv == RingIInv /\ AccessInv

LEMMA AccessInit == Init => AccessInv
BY AllAssumptions, Zenon
   DEF Init, AccessInv, CaptureFlag, RingThere, Handshake, Looping, InFile, Closing

LEMMA CaptureFlagStep ==
  ASSUME TypeOK, CaptureFlag, [Next]_vars
  PROVE  CaptureFlag'
<1> USE DEF CaptureFlag, Looping, TypeOK, IOPc, flags, io
<1>1. CASE VideoThread
  <2>1. CASE ExitStops
    BY <2>1 DEF ExitStops
  <2>2. CASE ~ExitStops
    <3>1. UNCHANGED <<capVid, ipc, iCap, pCap>>
      BY <1>1, <2>2 DEF VideoThread, MainLoopTop, GrabFails, Grab, FlagCapturing, FlagStopped,
              Store, StoreNoRing, StoreFull, RetryStores, RetryDrops, SignalDrops, StoreAtIndex,
              DropFrame, ExitChecks, ExitFlags, ExitJoins
    <3> QED
      BY <3>1
  <2> QED
    BY <2>1, <2>2
<1>2. CASE IOThread
  <2>1. CASE OpenFile
    <3>1. ipc' = "loop"
      BY <2>1, Zenon DEF OpenFile
    <3> QED
      BY <3>1
  <2>2. CASE CloseFile
    <3>1. ipc = "finish" /\ ipc' = "none" /\ capVid' = capVid
      BY <2>2, Zenon DEF CloseFile
    <3> QED
      BY <3>1
  <2>3. CASE ~OpenFile /\ ~CloseFile
    BY <1>2, <2>3 DEF IOThread, AllocRing, OpenFails, IOLoopTop, ProcessVideo, PeekUsed,
            Underrun, FlushEncoder, TakeFrame, EncodeFrame, EndLoop, CloseStops, PollAgain,
            PollEnds, FreeRing
  <2> QED
    BY <2>1, <2>2, <2>3
<1>3. CASE GtkThread
  BY <1>3 DEF GtkThread, StartCapture, StopCapture, JoinIO, Shutdown
<1>4. CASE Terminated \/ UNCHANGED vars
  BY <1>4 DEF Terminated, vars
<1>5. CASE AudioResets
  BY <1>5 DEF AudioResets
<1> QED
  BY <1>1, <1>2, <1>3, <1>4, <1>5 DEF Next

LEMMA RingThereStep ==
  ASSUME TypeOK, RingThere, [Next]_vars
  PROVE  RingThere'
<1> USE DEF RingThere, InFile, Looping, TypeOK, IOPc, ring, io
<1>1. CASE VideoThread
  <2>1. UNCHANGED <<allocated, ipc>>
    BY <1>1 DEF VideoThread, MainLoopTop, GrabFails, Grab, FlagCapturing, FlagStopped,
            Store, StoreNoRing, StoreFull, RetryStores, RetryDrops, SignalDrops, StoreAtIndex,
            DropFrame, ExitChecks, ExitFlags, ExitStops, ExitJoins
  <2> QED
    BY <2>1
<1>2. CASE IOThread
  BY <1>2 DEF IOThread, AllocRing, OpenFails, OpenFile, IOLoopTop, ProcessVideo, PeekUsed,
          Underrun, FlushEncoder, TakeFrame, EncodeFrame, EndLoop, CloseStops, PollAgain,
          PollEnds, FreeRing, CloseFile
<1>3. CASE GtkThread
  BY <1>3 DEF GtkThread, StartCapture, StopCapture, JoinIO, Shutdown
<1>4. CASE Terminated \/ UNCHANGED vars
  BY <1>4 DEF Terminated, vars
<1>5. CASE AudioResets
  BY <1>5 DEF AudioResets
<1> QED
  BY <1>1, <1>2, <1>3, <1>4, <1>5 DEF Next
(* A ring that is not full has its slot at w_ind free; so has an empty one *)
(* and one a frame was just taken from.                                    *)
LEMMA RoomIsFree ==
  ASSUME TypeOK, RingInv, allocated, Occupancy < Size
  PROVE  SlotFree
<1>1. w_ind = Slot(Occupancy) /\ w_ind \in Slots
  BY SizeAssumption DEF TypeOK, Occupancy, Slot, Slots
<1>2. Occupancy \in 0 .. Size - 1
  BY OccupancyBound, SizeAssumption
<1>3. SUFFICES ASSUME used[w_ind] PROVE FALSE
  BY DEF SlotFree
<1>4. PICK j \in 0 .. Size - 1 : j < Occupancy /\ w_ind = Slot(j)
  BY <1>1, <1>3 DEF RingInv
<1>5. j = Occupancy
  BY <1>1, <1>2, <1>4, SlotInjective
<1> QED
  BY <1>2, <1>4, <1>5

LEMMA EmptyIsFree ==
  ASSUME TypeOK, RingInv, allocated, ~FrameWaiting
  PROVE  Occupancy = 0 /\ SlotFree
<1>1. Occupancy = 0
  <2>1. SUFFICES ASSUME Occupancy # 0 PROVE FALSE
    OBVIOUS
  <2>2. Occupancy \in 0 .. Size /\ 0 \in 0 .. Size - 1 /\ r_ind \in Slots /\ Slot(0) = r_ind
    BY OccupancyBound, SizeAssumption DEF TypeOK, Slot, Slots
  <2>3. used[r_ind]
    BY <2>1, <2>2 DEF RingInv
  <2> QED
    BY <2>3 DEF FrameWaiting
<1> QED
  BY <1>1, RoomIsFree, SizeAssumption

LEMMA RoomIsFreeAfter == TypeOK' /\ RingInv' /\ allocated' /\ (Occupancy < Size)' => SlotFree'
<1>1. TypeOK /\ RingInv /\ allocated /\ Occupancy < Size => SlotFree
  BY RoomIsFree
<1> QED
  BY <1>1, PTL

LEMMA RoomAfterTake ==
  ASSUME RingIInv, RingIInv', allocated, TakeFrame
  PROVE  SlotFree'
<1>1. Occupancy' < Size
  BY TakeShifts, OccupancyBound, SizeAssumption DEF RingIInv, TypeInv
<1>2. allocated'
  BY DEF TakeFrame
<1> QED
  BY <1>1, <1>2, RoomIsFreeAfter DEF RingIInv, TypeInv

LEMMA HandshakeVideo ==
  ASSUME TypeOK, AccessInv, VideoThread
  PROVE  Handshake'
<1> USE DEF AccessInv, Handshake, EndIteration, flags, ring, video, io
<1>1. CASE MainLoopTop
  <2>1. Closing => ~capVid
    BY DEF CaptureFlag, Closing, Looping
  <2> QED
    BY <1>1, <2>1 DEF MainLoopTop, Closing
<1>2. CASE GrabFails
  BY <1>2 DEF GrabFails
<1>3. CASE Grab
  BY <1>3 DEF Grab, Closing, SlotFree
<1>4. CASE FlagCapturing
  <2>1. ~VidCapStop'
    BY <1>4, Zenon DEF FlagCapturing
  <2> QED
    BY <1>4, <2>1 DEF FlagCapturing, Closing, SlotFree
<1>5. CASE FlagStopped
  BY <1>5 DEF FlagStopped
<1>6. CASE Store \/ RetryStores
  BY <1>6 DEF Store, RetryStores, StoreAtIndex
<1>7. CASE StoreNoRing \/ RetryDrops \/ SignalDrops
  BY <1>7 DEF StoreNoRing, RetryDrops, SignalDrops, DropFrame
<1>8. CASE StoreFull
  <2>1. ~Closing
    BY <1>8 DEF StoreFull
  <2> QED
    BY <1>8, <2>1 DEF StoreFull, Closing
<1>9. CASE ExitChecks \/ ExitFlags \/ ExitStops \/ ExitJoins
  BY <1>9 DEF ExitChecks, ExitFlags, ExitStops, ExitJoins
<1> QED
  BY <1>1, <1>2, <1>3, <1>4, <1>5, <1>6, <1>7, <1>8, <1>9 DEF VideoThread

LEMMA HandshakeIO ==
  ASSUME RingIInv, RingIInv', AccessInv, IOThread
  PROVE  Handshake'
<1> USE LoopsAssumption DEF AccessInv, RingIInv, TypeInv, Handshake, EndLoop, flags, ring, video, io
<1>1. CASE AllocRing
  BY <1>1 DEF AllocRing, Closing
<1>2. CASE OpenFails \/ OpenFile \/ IOLoopTop \/ ProcessVideo \/ PeekUsed
  <2>1. CASE OpenFile
    <3>1. UNCHANGED <<ring, video, VidCapStop>> /\ ipc' = "loop"
      BY <2>1, Zenon DEF OpenFile
    <3> QED
      BY <3>1 DEF Closing
  <2>2. CASE ~OpenFile
    BY <1>2, <2>2 DEF OpenFails, IOLoopTop, ProcessVideo, PeekUsed, Closing
  <2> QED
    BY <2>1, <2>2
<1>3. CASE Underrun \/ FlushEncoder
  <2>1. SlotFree
    BY <1>3, EmptyIsFree DEF Underrun, FlushEncoder, RingThere, InFile, Looping
  <2>2. UNCHANGED <<vpc, vCap, VidCapStop, allocated, used, w_ind>> /\ ipc' \in {"loop", "close"}
    BY <1>3 DEF Underrun, FlushEncoder
  <2> QED
    BY <2>1, <2>2, <1>3 DEF SlotFree, Closing, Underrun, FlushEncoder, RingThere, InFile, Looping
<1>4. CASE TakeFrame
  <2>1. SlotFree'
    BY <1>4, RoomAfterTake DEF RingThere, InFile, Looping, TakeFrame
  <2> QED
    BY <1>4, <2>1 DEF TakeFrame
<1>5. CASE EncodeFrame
  BY <1>5 DEF EncodeFrame, Closing, SlotFree
<1>6. CASE CloseStops
  BY <1>6 DEF CloseStops, Closing, SlotFree
<1>7. CASE PollAgain
  BY <1>7 DEF PollAgain, WaitOver, Closing, SlotFree, TypeOK
<1>8. CASE PollEnds
  BY <1>8 DEF PollEnds, WaitOver, Closing, SlotFree
<1>9. CASE FreeRing
  BY <1>9 DEF FreeRing, Closing
<1>10. CASE CloseFile
  BY <1>10 DEF CloseFile, Closing
<1> QED
  BY <1>1, <1>2, <1>3, <1>4, <1>5, <1>6, <1>7, <1>8, <1>9, <1>10 DEF IOThread

LEMMA AccessStep == AccessIInv /\ [Next]_vars => AccessIInv'
<1> SUFFICES ASSUME RingIInv, AccessInv, [Next]_vars PROVE AccessIInv'
  BY DEF AccessIInv
<1>1. RingIInv'
  BY TypeStep, RingInvStep, TakesUsedStep DEF RingIInv
<1>2. TypeOK /\ CaptureFlag /\ RingThere
  BY DEF RingIInv, TypeInv, AccessInv
<1>3. CaptureFlag' /\ RingThere'
  BY <1>2, CaptureFlagStep, RingThereStep
<1>4. Handshake'
  <2>1. CASE GtkThread
    BY <2>1 DEF GtkThread, StartCapture, StopCapture, JoinIO, Shutdown, AccessInv, Handshake,
            Closing, SlotFree, flags, ring, video, io
  <2>2. CASE Terminated \/ UNCHANGED vars
    BY <2>2 DEF Terminated, AccessInv, Handshake, Closing, SlotFree, vars, flags, ring, video, io
  <2>3. CASE AudioResets
    BY <2>3 DEF AudioResets, AccessInv, Handshake, Closing, SlotFree, flags, ring, video, io
  <2> QED
    BY <1>1, <1>2, <2>1, <2>2, <2>3, HandshakeVideo, HandshakeIO DEF Next
<1> QED
  BY <1>1, <1>3, <1>4 DEF AccessIInv, AccessInv

LEMMA AccessInvariance == Spec => []AccessIInv
<1>1. Init => RingIInv
  BY TypeInit DEF Init, RingIInv, RingInv, TakesUsed
<1> QED
  BY <1>1, AccessInit, AccessStep, PTL DEF Spec, AccessIInv

(* Whatever the sizes and the interleaving, a thread that waits for a slot *)
(* or works on one finds the ring allocated, although closeVideoFile frees *)
(* it after a wait that may run out, and store_video_frame does not look   *)
(* again after its own.                                                    *)
THEOREM RingAccess == Spec => []NoUseAfterFree
<1>1. AccessIInv => NoUseAfterFree
  BY DEF AccessIInv, AccessInv, Handshake, RingThere, InFile, Looping, NoUseAfterFree
<1> QED
  BY <1>1, AccessInvariance, PTL
-----------------------------------------------------------------------------
(***************************************************************************)
(* The frame counter.                                                      *)
(***************************************************************************)
Stored == IF allocated THEN Occupancy ELSE 0

(* Between two captures nothing is given and what was counted is in the    *)
(* ring of a start that failed, or went with it.                           *)
Between == ipc \in {"none", "init", "open"}
CountInv ==
  /\ InFile => framecount = taken + Occupancy + discarded
  /\ Between => /\ framecount = Stored + discarded
                /\ taken = 0 /\ given = <<>> /\ ~flush_delayed_frames

(* main_loop is in an iteration that has seen the capture run and may      *)
(* still store its frame.                                                  *)
Late == vCap /\ vpc \in {"grab", "flag", "store", "wait"}
LateFrame == IF Late THEN 1 ELSE 0

(* The flush begins with an empty ring when the capture has stopped, so    *)
(* that the frame of a late iteration is all that can still come.          *)
FlushBegun == InFile /\ flush_delayed_frames
LossInv ==
  /\ FlushBegun => ~capVid
  /\ WrittenOnce /\ InFile /\ ~flush_delayed_frames => Lost = 0
  /\ WrittenOnce /\ FlushBegun => /\ Lost >= 0
                                  /\ Lost + InHand + Occupancy + LateFrame <= 1

CountIInv == AccessIInv /\ CountInv /\ LossInv

CountTyped ==
  /\ Occupancy \in 0 .. Size /\ Occupancy \in Nat /\ Stored \in Nat
  /\ Len(given) \in Nat /\ taken \in Nat
  /\ framecount \in Nat /\ discarded \in Nat
  /\ InHand \in 0 .. 1 /\ LateFrame \in 0 .. 1
  /\ Lost = taken - InHand - Len(given) /\ Lost \in Int
  /\ packets \in 0 .. Len(given) /\ loops \in 0 .. MaxLoops
  /\ Size \in Nat /\ Delay \in Nat /\ MaxLoops \in Nat

LEMMA CountTypes == TypeOK => CountTyped
BY OccupancyBound, AllAssumptions
   DEF CountTyped, Assumptions, TypeOK, Stored, InHand, Lost, LateFrame

LEMMA CountTypesAfter == TypeOK' => CountTyped'
BY CountTypes, PTL

(* What the video thread does to the ring and the capture, seen from the   *)
(* IO thread: it adds a frame at most, that of an iteration that was late, *)
(* and no iteration becomes late once the capture has stopped.             *)
LEMMA VideoStep ==
  ASSUME AccessIInv, VideoThread
  PROVE  /\ UNCHANGED <<ipc, iCap, pCap, loops, n, proc, flush_delayed_frames, taken,
                        given, packets, discarded>>
         /\ capVid' => capVid
         /\ capVid \/ (Late' => Late)
         /\ \/ Store \/ RetryStores
            \/ UNCHANGED ring /\ framecount' = framecount
<1>1. UNCHANGED io /\ discarded' = discarded
  BY DEF VideoThread, MainLoopTop, GrabFails, Grab, FlagCapturing, FlagStopped,
     Store, StoreNoRing, StoreFull, RetryStores, RetryDrops, SignalDrops, StoreAtIndex,
     DropFrame, ExitChecks, ExitFlags, ExitStops, ExitJoins, count
<1>2. UNCHANGED <<ipc, iCap, pCap, loops, n, proc, flush_delayed_frames, taken, given, packets>>
  BY <1>1 DEF io, enc
<1>3. capVid' => capVid
  <2>1. CASE ExitStops
    <3>1. ~capVid'
      BY <2>1, Zenon DEF ExitStops
    <3> QED
      BY <3>1
  <2>2. CASE ~ExitStops
    <3>1. UNCHANGED capVid
      BY <2>2 DEF VideoThread, MainLoopTop, GrabFails, Grab, FlagCapturing, FlagStopped,
         Store, StoreNoRing, StoreFull, RetryStores, RetryDrops, SignalDrops, StoreAtIndex,
         DropFrame, ExitChecks, ExitFlags, ExitJoins, flags
    <3> QED
      BY <3>1
  <2> QED
    BY <2>1, <2>2
<1>4. capVid \/ (Late' => Late)
  BY DEF VideoThread, MainLoopTop, GrabFails, Grab, FlagCapturing, FlagStopped,
     Store, StoreNoRing, StoreFull, RetryStores, RetryDrops, SignalDrops, StoreAtIndex,
     DropFrame, ExitChecks, ExitFlags, ExitStops, ExitJoins, EndIteration, Late
<1>5. \/ Store \/ RetryStores
      \/ UNCHANGED ring /\ framecount' = framecount
  <2>1. CASE StoreNoRing \/ RetryDrops \/ SignalDrops
    BY <2>1 DEF StoreNoRing, RetryDrops, SignalDrops, DropFrame, CountFrame
  <2>2. CASE ~StoreNoRing /\ ~RetryDrops /\ ~SignalDrops
    BY <2>2 DEF VideoThread, MainLoopTop, GrabFails, Grab, FlagCapturing, FlagStopped,
            StoreFull, ExitChecks, ExitFlags, ExitStops, ExitJoins, count
  <2> QED
    BY <2>1, <2>2
<1> QED
  BY <1>1, <1>2, <1>3, <1>4, <1>5

LEMMA StoreStep ==
  ASSUME AccessIInv, Store \/ RetryStores
  PROVE  /\ StoreAtIndex /\ SlotFree /\ allocated /\ allocated'
         /\ Late /\ ~Late'
         /\ Occupancy' = Occupancy + 1 /\ framecount' = framecount + 1
<1>1. StoreAtIndex /\ SlotFree /\ allocated /\ Late
  BY DEF Store, RetryStores, AccessIInv, AccessInv, Handshake, Late
<1>2. Occupancy' = Occupancy + 1
  BY <1>1, StoreCounts DEF AccessIInv, RingIInv, TypeInv
<1>3. allocated' /\ framecount' = framecount + 1 /\ ~Late'
  BY <1>1 DEF StoreAtIndex, CountFrame, EndIteration, Late
<1> QED
  BY <1>1, <1>2, <1>3

LEMMA CountVideo ==
  ASSUME AccessIInv, AccessIInv', CountInv, LossInv, VideoThread
  PROVE  CountInv' /\ LossInv'
<1>1. /\ UNCHANGED <<ipc, taken, given, flush_delayed_frames, discarded>>
      /\ (capVid' => capVid) /\ (capVid \/ (Late' => Late))
  BY VideoStep
<1>2. /\ (InFile' <=> InFile) /\ (Between' <=> Between) /\ InHand' = InHand /\ Lost' = Lost
      /\ (FlushBegun' <=> FlushBegun)
  BY <1>1 DEF InFile, Between, InHand, Lost, FlushBegun
<1>3. TypeOK /\ TypeOK'
  BY DEF AccessIInv, RingIInv, TypeInv
<1>4. /\ Occupancy \in Nat /\ taken \in Nat /\ discarded \in Nat /\ framecount \in Nat
      /\ Stored \in Nat /\ InHand \in 0 .. 1 /\ LateFrame \in 0 .. 1 /\ Lost \in Int
      /\ LateFrame' \in 0 .. 1
  BY <1>3, CountTypes, CountTypesAfter DEF CountTyped
<1>5. CASE Store \/ RetryStores
  <2>1. /\ Occupancy' = Occupancy + 1 /\ framecount' = framecount + 1
        /\ Late /\ ~Late' /\ allocated /\ allocated'
    BY <1>5, StoreStep
  <2>2. Stored' = Stored + 1 /\ LateFrame = 1 /\ LateFrame' = 0
    BY <2>1 DEF Stored, LateFrame
  <2>3. CountInv'
    BY <1>1, <1>2, <1>4, <2>1, <2>2 DEF CountInv
  <2>4. LossInv'
    BY <1>1, <1>2, <1>4, <2>1, <2>2 DEF LossInv, FlushBegun
  <2> QED
    BY <2>3, <2>4
<1>6. CASE UNCHANGED ring /\ framecount' = framecount
  <2>1. Occupancy' = Occupancy /\ Stored' = Stored
    BY <1>6, RingUnchanged DEF Stored
  <2>2. CountInv'
    BY <1>1, <1>2, <1>6, <2>1 DEF CountInv
  <2>3. FlushBegun => LateFrame' <= LateFrame
    BY <1>1 DEF LossInv, FlushBegun, LateFrame
  <2>4. WrittenOnce /\ FlushBegun => Lost' + InHand' + Occupancy' + LateFrame' <= 1
    <3> SUFFICES ASSUME WrittenOnce, FlushBegun
                 PROVE  Lost' + InHand' + Occupancy' + LateFrame' <= 1
      OBVIOUS
    <3>1. Lost + InHand + Occupancy + LateFrame <= 1
      BY DEF LossInv
    <3>2. LateFrame' <= LateFrame
      BY <2>3
    <3>3. /\ Lost' = Lost /\ InHand' = InHand /\ Occupancy' = Occupancy
          /\ LateFrame \in Int /\ LateFrame' \in Int /\ Lost + InHand + Occupancy \in Int
      BY <1>2, <1>4, <2>1
    <3>4. PICK a \in Int, b \in Int : a = LateFrame /\ b = LateFrame'
      BY <3>3
    <3>5. PICK r \in Int : r = Lost + InHand + Occupancy
      BY <3>3
    <3>6. b <= a /\ r + a <= 1
      BY <3>1, <3>2, <3>4, <3>5
    <3>7. r + b <= 1
      BY <3>6
    <3> QED
      BY <3>3, <3>4, <3>5, <3>7
  <2>5. LossInv'
    BY <1>1, <1>2, <2>4 DEF LossInv
  <2> QED
    BY <2>2, <2>5
<1> QED
  BY <1>5, <1>6, VideoStep

(* Where each frame is written once, each is given to the encoder or lost. *)
LEMMA EncodeOnce ==
  ASSUME TypeOK, WrittenOnce, EncodeFrame
  PROVE  IF flush_delayed_frames THEN given' = given ELSE Len(given') = Len(given) + 1
<1>1. PICK k \in AudioDrift : Correct(k) /\ WriteVideoFrame(Times(k))
  BY DEF EncodeFrame
<1>2. Times(k) = 1
  <2>1. CASE VidFormat = "MKV"
    BY <2>1 DEF Times
  <2>2. CASE MaxDrift = 0
    <3>1. av_drift = 0 /\ k \in -1 .. 1
      BY <2>2 DEF TypeOK, AudioDrift
    <3>2. k = 0
      BY <2>2, <3>1 DEF AudioDrift
    <3> QED
      BY <3>2 DEF Times
  <2> QED
    BY <2>1, <2>2 DEF WrittenOnce
<1>3. CASE flush_delayed_frames
  BY <1>1, <1>3 DEF WriteVideoFrame
<1>4. CASE ~flush_delayed_frames
  <2>1. given' = given \o Written(1)
    BY <1>1, <1>2, <1>4 DEF WriteVideoFrame
  <2>2. Written(1) \in Seq(Frame) /\ Len(Written(1)) = 1 /\ given \in Seq(Frame)
    BY DEF Written, TypeOK
  <2>3. Len(given \o Written(1)) = Len(given) + Len(Written(1))
    BY <2>2, ConcatProperties, Zenon
  <2> QED
    BY <1>4, <2>1, <2>2, <2>3
<1> QED
  BY <1>3, <1>4

LEMMA CountIO ==
  ASSUME AccessIInv, AccessIInv', CountInv, LossInv, IOThread
  PROVE  CountInv' /\ LossInv'
<1>1. TypeOK /\ TypeOK' /\ RingInv /\ TakesUsed /\ CaptureFlag
  BY DEF AccessIInv, RingIInv, TypeInv, AccessInv
<1>2. /\ Occupancy \in Nat /\ taken \in Nat /\ discarded \in Nat /\ framecount \in Nat
      /\ Stored \in Nat /\ InHand \in 0 .. 1 /\ LateFrame \in 0 .. 1 /\ Lost \in Int
      /\ Len(given) \in Nat /\ Lost = taken - InHand - Len(given)
  BY <1>1, CountTypes DEF CountTyped
<1>3. InFile \/ ipc = "open" => allocated
  BY DEF AccessIInv, AccessInv, RingThere
<1>4. CASE AllocRing
  <2>1. Occupancy' = 0
    BY <1>1, <1>4, AllocEmpties
  <2>2. /\ ipc = "init" /\ ipc' = "open" /\ UNCHANGED <<taken, given, flush_delayed_frames, framecount>>
        /\ discarded' = IF allocated THEN discarded + Occupancy ELSE discarded
    BY <1>4 DEF AllocRing, enc
  <2>3. Stored' = 0 /\ framecount = Stored + discarded
    BY <2>1, <2>2 DEF Stored, CountInv, Between
  <2>4. CountInv'
    BY <1>2, <2>2, <2>3 DEF CountInv, Between, InFile, Looping, Stored
  <2> QED
    BY <2>2, <2>4 DEF LossInv, InFile, Looping, FlushBegun
<1>5. CASE OpenFails
  <2>1. UNCHANGED ring /\ UNCHANGED <<framecount, discarded, taken, given, flush_delayed_frames>>
        /\ ipc = "open" /\ ipc' = "none"
    BY <1>5 DEF OpenFails, count, enc
  <2>2. Stored' = Stored
    BY <2>1, RingUnchanged DEF Stored
  <2> QED
    BY <2>1, <2>2 DEF CountInv, LossInv, InFile, Looping, Between, FlushBegun
<1>6. CASE OpenFile
  <2>1. UNCHANGED ring /\ UNCHANGED <<framecount, discarded, taken, given, flush_delayed_frames>>
        /\ ipc = "open" /\ ipc' = "loop"
    BY <1>6 DEF OpenFile, count, enc
  <2>2. Occupancy' = Occupancy /\ Stored = Occupancy
    BY <1>3, <2>1, RingUnchanged DEF Stored
  <2>3. framecount = Occupancy + discarded /\ taken = 0 /\ given = <<>> /\ ~flush_delayed_frames
    BY <2>1, <2>2 DEF CountInv, Between
  <2>4. InHand' = 0 /\ Lost' = 0
    <3>1. InHand' = 0 /\ taken' = 0 /\ Len(given') = 0
      BY <2>1, <2>3 DEF InHand
    <3>2. Lost' = taken' - InHand' - Len(given')
      BY <1>1, CountTypesAfter DEF CountTyped
    <3> QED
      BY <3>1, <3>2
  <2>5. CountInv'
    BY <1>2, <2>1, <2>2, <2>3 DEF CountInv, Between
  <2>6. LossInv'
    BY <2>1, <2>3, <2>4 DEF LossInv, FlushBegun
  <2> QED
    BY <2>5, <2>6
<1>7. CASE IOLoopTop \/ ProcessVideo \/ PeekUsed \/ Underrun \/ CloseStops \/ PollAgain \/ PollEnds
  <2>1. /\ UNCHANGED ring /\ UNCHANGED count /\ UNCHANGED enc /\ UNCHANGED video
        /\ (capVid' => capVid) /\ ipc # "encode" /\ ipc' # "encode" /\ InFile /\ InFile'
    <3>1. CASE CloseStops
      <4>1. ~capVid'
        BY <3>1, Zenon DEF CloseStops
      <4> QED
        BY <3>1, <4>1 DEF CloseStops, InFile, Looping
    <3>2. CASE ~CloseStops
      BY <1>7, <3>2 DEF IOLoopTop, ProcessVideo, PeekUsed, Underrun, EndLoop, PollAgain,
              PollEnds, InFile, Looping, flags
    <3> QED
      BY <3>1, <3>2
  <2>2. UNCHANGED <<framecount, discarded, taken, given, flush_delayed_frames, vpc, vCap>>
    BY <2>1 DEF count, enc, video
  <2>3. Occupancy' = Occupancy
    BY <2>1, RingUnchanged
  <2>4. InHand' = InHand /\ Lost' = Lost /\ LateFrame' = LateFrame
    BY <2>1, <2>2 DEF InHand, Lost, LateFrame, Late
  <2>5. ~Between' /\ CountInv'
    BY <2>1, <2>2, <2>3 DEF CountInv, InFile, Looping, Between
  <2>6. LossInv'
    BY <2>1, <2>2, <2>3, <2>4 DEF LossInv, FlushBegun
  <2> QED
    BY <2>5, <2>6
<1>8. CASE FlushEncoder
  <2>1. /\ UNCHANGED ring /\ UNCHANGED <<framecount, discarded, taken, given, vpc, vCap, capVid>>
        /\ ipc = "peek" /\ ipc' \in {"loop", "close"} /\ ~FrameWaiting /\ ~pCap
    BY <1>8 DEF FlushEncoder, EndLoop, count, video, flags
  <2>2. flush_delayed_frames'
    BY <1>8, Zenon DEF FlushEncoder
  <2>3. InFile /\ InFile' /\ ~Between' /\ allocated /\ ~capVid
    BY <1>1, <1>3, <2>1 DEF InFile, Looping, Between, CaptureFlag
  <2>4. Occupancy = 0 /\ Occupancy' = 0
    BY <1>1, <2>1, <2>3, EmptyIsFree, RingUnchanged
  <2>5. InHand = 0 /\ InHand' = 0 /\ Lost' = Lost /\ LateFrame' = LateFrame
    BY <1>2, <2>1 DEF InHand, Lost, LateFrame, Late
  <2>6. WrittenOnce => Lost >= 0 /\ Lost + LateFrame <= 1
    BY <1>2, <2>3, <2>4, <2>5 DEF LossInv, FlushBegun
  <2>7. LossInv'
    BY <1>2, <2>1, <2>2, <2>3, <2>4, <2>5, <2>6 DEF LossInv
  <2>8. CountInv'
    BY <2>1, <2>3, <2>4 DEF CountInv
  <2> QED
    BY <2>7, <2>8
<1>9. CASE TakeFrame
  <2>1. /\ UNCHANGED <<framecount, discarded, given, flush_delayed_frames, vpc, vCap, capVid>>
        /\ taken' = taken + 1 /\ ipc = "take" /\ ipc' = "encode"
    BY <1>9 DEF TakeFrame, count, flags
  <2>2. InFile /\ InFile' /\ ~Between' /\ allocated
    BY <1>3, <2>1 DEF InFile, Looping, Between
  <2>3. Occupancy' = Occupancy - 1
    BY <1>1, <1>9, <2>2, TakeShifts
  <2>4. InHand = 0 /\ InHand' = 1 /\ Lost' = Lost /\ LateFrame' = LateFrame
    BY <1>2, <2>1 DEF InHand, Lost, LateFrame, Late
  <2>5. CountInv'
    BY <1>2, <2>1, <2>2, <2>3 DEF CountInv
  <2>6. LossInv'
    BY <1>2, <2>1, <2>2, <2>3, <2>4 DEF LossInv, FlushBegun
  <2> QED
    BY <2>5, <2>6
<1>10. CASE EncodeFrame
  <2>1. /\ UNCHANGED ring /\ UNCHANGED <<framecount, discarded, taken, flush_delayed_frames,
                                         vpc, vCap, capVid>>
        /\ ipc = "encode" /\ ipc' \in {"loop", "close"}
    BY <1>10 DEF EncodeFrame, EndLoop, count, video, flags
  <2>2. InFile /\ InFile' /\ ~Between' /\ Occupancy' = Occupancy
    BY <2>1, RingUnchanged DEF InFile, Looping, Between
  <2>3. InHand = 1 /\ InHand' = 0 /\ LateFrame' = LateFrame /\ Lost' = taken - Len(given')
    BY <1>1, <1>2, <2>1, CountTypesAfter DEF CountTyped, InHand, LateFrame, Late
  <2>4. CountInv'
    BY <2>1, <2>2 DEF CountInv
  <2>5. WrittenOnce => IF flush_delayed_frames THEN Lost' = Lost + 1 ELSE Lost' = Lost
    BY <1>1, <1>2, <1>10, <2>3, EncodeOnce
  <2>6. LossInv'
    BY <1>2, <2>1, <2>2, <2>3, <2>5 DEF LossInv, FlushBegun
  <2> QED
    BY <2>4, <2>6
<1>11. CASE FreeRing
  <2>1. ipc' = "finish"
    BY <1>11, Zenon DEF FreeRing
  <2> QED
    BY <2>1 DEF CountInv, LossInv, InFile, Looping, Between, FlushBegun
<1>12. CASE CloseFile
  <2>1. /\ UNCHANGED ring /\ ipc = "finish" /\ ipc' = "none" /\ framecount' = 0 /\ discarded' = 0
        /\ taken' = 0 /\ given' = <<>>
    BY <1>12 DEF CloseFile
  <2>2. ~flush_delayed_frames'
    BY <1>12, Zenon DEF CloseFile
  <2>3. Stored' = 0
    BY <2>1 DEF AccessIInv, AccessInv, RingThere, Stored, ring
  <2> QED
    BY <2>1, <2>2, <2>3 DEF CountInv, LossInv, InFile, Looping, Between, FlushBegun
<1> QED
  BY <1>4, <1>5, <1>6, <1>7, <1>8, <1>9, <1>10, <1>11, <1>12 DEF IOThread

(* The other threads leave the ring, the file and the counters alone.      *)
LEMMA OtherStep ==
  ASSUME [Next]_vars, ~VideoThread, ~IOThread
  PROVE  /\ UNCHANGED <<ring, count, video>>
         /\ UNCHANGED <<iCap, pCap, loops, n, proc, flush_delayed_frames, taken, given, packets>>
         /\ capVid' => capVid
         /\ ipc' = ipc \/ (ipc = "none" /\ ipc' = "init")
<1>1. CASE StopCapture
  <2>1. ~capVid'
    BY <1>1, Zenon DEF StopCapture
  <2> QED
    BY <1>1, <2>1 DEF StopCapture, io, enc
<1>2. CASE ~StopCapture
  BY <1>2 DEF Next, GtkThread, StartCapture, JoinIO, Shutdown, AudioResets, Terminated, vars,
          flags, io, enc
<1> QED
  BY <1>1, <1>2

LEMMA CountStep == CountIInv /\ [Next]_vars => CountIInv'
<1> SUFFICES ASSUME AccessIInv, CountInv, LossInv, [Next]_vars PROVE CountIInv'
  BY DEF CountIInv
<1>1. AccessIInv'
  BY AccessStep
<1>2. CASE ~VideoThread /\ ~IOThread
  <2>1. /\ UNCHANGED ring /\ UNCHANGED <<framecount, discarded, given, taken, flush_delayed_frames,
                                         vpc, vCap>>
        /\ capVid' => capVid
        /\ ipc' = ipc \/ (ipc = "none" /\ ipc' = "init")
    BY <1>2, OtherStep DEF count, video
  <2>2. UNCHANGED <<Occupancy, Stored>>
    BY <2>1, RingUnchanged DEF Stored
  <2>3. (InFile' <=> InFile) /\ (Between' <=> Between)
    BY <2>1 DEF InFile, Looping, Between
  <2>4. InHand' = InHand /\ LateFrame' = LateFrame /\ Lost' = Lost
    BY <2>1 DEF InHand, LateFrame, Late, Lost
  <2>5. CountInv'
    BY <2>1, <2>2, <2>3 DEF CountInv
  <2>6. LossInv'
    BY <2>1, <2>2, <2>3, <2>4 DEF LossInv, FlushBegun
  <2> QED
    BY <1>1, <2>5, <2>6 DEF CountIInv
<1> QED
  BY <1>1, <1>2, CountVideo, CountIO DEF CountIInv

LEMMA CountInit == Init => CountIInv
<1> SUFFICES ASSUME Init PROVE CountIInv
  OBVIOUS
<1>1. AccessIInv
  BY AccessInit, TypeInit DEF Init, AccessIInv, RingIInv, RingInv, TakesUsed
<1>2. /\ ~allocated /\ ipc = "none" /\ framecount = 0 /\ discarded = 0
      /\ taken = 0 /\ given = <<>> /\ ~flush_delayed_frames
  BY Zenon DEF Init
<1> QED
  BY <1>1, <1>2 DEF CountIInv, CountInv, LossInv, Stored, InFile, Looping, Between, FlushBegun

(* For every size of the ring, every encoder delay and every number of     *)
(* captures framecount is the number of frames taken for the file, those   *)
(* in the ring and those thrown away with the ring of a start that failed: *)
(* no frame is counted twice and none is missed.  And where each frame is  *)
(* written once, the encoder has been given every frame taken, but for the *)
(* one of a late iteration that came after the flush had begun.            *)
THEOREM CountExact == Spec => []FramecountExact
<1>1. ASSUME CountIInv PROVE FramecountExact
  <2>1. TypeOK
    BY <1>1 DEF CountIInv, AccessIInv, RingIInv, TypeInv
  <2>2. /\ Occupancy \in Nat /\ InHand \in 0 .. 1 /\ LateFrame \in 0 .. 1
        /\ Lost \in Int
    BY <2>1, CountTypes DEF CountTyped
  <2>3. SUFFICES ASSUME ipc \in IOPc \ {"none", "init", "open", "finish"}
                 PROVE  /\ framecount = taken + Occupancy + discarded
                        /\ WrittenOnce => Lost \in 0 .. (IF flush_delayed_frames THEN 1 ELSE 0)
    BY DEF FramecountExact
  <2>4. InFile
    BY <2>3 DEF IOPc, InFile, Looping
  <2>5. framecount = taken + Occupancy + discarded
    BY <1>1, <2>4 DEF CountIInv, CountInv
  <2>6. WrittenOnce => Lost \in 0 .. (IF flush_delayed_frames THEN 1 ELSE 0)
    BY <1>1, <2>2, <2>4 DEF CountIInv, LossInv, FlushBegun
  <2> QED
    BY <2>5, <2>6
<1> QED
  BY CountInit, <1>1, CountStep, PTL DEF Spec
-----------------------------------------------------------------------------
(***************************************************************************)
(* The order of the frames.  A frame is followed from the grab through the *)
(* ring and process_video to the file: at each moment the file, the frame  *)
(* IO_loop holds, the ring and the frame main_loop holds are sorted, in    *)
(* this order.  Two frames with their times corrected are compared up to   *)
(* what av_drift was raised by (shifted), one of them with the frame that  *)
(* main_loop holds up to what remains of it when av_drift is taken off.    *)
(***************************************************************************)
BelowBy(a, b, d) == a.id <= b.id /\ a.ts <= b.ts + d
RecentBy(f, last, time) == f.id <= last /\ f.ts <= time

SortedBy(s, d) == \A i, j \in 1 .. Len(s) : i < j => BelowBy(s[i], s[j], d)
AllBelowBy(s, f, d) == \A i \in 1 .. Len(s) : BelowBy(s[i], f, d)

Shift == shifted - av_drift
Now == grabbed - Vidstarttime

Sorted(s) == SortedBy(s, shifted)
AllRecent(s) == \A i \in 1 .. Len(s) : RecentBy(s[i], grabbed, Now + Shift)
SeqBelow(s, t) == \A j \in 1 .. Len(t) : AllBelowBy(s, t[j], shifted)

Pending == vCap /\ vpc \in {"flag", "store", "wait"}

RingOrder ==
  /\ Sorted(Contents) /\ AllRecent(Contents)
  /\ Pending => AllBelowBy(Contents, frame, Shift) /\ RecentBy(frame, grabbed, Now)

FileOrder ==
  InFile =>
    /\ AllRecent(given)
    /\ SeqBelow(given, Contents)
    /\ Pending => AllBelowBy(given, frame, Shift)

ProcOrder ==
  ipc = "encode" =>
    /\ RecentBy(proc, grabbed, Now + Shift) /\ AllBelowBy(given, proc, shifted)
    /\ \A j \in 1 .. Len(Contents) : BelowBy(proc, Contents[j], shifted)
    /\ Pending => BelowBy(proc, frame, Shift)

(* A capture that has counted no frame has none anywhere: the time of the  *)
(* frame that sets Vidstarttime is compared with nothing.                  *)
FirstFrame ==
  framecount = 0 => /\ Contents = <<>>
                    /\ InFile => given = <<>> /\ ipc # "encode"

OrderInv == Sorted(given) /\ RingOrder /\ FileOrder /\ ProcOrder /\ FirstFrame
OrderIInv == CountIInv /\ OrderInv

LEMMA FrameFields ==
  ASSUME NEW f \in Frame
  PROVE  f.id \in Int /\ f.ts \in Int
BY BoundsAssumption DEF Frame, Span

LEMMA BelowMore ==
  ASSUME NEW d \in Int, NEW e \in Int, d <= e
  PROVE  \A a, b \in Frame : BelowBy(a, b, d) => BelowBy(a, b, e)
BY FrameFields DEF BelowBy

LEMMA RecentMore ==
  ASSUME NEW last \in Int, NEW t \in Int, NEW u \in Int, t <= u
  PROVE  \A f \in Frame : RecentBy(f, last, t) => RecentBy(f, last, u)
BY FrameFields DEF RecentBy

LEMMA SortedAppend ==
  ASSUME NEW s \in Seq(Frame), NEW f \in Frame, NEW d, SortedBy(s, d), AllBelowBy(s, f, d)
  PROVE  SortedBy(Append(s, f), d)
<1>1. /\ Len(Append(s, f)) = Len(s) + 1 /\ Len(s) \in Nat
      /\ \A i \in 1 .. Len(s) : Append(s, f)[i] = s[i]
      /\ Append(s, f)[Len(s) + 1] = f
  BY AppendProperties
<1>2. SUFFICES ASSUME NEW i \in 1 .. Len(s) + 1, NEW j \in 1 .. Len(s) + 1, i < j
               PROVE  BelowBy(Append(s, f)[i], Append(s, f)[j], d)
  BY <1>1 DEF SortedBy
<1>3. i \in 1 .. Len(s) /\ Append(s, f)[i] = s[i]
  BY <1>1, <1>2
<1>4. CASE j = Len(s) + 1
  BY <1>1, <1>3, <1>4 DEF AllBelowBy
<1>5. CASE j \in 1 .. Len(s)
  BY <1>1, <1>2, <1>3, <1>5 DEF SortedBy
<1> QED
  BY <1>1, <1>4, <1>5

LEMMA TailOf ==
  ASSUME NEW s \in Seq(Frame), s # <<>>
  PROVE  /\ Len(s) \in Nat \ {0} /\ Len(Tail(s)) = Len(s) - 1
         /\ \A i \in 1 .. Len(s) - 1 : Tail(s)[i] = s[i + 1]
BY HeadTailProperties

LEMMA SortedTail ==
  ASSUME NEW s \in Seq(Frame), s # <<>>, NEW d, SortedBy(s, d)
  PROVE  SortedBy(Tail(s), d) /\ \A j \in 1 .. Len(Tail(s)) : BelowBy(s[1], Tail(s)[j], d)
<1>1. \A i, j \in 1 .. Len(Tail(s)) : i < j => BelowBy(Tail(s)[i], Tail(s)[j], d)
  <2> TAKE i, j \in 1 .. Len(Tail(s))
  <2>1. /\ i + 1 \in 1 .. Len(s) /\ j + 1 \in 1 .. Len(s) /\ i < j => i + 1 < j + 1
        /\ Tail(s)[i] = s[i + 1] /\ Tail(s)[j] = s[j + 1]
    BY TailOf
  <2> QED
    BY <2>1 DEF SortedBy
<1>2. \A j \in 1 .. Len(Tail(s)) : BelowBy(s[1], Tail(s)[j], d)
  <2> TAKE j \in 1 .. Len(Tail(s))
  <2>1. j + 1 \in 1 .. Len(s) /\ 1 \in 1 .. Len(s) /\ 1 < j + 1 /\ Tail(s)[j] = s[j + 1]
    BY TailOf
  <2> QED
    BY <2>1 DEF SortedBy
<1> QED
  BY <1>1, <1>2 DEF SortedBy

(* What the encoder is given repeats proc: it keeps the order of the file. *)
LEMMA WrittenAfter ==
  ASSUME NEW s \in Seq(Frame), proc \in Frame, NEW c \in Nat
  PROVE  /\ Len(s) \in Nat /\ Len(s \o Written(c)) = Len(s) + c
         /\ \A i \in 1 .. Len(s) : (s \o Written(c))[i] = s[i]
         /\ \A i \in (Len(s) + 1) .. (Len(s) + c) : (s \o Written(c))[i] = proc
<1>1. Written(c) \in Seq(Frame) /\ Len(Written(c)) = c /\ \A i \in 1 .. c : Written(c)[i] = proc
  BY DEF Written
<1>2. /\ Len(s \o Written(c)) = Len(s) + Len(Written(c))
      /\ \A i \in 1 .. Len(s) + Len(Written(c)) : (s \o Written(c))[i] =
                     IF i <= Len(s) THEN s[i] ELSE Written(c)[i - Len(s)]
  BY <1>1, ConcatProperties, Zenon
<1>3. Len(s) \in Nat
  OBVIOUS
<1>4. ASSUME NEW i \in (Len(s) + 1) .. (Len(s) + c)
      PROVE  (s \o Written(c))[i] = proc
  <2>1. i \in 1 .. Len(s) + Len(Written(c)) /\ ~(i <= Len(s)) /\ i - Len(s) \in 1 .. c
    BY <1>1, <1>3, <1>4
  <2> QED
    BY <1>1, <1>2, <2>1
<1> QED
  BY <1>1, <1>2, <1>3, <1>4

(* The file only grows by copies of proc; in the flush it does not grow.   *)
Grows ==
  /\ Len(given') >= Len(given)
  /\ \A i \in 1 .. Len(given) : given'[i] = given[i]
  /\ \A i \in 1 .. Len(given') : i > Len(given) => given'[i] = proc

LEMMA EncodeGrows ==
  ASSUME TypeOK, EncodeFrame
  PROVE  Grows
<1>1. PICK k \in AudioDrift : Correct(k) /\ WriteVideoFrame(Times(k))
  BY DEF EncodeFrame
<1>2. Times(k) \in Nat
  BY <1>1, TimesNat DEF AudioDrift
<1>3. given \in Seq(Frame) /\ proc \in Frame /\ Len(given) \in Nat
  BY DEF TypeOK
<1>4. CASE given' = given
  BY <1>3, <1>4 DEF Grows
<1>5. CASE given' = given \o Written(Times(k))
  <2> DEFINE c == Times(k)
  <2>1. /\ Len(given') = Len(given) + c /\ c \in Nat
        /\ \A i \in 1 .. Len(given) : given'[i] = given[i]
        /\ \A i \in (Len(given) + 1) .. (Len(given) + c) : given'[i] = proc
    BY <1>2, <1>3, <1>5, WrittenAfter
  <2> HIDE DEF c
  <2> QED
    BY <1>3, <2>1 DEF Grows
<1> QED
  BY <1>1, <1>4, <1>5 DEF WriteVideoFrame

(* The correction of a frame that goes to the file moves av_drift, or      *)
(* av_drift and shifted: what is allowed for never shrinks.                *)
Slackens == shifted' >= shifted /\ shifted' - av_drift' >= shifted - av_drift

LEMMA EncodeSlackens ==
  ASSUME TypeOK, EncodeFrame
  PROVE  Slackens
<1>1. PICK k \in AudioDrift : Correct(k) /\ WriteVideoFrame(Times(k))
  BY DEF EncodeFrame
<1>2. k \in -1 .. 1 /\ shifted \in Nat /\ av_drift \in Int
  BY BoundsAssumption DEF AudioDrift, TypeOK
<1> QED
  BY <1>1, <1>2 DEF Correct, Slackens

LEMMA ResetsSlacken ==
  ASSUME TypeOK, AudioResets
  PROVE  Slackens
<1>1. shifted \in Nat /\ av_drift \in Int
  BY BoundsAssumption DEF TypeOK
<1> QED
  BY <1>1 DEF AudioResets, Slackens

LEMMA FrameTypes ==
  ASSUME TypeOK
  PROVE  /\ Contents \in Seq(Frame) /\ given \in Seq(Frame)
         /\ \A i \in 1 .. Len(Contents) : Contents[i] \in Frame
         /\ \A i \in 1 .. Len(given) : given[i] \in Frame
         /\ proc \in Frame /\ frame \in Frame
         /\ grabbed \in Nat /\ Vidstarttime \in Nat /\ framecount \in Nat
         /\ shifted \in Nat /\ av_drift \in Int
BY ContentsType, BoundsAssumption DEF ContentsOK, TypeOK

FileTyped ==
  /\ given \in Seq(Frame) /\ proc \in Frame
  /\ shifted \in Nat /\ av_drift \in Int

LEMMA FileTypes == TypeOK => FileTyped
BY FrameTypes DEF FileTyped

LEMMA FileTypesAfter == TypeOK' => FileTyped'
BY FileTypes, PTL

LEMMA SlackKeeps ==
  ASSUME TypeOK, TypeOK', Slackens, UNCHANGED <<grabbed, Vidstarttime>>
  PROVE  /\ \A a, b \in Frame : BelowBy(a, b, shifted) => BelowBy(a, b, shifted')
         /\ \A a, b \in Frame : BelowBy(a, b, Shift) => BelowBy(a, b, Shift')
         /\ \A f \in Frame : RecentBy(f, grabbed, Now + Shift)
                               => RecentBy(f, grabbed, Now + Shift')
<1>1. /\ shifted \in Int /\ shifted' \in Int /\ av_drift \in Int /\ av_drift' \in Int
      /\ Now \in Int /\ grabbed \in Int
  BY FrameTypes, FileTypesAfter DEF FileTyped, Now
<1> DEFINE d == shifted - av_drift
           e == shifted' - av_drift'
           t == Now + d
           u == Now + e
<1>2. /\ d = Shift /\ e = Shift' /\ t = Now + Shift /\ u = Now + Shift'
  BY <1>1 DEF Shift
<1>3. /\ d \in Int /\ e \in Int /\ t \in Int /\ u \in Int
      /\ d <= e /\ t <= u
  <2>1. d \in Int /\ e \in Int
    BY <1>1
  <2>2. d <= e
    BY <2>1, <1>1 DEF Slackens
  <2> HIDE DEF d, e
  <2> QED
    BY <1>1, <2>1, <2>2
<1> HIDE DEF d, e, t, u
<1>4. \A a, b \in Frame : BelowBy(a, b, shifted) => BelowBy(a, b, shifted')
  BY <1>1, BelowMore DEF Slackens
<1>5. \A a, b \in Frame : BelowBy(a, b, d) => BelowBy(a, b, e)
  BY <1>3, BelowMore
<1>6. \A f \in Frame : RecentBy(f, grabbed, t) => RecentBy(f, grabbed, u)
  BY <1>1, <1>3, RecentMore
<1> QED
  BY <1>2, <1>4, <1>5, <1>6

(* Steps that move no frame: what was held may only be let go.             *)
LEMMA OrderKept ==
  ASSUME OrderInv, UNCHANGED <<Contents, given, framecount, grabbed, Vidstarttime>>,
         UNCHANGED <<shifted, av_drift>>,
         ipc' = "encode" => ipc = "encode" /\ proc' = proc,
         InFile' => InFile,
         Pending' => Pending /\ frame' = frame
  PROVE  OrderInv'
<1> USE DEF OrderInv, Now, Shift
<1>1. Sorted(given)'
  BY DEF Sorted
<1>2. RingOrder'
  BY DEF RingOrder, Sorted, AllRecent
<1>3. FileOrder'
  BY DEF FileOrder, AllRecent, SeqBelow
<1>4. ProcOrder'
  BY DEF ProcOrder
<1>5. FirstFrame'
  BY DEF FirstFrame
<1> QED
  BY <1>1, <1>2, <1>3, <1>4, <1>5

(* Audio_loop's reset of av_drift moves no frame either.                   *)
LEMMA OrderResets ==
  ASSUME TypeOK, TypeOK', OrderInv, AudioResets
  PROVE  OrderInv'
<1>1. /\ UNCHANGED ring /\ UNCHANGED <<given, framecount, grabbed, Vidstarttime, ipc, proc,
                                       vpc, vCap, frame>>
  BY DEF AudioResets, count, video, io, enc
<1>2. Contents' = Contents /\ (InFile' <=> InFile) /\ (Pending' <=> Pending) /\ Now' = Now
  BY <1>1, RingUnchanged DEF InFile, Pending, Now
<1>3. /\ \A a, b \in Frame : BelowBy(a, b, shifted) => BelowBy(a, b, shifted')
      /\ \A a, b \in Frame : BelowBy(a, b, Shift) => BelowBy(a, b, Shift')
      /\ \A f \in Frame : RecentBy(f, grabbed, Now + Shift) => RecentBy(f, grabbed, Now + Shift')
  BY <1>1, SlackKeeps, ResetsSlacken
<1> USE FrameTypes DEF OrderInv
<1>4. Sorted(given)'
  BY <1>1, <1>3 DEF Sorted, SortedBy
<1>5. RingOrder'
  BY <1>1, <1>2, <1>3 DEF RingOrder, Sorted, SortedBy, AllRecent, AllBelowBy
<1>6. FileOrder'
  BY <1>1, <1>2, <1>3 DEF FileOrder, AllRecent, SeqBelow, AllBelowBy
<1>7. ProcOrder'
  BY <1>1, <1>2, <1>3 DEF ProcOrder, AllBelowBy
<1>8. FirstFrame'
  BY <1>1, <1>2 DEF FirstFrame
<1> QED
  BY <1>4, <1>5, <1>6, <1>7, <1>8

(* A frame just grabbed comes after every other; so does its time, which   *)
(* is counted from a start no later than any of them.                      *)
LEMMA GrabIsLast ==
  ASSUME TypeOK, Grab, vCap, framecount >= 1, NEW f \in Frame,
         RecentBy(f, grabbed, Now + Shift)
  PROVE  BelowBy(f, frame', Shift) /\ RecentBy(f, grabbed', Now' + Shift)
<1>1. /\ grabbed' = grabbed + 1 /\ Vidstarttime' = Vidstarttime
      /\ frame' = [id |-> grabbed + 1, ts |-> grabbed + 1 - Vidstarttime]
  BY FrameTypes DEF Grab
<1>2. frame'.id = grabbed + 1 /\ frame'.ts = grabbed + 1 - Vidstarttime
  BY <1>1
<1>3. /\ grabbed \in Int /\ Vidstarttime \in Int /\ shifted \in Int /\ av_drift \in Int
      /\ f.id \in Int /\ f.ts \in Int
  BY FrameTypes, FrameFields
<1> QED
  BY <1>1, <1>2, <1>3 DEF BelowBy, RecentBy, Now, Shift

LEMMA OrderGrab ==
  ASSUME TypeOK, OrderInv, Grab
  PROVE  OrderInv'
<1>1. /\ UNCHANGED ring /\ UNCHANGED <<given, framecount, proc, ipc, vCap, shifted, av_drift>>
      /\ grabbed' = grabbed + 1
  BY DEF Grab, io, enc, drift
<1>2. Contents' = Contents /\ (InFile <=> InFile') /\ Shift' = Shift
  BY <1>1, RingUnchanged DEF InFile, Shift
<1>3. CASE ~vCap
  <2>1. ~Pending' /\ Vidstarttime' = Vidstarttime
    BY <1>3 DEF Grab, Pending
  <2>2. \A f \in Frame : RecentBy(f, grabbed, Now + Shift) => RecentBy(f, grabbed', Now' + Shift)
    <3> TAKE f \in Frame
    <3>1. /\ grabbed \in Int /\ Vidstarttime \in Int /\ shifted \in Int /\ av_drift \in Int
          /\ f.id \in Int /\ f.ts \in Int
      BY FrameTypes, FrameFields
    <3> QED
      BY <1>1, <2>1, <3>1 DEF RecentBy, Now, Shift
  <2> QED
    BY <1>1, <1>2, <2>1, <2>2, FrameTypes
       DEF OrderInv, RingOrder, FileOrder, ProcOrder, FirstFrame, Sorted, AllRecent, SeqBelow
<1>4. CASE vCap /\ framecount < 1
  <2>1. framecount = 0 /\ Contents = <<>> /\ (InFile => given = <<>> /\ ipc # "encode")
    BY <1>4, FrameTypes DEF OrderInv, FirstFrame
  <2>2. RecentBy(frame', grabbed', Now')
    <3>1. Vidstarttime' = grabbed + 1 /\ frame' = [id |-> grabbed + 1, ts |-> 0]
      BY <1>4, <2>1 DEF Grab
    <3> QED
      BY <1>1, <3>1, FrameTypes DEF RecentBy, Now
  <2>3. /\ Contents' = <<>> /\ (InFile' => given' = <<>> /\ ipc' # "encode")
        /\ 1 .. Len(<<>>) = {}
    BY <1>1, <1>2, <2>1
  <2>4. Sorted(given)'
    BY <1>1 DEF OrderInv, Sorted
  <2>5. RingOrder'
    BY <2>2, <2>3 DEF RingOrder, Sorted, SortedBy, AllRecent, AllBelowBy
  <2>6. FileOrder' /\ ProcOrder' /\ FirstFrame'
    BY <2>3 DEF FileOrder, ProcOrder, FirstFrame, AllRecent, AllBelowBy, SeqBelow, InFile, Looping
  <2> QED
    BY <2>4, <2>5, <2>6 DEF OrderInv
<1>5. CASE vCap /\ framecount >= 1
  <2>1. \A f \in Frame : RecentBy(f, grabbed, Now + Shift)
          => RecentBy(f, grabbed', Now' + Shift) /\ BelowBy(f, frame', Shift)
    BY <1>5, GrabIsLast
  <2>2. RecentBy(frame', grabbed', Now')
    <3>1. Vidstarttime' = Vidstarttime
          /\ frame' = [id |-> grabbed + 1, ts |-> grabbed + 1 - Vidstarttime]
      BY <1>5, FrameTypes DEF Grab
    <3> QED
      BY <1>1, <3>1, FrameTypes DEF RecentBy, Now
  <2> QED
    BY <1>1, <1>2, <2>1, <2>2, FrameTypes
       DEF OrderInv, RingOrder, FileOrder, ProcOrder, FirstFrame, Sorted, AllRecent, AllBelowBy,
           SeqBelow
<1> QED
  BY <1>3, <1>4, <1>5, FrameTypes

(* A stored frame has av_drift taken off its time.                         *)
LEMMA StampedLast ==
  ASSUME TypeInv
  PROVE  /\ Stamped \in Frame
         /\ \A a \in Frame : BelowBy(a, frame, Shift) => BelowBy(a, Stamped, shifted)
         /\ RecentBy(frame, grabbed, Now) => RecentBy(Stamped, grabbed, Now + Shift)
<1>1. TypeOK
  BY DEF TypeInv
<1>2. Stamped \in Frame /\ Stamped.id = frame.id /\ Stamped.ts = frame.ts - av_drift
  BY StampedFrame
<1>3. frame.id \in Int /\ frame.ts \in Int
  BY <1>1, FrameTypes, FrameFields
<1>4. shifted \in Nat /\ av_drift \in Int /\ Now \in Int /\ grabbed \in Int
  BY <1>1, FrameTypes DEF Now
<1>5. ASSUME NEW a \in Frame, BelowBy(a, frame, Shift)
      PROVE  BelowBy(a, Stamped, shifted)
  <2>1. a.id \in Int /\ a.ts \in Int
    BY FrameFields
  <2> QED
    BY <1>2, <1>3, <1>4, <1>5, <2>1 DEF BelowBy, Shift
<1>6. RecentBy(frame, grabbed, Now) => RecentBy(Stamped, grabbed, Now + Shift)
  BY <1>2, <1>3, <1>4 DEF RecentBy, Shift
<1> QED
  BY <1>2, <1>5, <1>6

LEMMA OrderStore ==
  ASSUME AccessIInv, AccessIInv', OrderInv, Store \/ RetryStores
  PROVE  OrderInv'
<1>1. StoreAtIndex /\ SlotFree /\ allocated /\ Pending
  BY DEF Store, RetryStores, AccessIInv, AccessInv, Handshake, Pending
<1>2. /\ UNCHANGED <<given, proc, ipc, grabbed, Vidstarttime, shifted, av_drift>>
      /\ (InFile <=> InFile')
      /\ framecount' = framecount + 1 /\ ~Pending'
  BY <1>1 DEF StoreAtIndex, CountFrame, EndIteration, Pending, InFile, io, enc, drift
<1>3. TypeOK /\ RingInv /\ TypeOK' /\ TypeInv
  BY DEF AccessIInv, RingIInv, TypeInv
<1>4. Contents' = Append(Contents, Stamped) /\ Stamped \in Frame
  BY <1>1, <1>3, StoreIsPut
<1>5. /\ Len(Append(Contents, Stamped)) = Len(Contents) + 1 /\ Len(Contents) \in Nat
      /\ \A i \in 1 .. Len(Contents) : Append(Contents, Stamped)[i] = Contents[i]
      /\ Append(Contents, Stamped)[Len(Contents) + 1] = Stamped
  BY <1>3, <1>4, FrameTypes, AppendProperties
<1>6. \A i \in 1 .. Len(Contents') :
        \/ i \in 1 .. Len(Contents) /\ Contents'[i] = Contents[i]
        \/ Contents'[i] = Stamped
  BY <1>4, <1>5
<1>7. /\ \A a \in Frame : BelowBy(a, frame, Shift) => BelowBy(a, Stamped, shifted)
      /\ RecentBy(Stamped, grabbed, Now + Shift)
  BY <1>1, <1>3, StampedLast DEF OrderInv, RingOrder
<1>8. Shift' = Shift /\ Now' = Now
  BY <1>2 DEF Shift, Now
<1>9. Sorted(given)'
  BY <1>2 DEF OrderInv, Sorted
<1>10. RingOrder'
  <2>1. AllBelowBy(Contents, Stamped, shifted)
    BY <1>1, <1>3, <1>7, FrameTypes DEF OrderInv, RingOrder, AllBelowBy
  <2>2. SortedBy(Append(Contents, Stamped), shifted)
    BY <1>3, <1>4, <2>1, FrameTypes, SortedAppend DEF OrderInv, RingOrder, Sorted
  <2>3. Sorted(Contents)'
    BY <1>2, <1>4, <2>2 DEF Sorted
  <2>4. AllRecent(Contents)'
    BY <1>2, <1>6, <1>7, <1>8 DEF OrderInv, RingOrder, AllRecent
  <2> QED
    BY <1>2, <2>3, <2>4 DEF RingOrder
<1>11. FileOrder'
  <2> SUFFICES ASSUME InFile PROVE AllRecent(given)' /\ SeqBelow(given, Contents)'
    BY <1>2 DEF FileOrder
  <2>1. AllRecent(given)'
    BY <1>2, <1>8 DEF OrderInv, FileOrder, AllRecent
  <2>2. AllBelowBy(given, Stamped, shifted)
    BY <1>1, <1>3, <1>7, FrameTypes DEF OrderInv, FileOrder, AllBelowBy
  <2>3. SeqBelow(given, Contents)'
    BY <1>2, <1>6, <2>2 DEF OrderInv, FileOrder, SeqBelow
  <2> QED
    BY <2>1, <2>3
<1>12. ProcOrder'
  <2>1. ipc = "encode" => BelowBy(proc, Stamped, shifted)
    BY <1>1, <1>3, <1>7, FrameTypes DEF OrderInv, ProcOrder
  <2> QED
    BY <1>2, <1>6, <1>8, <2>1 DEF OrderInv, ProcOrder
<1>13. FirstFrame'
  BY <1>2, <1>3, FrameTypes DEF FirstFrame
<1> QED
  BY <1>9, <1>10, <1>11, <1>12, <1>13 DEF OrderInv

LEMMA OrderTake ==
  ASSUME AccessIInv, AccessIInv', OrderInv, TakeFrame
  PROVE  OrderInv'
<1>1. /\ allocated /\ InFile /\ ipc' = "encode"
      /\ UNCHANGED <<given, framecount, frame, grabbed, Vidstarttime, shifted, av_drift>>
      /\ Pending' = Pending
  BY DEF TakeFrame, AccessIInv, AccessInv, RingThere, InFile, Looping, Pending, count, drift
<1>2. TypeOK /\ RingInv /\ TakesUsed /\ TypeOK'
  BY DEF AccessIInv, RingIInv, TypeInv
<1>3. Contents # <<>> /\ Contents' = Tail(Contents) /\ Contents \in Seq(Frame)
  BY <1>1, <1>2, TakeIsTake, FrameTypes
<1>4. proc' = Contents[1]
  <2>1. Occupancy >= 1 /\ Occupancy \in Nat
    BY <1>1, <1>2, TakeShifts, OccupancyBound
  <2>2. Slot(0) = r_ind
    BY <1>2, SizeAssumption DEF TypeOK, Slot, Slots
  <2> QED
    BY <1>1, <2>1, <2>2 DEF TakeFrame, Contents
<1>5. /\ Len(Contents) \in Nat \ {0} /\ Len(Contents') = Len(Contents) - 1
      /\ \A i \in 1 .. Len(Contents) - 1 : Contents'[i] = Contents[i + 1]
  BY <1>3, TailOf
<1>6. \A i \in 1 .. Len(Contents') : i + 1 \in 1 .. Len(Contents) /\ Contents'[i] = Contents[i + 1]
  BY <1>5
<1>7. 1 \in 1 .. Len(Contents)
  BY <1>5
<1>8. SortedBy(Contents, shifted) /\ framecount # 0
  BY <1>3 DEF OrderInv, RingOrder, FirstFrame, Sorted
<1>9. /\ SortedBy(Tail(Contents), shifted)
      /\ \A j \in 1 .. Len(Tail(Contents)) : BelowBy(Contents[1], Tail(Contents)[j], shifted)
  BY <1>3, <1>8, SortedTail
<1>10. Sorted(given)' /\ Shift' = Shift /\ Now' = Now
  BY <1>1 DEF OrderInv, Sorted, Shift, Now
<1>11. RingOrder'
  <2>1. Sorted(Contents)'
    BY <1>1, <1>3, <1>9 DEF Sorted
  <2>2. AllRecent(Contents)'
    BY <1>1, <1>6, <1>10 DEF OrderInv, RingOrder, AllRecent
  <2>3. Pending' => AllBelowBy(Contents', frame', Shift') /\ RecentBy(frame', grabbed', Now')
    BY <1>1, <1>6, <1>10 DEF OrderInv, RingOrder, AllBelowBy
  <2> QED
    BY <2>1, <2>2, <2>3 DEF RingOrder
<1>12. FileOrder'
  <2>1. AllRecent(given)'
    BY <1>1, <1>10 DEF OrderInv, FileOrder, AllRecent
  <2>2. SeqBelow(given, Contents)'
    BY <1>1, <1>6 DEF OrderInv, FileOrder, SeqBelow
  <2>3. Pending' => AllBelowBy(given', frame', Shift')
    BY <1>1, <1>10 DEF OrderInv, FileOrder
  <2> QED
    BY <2>1, <2>2, <2>3 DEF FileOrder
<1>13. ProcOrder'
  <2>1. /\ RecentBy(proc', grabbed', Now' + Shift')
        /\ AllBelowBy(given', proc', shifted')
    BY <1>1, <1>4, <1>7, <1>10
       DEF OrderInv, RingOrder, FileOrder, AllRecent, SeqBelow
  <2>2. \A j \in 1 .. Len(Contents') : BelowBy(proc', Contents'[j], shifted')
    BY <1>1, <1>3, <1>4, <1>9
  <2>3. Pending' => BelowBy(proc', frame', Shift')
    BY <1>1, <1>4, <1>7, <1>10 DEF OrderInv, RingOrder, AllBelowBy
  <2> QED
    BY <2>1, <2>2, <2>3 DEF ProcOrder
<1>14. FirstFrame'
  BY <1>1, <1>8 DEF FirstFrame
<1> QED
  BY <1>10, <1>11, <1>12, <1>13, <1>14 DEF OrderInv

LEMMA OrderEncode ==
  ASSUME AccessIInv, AccessIInv', OrderInv, EncodeFrame
  PROVE  OrderInv'
<1>1. TypeOK /\ TypeOK'
  BY DEF AccessIInv, RingIInv, TypeInv
<1>1a. /\ given \in Seq(Frame) /\ given' \in Seq(Frame) /\ proc \in Frame
       /\ shifted \in Nat /\ shifted' \in Nat
       /\ Len(given) \in Nat /\ Len(given') \in Nat
  BY <1>1, FileTypes, FileTypesAfter DEF FileTyped
<1>1b. Grows
  BY <1>1, EncodeGrows
<1>2. /\ UNCHANGED ring /\ UNCHANGED <<framecount, frame, grabbed, Vidstarttime>>
      /\ Pending' = Pending /\ InFile /\ ipc = "encode" /\ ipc' # "encode"
  BY DEF EncodeFrame, EndLoop, Pending, InFile, Looping, count, video
<1>3. Contents' = Contents /\ Now' = Now
  BY <1>2, RingUnchanged DEF Now
<1>4. /\ \A a, b \in Frame : BelowBy(a, b, shifted) => BelowBy(a, b, shifted')
      /\ \A a, b \in Frame : BelowBy(a, b, Shift) => BelowBy(a, b, Shift')
      /\ \A f \in Frame : RecentBy(f, grabbed, Now + Shift) => RecentBy(f, grabbed, Now + Shift')
  BY <1>1, <1>2, SlackKeeps, EncodeSlackens
<1>5. \A i \in 1 .. Len(given') :
         (i \in 1 .. Len(given) /\ given'[i] = given[i]) \/ (i > Len(given) /\ given'[i] = proc)
  <2> TAKE i \in 1 .. Len(given')
  <2>1. CASE i > Len(given)
    BY <1>1b, <2>1 DEF Grows
  <2>2. CASE ~(i > Len(given))
    <3>1. i \in 1 .. Len(given)
      BY <1>1a, <2>2
    <3> QED
      BY <1>1b, <3>1 DEF Grows
  <2> QED
    BY <2>1, <2>2
<1>6. \A i \in 1 .. Len(given') : given'[i] \in Frame
  BY <1>1, <1>1a, <1>5, FrameTypes
<1>7. BelowBy(proc, proc, shifted')
  <2>1. proc.ts \in Int /\ proc.id \in Int /\ shifted' \in Nat
    BY <1>1a, FrameFields
  <2> QED
    BY <2>1 DEF BelowBy
<1>8. Sorted(given)'
  <2> SUFFICES ASSUME NEW i \in 1 .. Len(given'), NEW j \in 1 .. Len(given'), i < j
               PROVE  BelowBy(given'[i], given'[j], shifted')
    BY DEF Sorted, SortedBy
  <2>1. CASE j \in 1 .. Len(given) /\ given'[j] = given[j]
    <3>1. i \in 1 .. Len(given) /\ given'[i] = given[i]
      BY <1>1a, <1>1b, <2>1 DEF Grows
    <3> QED
      BY <1>1, <1>4, <2>1, <3>1, FrameTypes DEF OrderInv, Sorted, SortedBy
  <2>2. CASE given'[j] = proc /\ i \in 1 .. Len(given) /\ given'[i] = given[i]
    BY <1>1, <1>2, <1>4, <2>2, FrameTypes DEF OrderInv, ProcOrder, AllBelowBy
  <2>3. CASE given'[j] = proc /\ given'[i] = proc
    BY <1>7, <2>3
  <2> QED
    BY <1>5, <2>1, <2>2, <2>3
<1>9. RingOrder'
  BY <1>1, <1>2, <1>3, <1>4, FrameTypes
     DEF OrderInv, RingOrder, Sorted, SortedBy, AllRecent, AllBelowBy
<1>10. FileOrder'
  <2>1. AllRecent(given)'
    BY <1>1, <1>2, <1>3, <1>4, <1>5, FrameTypes DEF OrderInv, FileOrder, ProcOrder, AllRecent
  <2>2. SeqBelow(given, Contents)'
    BY <1>1, <1>2, <1>3, <1>4, <1>5, FrameTypes
       DEF OrderInv, FileOrder, ProcOrder, SeqBelow, AllBelowBy
  <2>3. Pending' => AllBelowBy(given', frame', Shift')
    BY <1>1, <1>2, <1>4, <1>5, FrameTypes DEF OrderInv, FileOrder, ProcOrder, AllBelowBy
  <2> QED
    BY <2>1, <2>2, <2>3 DEF FileOrder
<1>11. ProcOrder'
  BY <1>2 DEF ProcOrder
<1>12. FirstFrame'
  BY <1>2 DEF OrderInv, FirstFrame
<1> QED
  BY <1>8, <1>9, <1>10, <1>11, <1>12 DEF OrderInv

(* A ring that begins or ends, or a file that begins or ends.              *)
LEMMA OrderNoFrames ==
  ASSUME CountIInv, OrderInv, AllocRing \/ FreeRing \/ OpenFile \/ CloseFile
  PROVE  OrderInv'
<1>1. 1 .. Len(<<>>) = {}
  OBVIOUS
<1> TypeOK /\ AccessInv
  BY DEF CountIInv, AccessIInv, RingIInv, TypeInv
<1>2. CASE AllocRing \/ FreeRing
  <2>1. Contents' = <<>>
    <3>1. CASE AllocRing
      <4>1. Occupancy' = 0
        BY <3>1, AllocEmpties
      <4> QED
        BY <4>1 DEF Contents
    <3>2. CASE FreeRing
      BY <3>2 DEF FreeRing, Contents
    <3> QED
      BY <1>2, <3>1, <3>2
  <2>2. /\ UNCHANGED <<given, framecount, frame, grabbed, Vidstarttime, shifted, av_drift>>
        /\ Pending' = Pending /\ ~InFile' /\ ipc' # "encode"
    BY <1>2 DEF AllocRing, FreeRing, Pending, InFile, Looping, count, video, enc, drift
  <2>3. Sorted(given)' /\ Now' = Now /\ Shift' = Shift
    BY <2>2 DEF OrderInv, Sorted, Now, Shift
  <2>4. RingOrder'
    BY <1>1, <2>1, <2>2, <2>3 DEF OrderInv, RingOrder, Sorted, SortedBy, AllRecent, AllBelowBy
  <2>5. FileOrder' /\ ProcOrder' /\ FirstFrame'
    BY <2>1, <2>2 DEF FileOrder, ProcOrder, FirstFrame
  <2> QED
    BY <2>3, <2>4, <2>5 DEF OrderInv
<1>3. CASE OpenFile
  <2>1. /\ UNCHANGED ring /\ UNCHANGED <<given, framecount, frame, grabbed, Vidstarttime,
                                         shifted, av_drift>>
        /\ Pending' = Pending /\ ipc = "open" /\ ipc' = "loop"
    BY <1>3 DEF OpenFile, Pending, count, video, enc
  <2>2. Contents' = Contents /\ given' = <<>>
    BY <2>1, RingUnchanged DEF CountIInv, CountInv, Between
  <2>3. Sorted(given)' /\ Now' = Now /\ Shift' = Shift
    BY <2>1 DEF OrderInv, Sorted, Now, Shift
  <2>4. RingOrder'
    BY <2>1, <2>2, <2>3 DEF OrderInv, RingOrder, Sorted, AllRecent
  <2>5. FileOrder' /\ ProcOrder' /\ FirstFrame'
    BY <1>1, <2>1, <2>2
       DEF OrderInv, FileOrder, ProcOrder, FirstFrame, AllRecent, AllBelowBy, SeqBelow
  <2> QED
    BY <2>3, <2>4, <2>5 DEF OrderInv
<1>4. CASE CloseFile
  <2>1. /\ UNCHANGED ring /\ UNCHANGED <<frame, grabbed>> /\ Vidstarttime' = 0 /\ given' = <<>>
        /\ Pending' = Pending /\ ~InFile' /\ ipc' # "encode" /\ ~allocated
    BY <1>4 DEF CloseFile, Pending, InFile, Looping, video, AccessInv, RingThere
  <2>2. Contents' = <<>>
    BY <2>1, RingUnchanged DEF Contents
  <2>3. Sorted(given)'
    BY <1>1, <2>1 DEF Sorted, SortedBy
  <2>4. RecentBy(frame, grabbed, Now) => RecentBy(frame', grabbed', Now')
    <3>1. frame.ts \in Int /\ grabbed \in Nat /\ Vidstarttime \in Nat
      BY FrameTypes, FrameFields
    <3> QED
      BY <2>1, <3>1 DEF RecentBy, Now
  <2>5. RingOrder'
    BY <1>1, <2>1, <2>2, <2>4 DEF OrderInv, RingOrder, Sorted, SortedBy, AllRecent, AllBelowBy
  <2>6. FileOrder' /\ ProcOrder' /\ FirstFrame'
    BY <2>1, <2>2 DEF FileOrder, ProcOrder, FirstFrame
  <2> QED
    BY <2>3, <2>5, <2>6 DEF OrderInv
<1> QED
  BY <1>2, <1>3, <1>4

LEMMA OrderVideo ==
  ASSUME AccessIInv, AccessIInv', OrderInv, VideoThread
  PROVE  OrderInv'
<1>1. CASE Grab
  BY <1>1, OrderGrab DEF AccessIInv, RingIInv, TypeInv
<1>2. CASE Store \/ RetryStores
  BY <1>2, OrderStore
<1>3. CASE ~Grab /\ ~Store /\ ~RetryStores
  <2>1. /\ UNCHANGED ring
        /\ UNCHANGED <<given, framecount, grabbed, Vidstarttime, ipc, proc, shifted, av_drift>>
        /\ Pending' => Pending /\ frame' = frame
    <3>1. CASE StoreNoRing \/ RetryDrops \/ SignalDrops
      BY <3>1 DEF StoreNoRing, RetryDrops, SignalDrops, DropFrame, CountFrame, EndIteration,
              Pending, io, enc, drift
    <3>2. CASE MainLoopTop \/ GrabFails \/ FlagCapturing \/ FlagStopped \/ StoreFull
      BY <3>2 DEF MainLoopTop, GrabFails, FlagCapturing, FlagStopped, StoreFull, EndIteration,
              Pending, io, enc, drift, count
    <3>3. CASE ExitChecks \/ ExitFlags \/ ExitStops \/ ExitJoins
      BY <3>3 DEF ExitChecks, ExitFlags, ExitStops, ExitJoins, Pending, io, enc, drift, count
    <3> QED
      BY <1>3, <3>1, <3>2, <3>3 DEF VideoThread
  <2>2. Contents' = Contents
    BY <2>1, RingUnchanged
  <2> QED
    BY <2>1, <2>2, OrderKept DEF InFile
<1> QED
  BY <1>1, <1>2, <1>3

LEMMA OrderIO ==
  ASSUME CountIInv, CountIInv', OrderInv, IOThread
  PROVE  OrderInv'
<1> AccessIInv /\ AccessIInv'
  BY DEF CountIInv
<1>1. CASE AllocRing \/ FreeRing \/ OpenFile \/ CloseFile
  BY <1>1, OrderNoFrames
<1>2. CASE TakeFrame
  BY <1>2, OrderTake
<1>3. CASE EncodeFrame
  BY <1>3, OrderEncode
<1>4. CASE OpenFails \/ IOLoopTop \/ ProcessVideo \/ PeekUsed \/ Underrun \/ FlushEncoder
           \/ CloseStops \/ PollAgain \/ PollEnds
  <2>1. UNCHANGED ring /\ UNCHANGED <<given, count, video, drift>>
    BY <1>4 DEF OpenFails, IOLoopTop, ProcessVideo, PeekUsed, Underrun, FlushEncoder,
            CloseStops, PollAgain, PollEnds, enc
  <2>2. ipc' # "encode" /\ (InFile' => InFile)
    BY <1>4 DEF OpenFails, IOLoopTop, ProcessVideo, PeekUsed, Underrun, FlushEncoder, EndLoop,
            CloseStops, PollAgain, PollEnds, InFile, Looping
  <2>3. Contents' = Contents
    BY <2>1, RingUnchanged
  <2> QED
    BY <2>1, <2>2, <2>3, OrderKept DEF Pending, count, video, drift
<1> QED
  BY <1>1, <1>2, <1>3, <1>4 DEF IOThread

LEMMA OrderStep == OrderIInv /\ [Next]_vars => OrderIInv'
<1> SUFFICES ASSUME CountIInv, OrderInv, [Next]_vars PROVE OrderIInv'
  BY DEF OrderIInv
<1>1. CountIInv'
  BY CountStep
<1>2. AccessIInv /\ AccessIInv' /\ TypeOK /\ TypeOK'
  BY <1>1 DEF CountIInv, AccessIInv, RingIInv, TypeInv
<1>3. CASE GtkThread \/ Terminated \/ UNCHANGED vars
  <2>1. /\ UNCHANGED ring /\ UNCHANGED <<given, proc, count, video, drift>>
        /\ (InFile' => InFile) /\ (ipc' = "encode" => ipc = "encode")
    BY <1>3 DEF GtkThread, StartCapture, StopCapture, JoinIO, Shutdown, Terminated, vars,
            InFile, Looping, io, enc
  <2>2. Contents' = Contents
    BY <2>1, RingUnchanged
  <2>3. OrderInv'
    BY <2>1, <2>2, OrderKept DEF Pending, count, video, drift
  <2> QED
    BY <1>1, <2>3 DEF OrderIInv
<1>4. CASE AudioResets
  BY <1>1, <1>2, <1>4, OrderResets DEF OrderIInv
<1> QED
  BY <1>1, <1>2, <1>3, <1>4, OrderVideo, OrderIO DEF OrderIInv, Next

LEMMA OrderInit == Init => OrderInv
<1> SUFFICES ASSUME Init PROVE OrderInv
  OBVIOUS
<1>1. 1 .. Len(<<>>) = {}
  OBVIOUS
<1>2. ~allocated /\ ipc = "none" /\ vpc = "top" /\ given = <<>>
  BY Zenon DEF Init
<1> QED
  BY <1>1, <1>2 DEF OrderInv, Sorted, SortedBy, RingOrder, FileOrder, ProcOrder, FirstFrame,
          Contents, AllRecent, Pending, InFile, Looping

(* For every size of the ring, every encoder delay, every format and every *)
(* drift of the audio, and whatever captures are started, stopped or fail  *)
(* in between, the frames given to the encoder of a file are in the order  *)
(* they were grabbed, and the time of none is earlier than that of one     *)
(* before it by more than av_drift was raised: although Vidstarttime,      *)
(* framecount and av_drift are reset by one thread and read by another     *)
(* without a lock.                                                         *)
THEOREM FileOrdered == Spec => []FileInOrder
<1>1. Init => OrderIInv
  BY OrderInit, CountInit DEF OrderIInv
<1>2. OrderIInv => FileInOrder
  BY DEF OrderIInv, OrderInv, Sorted, SortedBy, BelowBy, FileInOrder
<1> QED
  BY <1>1, <1>2, OrderStep, PTL DEF Spec
-----------------------------------------------------------------------------
(***************************************************************************)
(* The end of the loop.  Once an iteration has seen the stop, each further *)
(* one takes a frame of those left or has the encoder write one it holds   *)
(* back; Work bounds how many are needed, counting the frame an iteration  *)
(* of main_loop that has not seen the stop may still add.                  *)
(***************************************************************************)
Iterating == ipc \in {"process", "peek", "take", "encode"}
HeldBack == IF flush_delayed_frames THEN Len(given) - packets ELSE Delay
Work == Occupancy + InHand + LateFrame + HeldBack
Leftover == Occupancy + (Len(given) - packets)

(* No capture that is not stopped uses up an iteration, and no iteration   *)
(* that has seen the stop is without effect.                               *)
LagBounded == Len(given) - packets <= Delay
AllLoopsLeft == (ipc \in Looping /\ capVid) \/ (Iterating /\ iCap) => loops = MaxLoops
StopSeen == (ipc \in {"peek", "take", "encode"} /\ ~iCap) => ~pCap
LoopsSuffice == (ipc = "loop" \/ (Iterating /\ ~iCap)) => Work <= loops + Shortfall
DrainInv == LagBounded /\ AllLoopsLeft /\ StopSeen /\ LoopsSuffice

DrainIInv == CountIInv /\ DrainInv

DrainTyped ==
  /\ Occupancy \in Nat /\ InHand \in 0 .. 1 /\ LateFrame \in 0 .. 1
  /\ Len(given) \in Nat /\ packets \in Nat /\ Len(given) - packets \in 0 .. Delay
  /\ Delay \in Nat /\ HeldBack \in 0 .. Delay
  /\ Work \in Nat /\ Work = Occupancy + InHand + LateFrame + HeldBack
  /\ Leftover \in Nat /\ Leftover <= Work
  /\ loops \in 0 .. MaxLoops /\ MaxLoops \in Nat /\ Shortfall \in Nat
  /\ ipc # "encode" => Work <= MaxLoops + Shortfall
  /\ HeldBack \in Int /\ Work \in Int /\ Leftover \in Int
  /\ Shortfall \in Int /\ loops \in Int

LEMMA DrainTypes == TypeOK /\ LagBounded => DrainTyped
<1> SUFFICES ASSUME TypeOK, LagBounded PROVE DrainTyped
  OBVIOUS
<1>1. /\ Occupancy \in 0 .. Size /\ InHand \in 0 .. 1 /\ LateFrame \in 0 .. 1
      /\ Len(given) \in Nat /\ packets \in 0 .. Len(given) /\ loops \in 0 .. MaxLoops
      /\ Size \in Nat /\ Delay \in Nat /\ MaxLoops \in Nat
  BY CountTypes DEF CountTyped
<1>2. Len(given) - packets \in 0 .. Delay
  BY <1>1 DEF LagBounded
<1>3. HeldBack \in 0 .. Delay /\ Len(given) - packets <= HeldBack
  BY <1>1, <1>2 DEF HeldBack
<1>4. Shortfall \in Nat /\ Size + Delay + 1 <= MaxLoops + Shortfall
  BY <1>1 DEF Shortfall
<1>5. ipc # "encode" => InHand = 0
  BY DEF InHand
<1>6. Work \in Nat /\ Leftover \in Nat /\ Leftover <= Work
  BY <1>1, <1>2, <1>3 DEF Work, Leftover
<1>7. ipc # "encode" => Work <= MaxLoops + Shortfall
  BY <1>1, <1>3, <1>4, <1>5 DEF Work
<1> QED
  BY <1>1, <1>2, <1>3, <1>4, <1>6, <1>7 DEF DrainTyped, Work

LEMMA DrainTypesAfter == TypeOK' /\ LagBounded' => DrainTyped'
BY DrainTypes, PTL

(* With all iterations left at the top of the loop, they suffice.          *)
LEMMA FreshLoops ==
  ASSUME TypeOK', LagBounded', ipc' = "loop", loops' = MaxLoops
  PROVE  LoopsSuffice'
<1>1. DrainTyped'
  BY DrainTypesAfter
<1>2. Work' <= MaxLoops + Shortfall
  BY <1>1 DEF DrainTyped
<1> QED
  BY <1>2 DEF LoopsSuffice, Iterating

(* A step without an iteration's end: the work must not grow.              *)
LEMMA LoopsKept ==
  ASSUME TypeOK, TypeOK', LagBounded, LagBounded', LoopsSuffice, loops' = loops,
         ipc = "loop" \/ (Iterating /\ ~iCap),
         /\ Occupancy' + InHand' + LateFrame' <= Occupancy + InHand + LateFrame
         /\ HeldBack' = HeldBack
  PROVE  LoopsSuffice'
<1>1. DrainTyped /\ DrainTyped'
  BY DrainTypes, DrainTypesAfter
<1>2. PICK w \in Int, v \in Int, s \in Int, l \in Int :
           w = Work /\ v = Work' /\ s = Shortfall /\ l = loops
  <2>1. Work \in Int /\ Work' \in Int /\ Shortfall \in Int /\ loops \in Int
    BY <1>1 DEF DrainTyped
  <2> QED
    BY <2>1
<1>3. w <= l + s
  BY <1>2 DEF LoopsSuffice
<1>4. v <= w
  <2>1. PICK a \in Int, b \in Int, c \in Int : a = Occupancy /\ b = InHand /\ c = LateFrame
    BY <1>1 DEF DrainTyped
  <2>2. PICK d \in Int, e \in Int, f \in Int : d = Occupancy' /\ e = InHand' /\ f = LateFrame'
    BY <1>1 DEF DrainTyped
  <2>3. PICK h \in Int : h = HeldBack /\ h = HeldBack'
    BY <1>1 DEF DrainTyped
  <2>4. w = a + b + c + h
    BY <1>1, <1>2, <2>1, <2>3 DEF DrainTyped
  <2>5. v = d + e + f + h
    BY <1>1, <1>2, <2>2, <2>3 DEF DrainTyped
  <2>6. d + e + f <= a + b + c
    BY <2>1, <2>2
  <2> QED
    BY <2>4, <2>5, <2>6
<1>5. v <= l + s
  BY <1>3, <1>4
<1>6. Work' <= loops' + Shortfall
  BY <1>2, <1>5
<1> QED
  BY <1>6 DEF LoopsSuffice

LEMMA DrainVideo ==
  ASSUME CountIInv, CountIInv', DrainInv, VideoThread
  PROVE  DrainInv'
<1>1. TypeOK /\ TypeOK' /\ CaptureFlag /\ AccessIInv
  BY DEF CountIInv, AccessIInv, RingIInv, TypeInv, AccessInv
<1>2. /\ UNCHANGED <<ipc, iCap, pCap, loops, given, packets, flush_delayed_frames>>
      /\ (capVid' => capVid) /\ (capVid \/ (Late' => Late))
  BY <1>1, VideoStep
<1>3. LagBounded' /\ AllLoopsLeft' /\ StopSeen'
  BY <1>2 DEF DrainInv, LagBounded, AllLoopsLeft, StopSeen, Iterating
<1>4. ASSUME ipc = "loop" \/ (Iterating /\ ~iCap)
      PROVE  LoopsSuffice'
  <2>1. CASE capVid
    <3>1. ipc' = "loop" /\ loops' = MaxLoops
      BY <1>1, <1>2, <1>4, <2>1 DEF CaptureFlag, Iterating, DrainInv, AllLoopsLeft, Looping
    <3> QED
      BY <1>1, <1>3, <3>1, FreshLoops
  <2>2. CASE ~capVid
    <3>1. HeldBack' = HeldBack /\ InHand' = InHand /\ LateFrame' \in 0 .. 1
      BY <1>2 DEF HeldBack, InHand, LateFrame
    <3>2. /\ Occupancy \in Nat /\ InHand \in 0 .. 1 /\ LateFrame \in 0 .. 1
      BY <1>1, CountTypes DEF CountTyped
    <3>3. Occupancy' + InHand' + LateFrame' <= Occupancy + InHand + LateFrame
      <4>1. CASE Store \/ RetryStores
        <5>1. Occupancy' = Occupancy + 1 /\ LateFrame = 1 /\ LateFrame' = 0
          BY <1>1, <4>1, StoreStep DEF LateFrame
        <5> QED
          BY <3>1, <3>2, <5>1
      <4>2. CASE ~Store /\ ~RetryStores
        <5>1. Occupancy' = Occupancy
          BY <1>1, <4>2, VideoStep, RingUnchanged
        <5>2. CASE LateFrame' = LateFrame
          <6>1. Occupancy' + InHand' + LateFrame' = Occupancy + InHand + LateFrame
            BY <3>1, <5>1, <5>2
          <6> QED
            BY <3>2, <6>1
        <5>3. CASE LateFrame' = 0 /\ LateFrame = 1
          BY <3>1, <3>2, <5>1, <5>3
        <5>4. LateFrame' = LateFrame \/ (LateFrame' = 0 /\ LateFrame = 1)
          BY <1>2, <2>2 DEF LateFrame
        <5> QED
          BY <5>2, <5>3, <5>4
      <4> QED
        BY <4>1, <4>2
    <3> QED
      BY <1>1, <1>2, <1>3, <1>4, <3>1, <3>3, LoopsKept DEF DrainInv
  <2> QED
    BY <2>1, <2>2
<1>5. LoopsSuffice'
  BY <1>2, <1>4 DEF LoopsSuffice, Iterating
<1> QED
  BY <1>3, <1>5 DEF DrainInv

(* An iteration that ends: it has taken one off the work, or was not       *)
(* counted.  If it is the last, what it leaves is not more than the        *)
(* iterations fall short by.                                               *)
LEMMA IterationEnds ==
  ASSUME TypeOK, TypeOK', LagBounded, LagBounded', AllLoopsLeft, LoopsSuffice,
         Iterating, NEW finished \in BOOLEAN, EndLoop(finished), ~finished,
         iCap \/ Work' <= Work - 1
  PROVE  LoopsSuffice' /\ (ipc' = "close" => Leftover' <= Shortfall)
<1>1. DrainTyped /\ DrainTyped'
  BY DrainTypes, DrainTypesAfter
<1>2. CASE iCap
  <2>1. loops' = MaxLoops /\ ipc' = "loop"
    BY <1>2 DEF EndLoop, AllLoopsLeft
  <2> QED
    BY <2>1, FreshLoops
<1>3. CASE ~iCap
  <2>1. PICK w \in Int, v \in Int, s \in Int, l \in Int, f \in Int :
             w = Work /\ v = Work' /\ s = Shortfall /\ l = loops /\ f = Leftover'
    <3>1. /\ Work \in Int /\ Work' \in Int /\ Shortfall \in Int /\ loops \in Int
          /\ Leftover' \in Int
      BY <1>1 DEF DrainTyped
    <3> QED
      BY <3>1
  <2>2. w <= l + s
    BY <1>3, <2>1 DEF LoopsSuffice
  <2>3. v <= w - 1
    BY <1>3, <2>1
  <2>4. f <= v
    BY <1>1, <2>1 DEF DrainTyped
  <2>5. loops' = l - 1 /\ (ipc' = "close" <=> l - 1 < 1) /\ ipc' \in {"loop", "close"}
        /\ l - 1 >= 0
    BY <1>1, <1>3, <2>1 DEF EndLoop, DrainTyped
  <2>6. v <= (l - 1) + s
    BY <2>2, <2>3
  <2>7. LoopsSuffice'
    BY <2>1, <2>5, <2>6 DEF LoopsSuffice, Iterating
  <2>8. ipc' = "close" => f <= s
    BY <2>4, <2>5, <2>6
  <2> QED
    BY <2>1, <2>7, <2>8
<1> QED
  BY <1>2, <1>3

LEMMA DrainEncode ==
  ASSUME CountIInv, CountIInv', DrainInv, EncodeFrame
  PROVE  DrainInv' /\ (ipc' = "close" => Leftover' <= Shortfall)
<1>1. TypeOK /\ TypeOK' /\ CaptureFlag
  BY DEF CountIInv, AccessIInv, RingIInv, TypeInv, AccessInv
<1>2. /\ UNCHANGED ring /\ UNCHANGED <<vpc, vCap, capVid, iCap, pCap, flush_delayed_frames>>
      /\ ipc = "encode" /\ ipc' \in {"loop", "close"} /\ EndLoop(FALSE)
      /\ loops' = IF iCap THEN loops ELSE loops - 1
  BY DEF EncodeFrame, EndLoop, flags, video
<1>3. CountTyped /\ CountTyped'
  BY <1>1, CountTypes, CountTypesAfter
<1>4. PICK c \in Nat : WriteVideoFrame(c)
  <2>1. PICK k \in AudioDrift : Correct(k) /\ WriteVideoFrame(Times(k))
    BY DEF EncodeFrame
  <2> QED
    BY <2>1, TimesNat DEF AudioDrift
<1>5. LagBounded' /\ (flush_delayed_frames => HeldBack' <= HeldBack)
  <2>1. CASE flush_delayed_frames
    <3>1. given' = given /\ packets' = Flushed(c)
      BY <1>4, <2>1 DEF WriteVideoFrame
    <3>2. PICK l \in Nat, h \in Nat, i \in Nat :
               l = Len(given) /\ h = packets /\ i = packets'
      <4>1. Len(given) \in Nat /\ packets \in Nat /\ packets' \in Nat
        BY <1>3, <3>1 DEF Flushed, CountTyped
      <4> QED
        BY <4>1
    <3>3. h <= i /\ l - h <= Delay /\ Delay \in Nat
      BY <1>3, <3>1, <3>2 DEF Flushed, CountTyped, DrainInv, LagBounded
    <3>4. l - i <= Delay /\ l - i <= l - h
      BY <3>3
    <3>5. HeldBack = l - h /\ HeldBack' = l - i
      BY <1>2, <2>1, <3>1, <3>2 DEF HeldBack
    <3> QED
      BY <3>1, <3>2, <3>4, <3>5 DEF LagBounded
  <2>2. CASE ~flush_delayed_frames
    <3>1. packets' = IF Len(given') - Delay > packets THEN Len(given') - Delay ELSE packets
      BY <1>4, <2>2 DEF WriteVideoFrame
    <3> QED
      BY <1>3, <2>2, <3>1 DEF LagBounded, CountTyped
  <2> QED
    BY <2>1, <2>2
<1>6. Work' <= Work - 1
  <2>1. DrainTyped /\ DrainTyped'
    BY <1>1, <1>5, DrainTypes, DrainTypesAfter DEF DrainInv
  <2>2. Occupancy' = Occupancy /\ InHand = 1 /\ InHand' = 0 /\ LateFrame' = LateFrame
    BY <1>2, RingUnchanged DEF InHand, LateFrame, Late
  <2>3. PICK h \in Int, g \in Int : h = HeldBack /\ g = HeldBack'
    <3>1. HeldBack \in Int /\ HeldBack' \in Int
      BY <2>1 DEF DrainTyped
    <3> QED
      BY <3>1
  <2>4. g <= h
    <3>1. CASE flush_delayed_frames
      BY <1>5, <2>3, <3>1
    <3>2. CASE ~flush_delayed_frames
      BY <1>2, <2>1, <2>3, <3>2 DEF HeldBack, DrainTyped
    <3> QED
      BY <3>1, <3>2
  <2>5. PICK a \in Int, b \in Int : a = Occupancy /\ b = LateFrame
    BY <2>1 DEF DrainTyped
  <2>6. Work = a + 1 + b + h
    BY <2>1, <2>2, <2>3, <2>5 DEF DrainTyped
  <2>7. Work' = a + 0 + b + g
    BY <2>1, <2>2, <2>3, <2>5 DEF DrainTyped
  <2>8. PICK w \in Int, v \in Int : w = Work /\ v = Work'
    BY <2>1 DEF DrainTyped
  <2>9. v <= w - 1
    BY <2>4, <2>6, <2>7, <2>8
  <2> QED
    BY <2>8, <2>9
<1>7. LoopsSuffice' /\ (ipc' = "close" => Leftover' <= Shortfall)
  BY <1>1, <1>2, <1>5, <1>6, IterationEnds DEF DrainInv, Iterating
<1>8. AllLoopsLeft' /\ StopSeen'
  BY <1>1, <1>2 DEF DrainInv, AllLoopsLeft, StopSeen, Looping, Iterating, CaptureFlag
<1> QED
  BY <1>5, <1>7, <1>8 DEF DrainInv

LEMMA DrainFlush ==
  ASSUME CountIInv, CountIInv', DrainInv, FlushEncoder
  PROVE  DrainInv' /\ (ipc' = "close" => Leftover' <= Shortfall)
<1>1. TypeOK /\ TypeOK' /\ CaptureFlag /\ RingInv /\ RingThere
  BY DEF CountIInv, AccessIInv, RingIInv, TypeInv, AccessInv
<1>2. /\ UNCHANGED ring /\ UNCHANGED <<vpc, vCap, capVid, iCap, pCap, given>>
      /\ ipc = "peek" /\ ~FrameWaiting /\ ~pCap /\ packets' = Flushed(1) /\ EndLoop(FlushDone)
      /\ loops' = IF iCap THEN loops ELSE loops - 1
      /\ ipc' = IF FlushDone \/ (~iCap /\ loops' < 1) THEN "close" ELSE "loop"
  BY DEF FlushEncoder, EndLoop, flags, video
<1>3. flush_delayed_frames'
  BY Zenon DEF FlushEncoder
<1>4. Occupancy = 0 /\ Occupancy' = 0
  <2>1. allocated
    BY <1>1, <1>2 DEF RingThere, InFile, Looping
  <2> QED
    BY <1>1, <1>2, <2>1, EmptyIsFree, RingUnchanged
<1>5. CountTyped /\ CountTyped'
  BY <1>1, CountTypes, CountTypesAfter
<1>6. LagBounded' /\ ~capVid
  <2>1. ~capVid
    BY <1>1, <1>2 DEF CaptureFlag
  <2>2. packets \in Nat /\ Len(given) \in Nat /\ Delay \in Nat /\ Len(given) - packets <= Delay
    BY <1>5 DEF CountTyped, DrainInv, LagBounded
  <2>3. packets' \in Nat /\ packets' >= packets
    BY <1>2, <1>5, <2>2 DEF Flushed, CountTyped
  <2> QED
    BY <1>2, <2>1, <2>2, <2>3 DEF LagBounded
<1>7. AllLoopsLeft' /\ StopSeen'
  BY <1>2, <1>6 DEF AllLoopsLeft, StopSeen, Iterating
<1>8. CASE FlushDone
  <2>1. packets' = Len(given') /\ ipc' = "close"
    BY <1>2, <1>5, <1>8 DEF FlushDone, Flushed, CountTyped
  <2>2. Leftover' = 0
    BY <1>4, <1>5, <2>1 DEF Leftover, CountTyped
  <2>3. Shortfall \in Nat
    BY <1>5 DEF Shortfall, CountTyped
  <2>4. LoopsSuffice'
    BY <2>1 DEF LoopsSuffice, Iterating
  <2> QED
    BY <1>6, <1>7, <2>2, <2>3, <2>4 DEF DrainInv
<1>9. CASE ~FlushDone
  <2>1. DrainTyped /\ DrainTyped'
    BY <1>1, <1>6, DrainTypes, DrainTypesAfter DEF DrainInv
  <2>2. InHand = 0 /\ InHand' = 0 /\ LateFrame' = LateFrame
    BY <1>2 DEF InHand, LateFrame, Late
  <2>3. packets' = packets + 1
    BY <1>2, <1>5, <1>9 DEF FlushDone, Flushed, CountTyped
  <2>4. PICK h \in Int, g \in Int : h = HeldBack /\ g = HeldBack'
    <3>1. HeldBack \in Int /\ HeldBack' \in Int
      BY <2>1 DEF DrainTyped
    <3> QED
      BY <3>1
  <2>5. g = (Len(given) - packets) - 1
    BY <1>2, <1>3, <1>5, <2>3, <2>4 DEF HeldBack, CountTyped
  <2>6. Len(given) - packets <= h
    BY <1>5, <2>1, <2>4 DEF HeldBack, DrainTyped, CountTyped
  <2>7. g <= h - 1
    BY <1>5, <2>5, <2>6 DEF CountTyped
  <2>8. PICK b \in Int : b = LateFrame
    BY <2>1 DEF DrainTyped
  <2>9. PICK w \in Int, v \in Int : w = Work /\ v = Work'
    BY <2>1 DEF DrainTyped
  <2>10. w = 0 + 0 + b + h
    BY <1>4, <2>1, <2>2, <2>4, <2>8, <2>9 DEF DrainTyped
  <2>11. v = 0 + 0 + b + g
    BY <1>4, <2>1, <2>2, <2>4, <2>8, <2>9 DEF DrainTyped
  <2>12. v <= w - 1
    BY <2>7, <2>10, <2>11
  <2>13. Work' <= Work - 1
    BY <2>9, <2>12
  <2>14. EndLoop(FALSE)
    BY <1>2, <1>9 DEF EndLoop
  <2>15. LoopsSuffice' /\ (ipc' = "close" => Leftover' <= Shortfall)
    BY <1>1, <1>2, <1>6, <2>13, <2>14, IterationEnds DEF DrainInv, Iterating
  <2> QED
    BY <1>6, <1>7, <2>15 DEF DrainInv
<1> QED
  BY <1>8, <1>9

LEMMA DrainIO ==
  ASSUME CountIInv, CountIInv', DrainInv, IOThread
  PROVE  /\ DrainInv'
         /\ ipc # "close" /\ ipc' = "close" => Leftover' <= Shortfall
<1>1. TypeOK /\ TypeOK' /\ CaptureFlag /\ RingThere /\ RingInv /\ TakesUsed
  BY DEF CountIInv, AccessIInv, RingIInv, TypeInv, AccessInv
<1>2. CASE AllocRing \/ OpenFails \/ CloseStops \/ PollAgain \/ PollEnds \/ FreeRing \/ CloseFile
  <2>1. /\ ipc' \notin Looping /\ ~(ipc # "close" /\ ipc' = "close")
        /\ (ipc = "finish" /\ given' = <<>> /\ packets' = 0) \/ UNCHANGED <<given, packets>>
    <3>1. CASE CloseFile
      BY <3>1, Zenon DEF CloseFile, Looping
    <3>2. CASE ~CloseFile
      BY <1>2, <3>2 DEF AllocRing, OpenFails, CloseStops, PollAgain, PollEnds, FreeRing, enc, Looping
    <3> QED
      BY <3>1, <3>2
  <2>2. LagBounded'
    <3>1. CASE UNCHANGED <<given, packets>>
      BY <3>1 DEF DrainInv, LagBounded
    <3>2. CASE given' = <<>> /\ packets' = 0
      BY <3>2, EncoderAssumption DEF LagBounded
    <3> QED
      BY <2>1, <3>1, <3>2
  <2>3. AllLoopsLeft' /\ StopSeen' /\ LoopsSuffice'
    BY <2>1 DEF AllLoopsLeft, StopSeen, LoopsSuffice, Looping, Iterating
  <2> QED
    BY <2>1, <2>2, <2>3 DEF DrainInv
<1>3. CASE OpenFile
  <2>1. ipc = "open" /\ ipc' = "loop" /\ UNCHANGED <<given, packets, loops>>
    BY <1>3, Zenon DEF OpenFile, enc
  <2>2. loops' = MaxLoops
    BY <2>1 DEF CountIInv, AccessIInv, RingIInv, TypeInv, LoopsLeft
  <2>3. LagBounded' /\ AllLoopsLeft' /\ StopSeen'
    BY <2>1, <2>2 DEF DrainInv, LagBounded, AllLoopsLeft, StopSeen, Iterating
  <2>4. LoopsSuffice'
    BY <1>1, <2>1, <2>2, <2>3, FreshLoops
  <2> QED
    BY <2>1, <2>3, <2>4 DEF DrainInv
<1>4. CASE IOLoopTop \/ ProcessVideo \/ PeekUsed
  <2>1. /\ UNCHANGED ring
        /\ UNCHANGED <<given, packets, flush_delayed_frames, loops, vpc, vCap, capVid>>
        /\ ipc \in {"loop", "process", "peek"} /\ ipc' \in {"process", "peek", "take"}
    BY <1>4 DEF IOLoopTop, ProcessVideo, PeekUsed, flags, video, enc
  <2>2. /\ Occupancy' = Occupancy /\ InHand' = InHand /\ LateFrame' = LateFrame
        /\ HeldBack' = HeldBack
    BY <2>1, RingUnchanged DEF InHand, LateFrame, Late, HeldBack
  <2>3. LagBounded' /\ AllLoopsLeft' /\ StopSeen'
    BY <1>1, <1>4, <2>1 DEF IOLoopTop, ProcessVideo, PeekUsed, flags, CaptureFlag, DrainInv,
       LagBounded, AllLoopsLeft, StopSeen, Looping, Iterating
  <2>4. ASSUME ~iCap' PROVE ipc = "loop" \/ (Iterating /\ ~iCap)
    BY <1>4, <2>4 DEF IOLoopTop, ProcessVideo, PeekUsed, Iterating
  <2>5. Occupancy' + InHand' + LateFrame' <= Occupancy + InHand + LateFrame
    BY <1>1, <2>2, CountTypes DEF CountTyped
  <2>6. ~iCap' => LoopsSuffice'
    BY <1>1, <2>1, <2>2, <2>3, <2>4, <2>5, LoopsKept DEF DrainInv
  <2>7. iCap' => LoopsSuffice'
    BY <2>1 DEF LoopsSuffice
  <2> QED
    BY <2>1, <2>3, <2>6, <2>7 DEF DrainInv
<1>5. CASE TakeFrame
  <2>1. Occupancy' = Occupancy - 1 /\ Occupancy >= 1
    BY <1>1, <1>5, TakeShifts DEF TakeFrame, RingThere, InFile, Looping
  <2>2. /\ UNCHANGED <<given, packets, flush_delayed_frames, loops, vCap, capVid, iCap, pCap, vpc>>
        /\ ipc = "take" /\ ipc' = "encode"
    BY <1>5 DEF TakeFrame, flags
  <2>3. InHand = 0 /\ InHand' = 1 /\ LateFrame' = LateFrame /\ HeldBack' = HeldBack
    BY <2>2 DEF InHand, LateFrame, Late, HeldBack
  <2>4. LagBounded' /\ AllLoopsLeft' /\ StopSeen'
    BY <2>2 DEF DrainInv, LagBounded, AllLoopsLeft, StopSeen, Looping, Iterating
  <2>5. Occupancy' + InHand' + LateFrame' <= Occupancy + InHand + LateFrame
    BY <1>1, <2>1, <2>3, CountTypes DEF CountTyped
  <2>6. ~iCap => LoopsSuffice'
    BY <1>1, <2>2, <2>3, <2>4, <2>5, LoopsKept DEF DrainInv, Iterating
  <2>7. iCap => LoopsSuffice'
    BY <2>2 DEF LoopsSuffice
  <2> QED
    BY <2>2, <2>4, <2>6, <2>7 DEF DrainInv
<1>6. CASE Underrun
  <2>1. /\ UNCHANGED <<given, packets, capVid, iCap, pCap>>
        /\ ipc = "peek" /\ iCap /\ loops' = loops /\ ipc' = "loop"
    BY <1>6 DEF Underrun, EndLoop, flags, enc, DrainInv, StopSeen
  <2>2. LagBounded' /\ AllLoopsLeft' /\ StopSeen' /\ loops' = MaxLoops
    BY <2>1 DEF DrainInv, LagBounded, AllLoopsLeft, StopSeen, Iterating
  <2>3. LoopsSuffice'
    BY <1>1, <2>1, <2>2, FreshLoops
  <2> QED
    BY <2>1, <2>2, <2>3 DEF DrainInv
<1> QED
  BY <1>2, <1>3, <1>4, <1>5, <1>6, DrainEncode, DrainFlush DEF IOThread

LEMMA DrainStep ==
  DrainIInv /\ [Next]_vars
    => DrainIInv' /\ (ipc # "close" /\ ipc' = "close" => Leftover' <= Shortfall)
<1> SUFFICES ASSUME CountIInv, DrainInv, [Next]_vars
             PROVE  DrainIInv' /\ (ipc # "close" /\ ipc' = "close" => Leftover' <= Shortfall)
  BY DEF DrainIInv
<1>1. CountIInv' /\ AccessIInv
  BY CountStep DEF CountIInv
<1>2. CASE VideoThread
  <2>1. ipc' = ipc
    BY <1>1, <1>2, VideoStep
  <2> QED
    BY <1>1, <1>2, <2>1, DrainVideo DEF DrainIInv
<1>3. CASE IOThread
  BY <1>1, <1>3, DrainIO DEF DrainIInv
<1>4. CASE ~VideoThread /\ ~IOThread
  <2>1. /\ UNCHANGED ring /\ UNCHANGED <<vpc, vCap>>
        /\ UNCHANGED <<iCap, pCap, loops, given, packets, flush_delayed_frames>>
        /\ capVid' => capVid
        /\ ipc' = ipc \/ (ipc = "none" /\ ipc' = "init")
    BY <1>4, OtherStep DEF video
  <2>2. Occupancy' = Occupancy /\ InHand' = InHand /\ LateFrame' = LateFrame /\ HeldBack' = HeldBack
    BY <2>1, RingUnchanged DEF InHand, LateFrame, Late, HeldBack
  <2>3. Work' = Work
    BY <2>2 DEF Work
  <2>4. DrainInv'
    BY <2>1, <2>3 DEF DrainInv, LagBounded, AllLoopsLeft, StopSeen, LoopsSuffice, Looping, Iterating
  <2> QED
    BY <1>1, <2>1, <2>4 DEF DrainIInv
<1> QED
  BY <1>2, <1>3, <1>4

(* IO_loop ends with an empty ring and an empty encoder whenever the       *)
(* iterations it is allowed after the stop are at least Size + Delay + 1,  *)
(* for every ring and every encoder, the frame of a main_loop that was     *)
(* late in seeing the stop included; it leaves one frame at most for each  *)
(* iteration it is short of that.                                          *)
THEOREM LoopDrains == Spec => FinishedMeansProcessed
<1>1. Init => DrainIInv
  <2> SUFFICES ASSUME Init PROVE DrainIInv
    OBVIOUS
  <2>1. ipc = "none" /\ given = <<>> /\ packets = 0
    BY Zenon DEF Init
  <2> QED
    BY <2>1, CountInit, EncoderAssumption
       DEF DrainIInv, DrainInv, LagBounded, AllLoopsLeft, StopSeen, LoopsSuffice, Looping, Iterating
<1>2. DrainIInv /\ [Next]_vars => DrainIInv'
  BY DrainStep
<1>3. DrainIInv /\ [Next]_vars
        => [ipc # "close" /\ ipc' = "close"
              => Occupancy' + (Len(given') - packets') <= Shortfall]_vars
  BY DrainStep DEF Leftover
<1> QED
  BY <1>1, <1>2, <1>3, PTL DEF Spec, FinishedMeansProcessed
=============================================================================
