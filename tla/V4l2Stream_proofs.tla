------------------------- MODULE V4l2Stream_proofs -------------------------
(***************************************************************************)
(* Proofs about V4l2Stream, for every number of buffers, all sizes and     *)
(* rates, every set of calls that may fail and every bound.                *)
(***************************************************************************)
EXTENDS V4l2Stream, SequenceTheorems, FiniteSetTheorems, TLAPS

-----------------------------------------------------------------------------
(***************************************************************************)
(* Types.  A frame is dequeued only after select has found one filled.     *)
(***************************************************************************)
Marks == {"none", "heap", "mapped", "stale", "failed"}

SwitchTypes ==
  /\ on \in BOOLEAN /\ requested \in BOOLEAN /\ isstreaming \in BOOLEAN
  /\ setFPS \in BOOLEAN /\ setJPEGCOMP \in BOOLEAN /\ change_res \in BOOLEAN
  /\ signalquit \in BOOLEAN /\ quit \in BOOLEAN /\ hasty \in BOOLEAN

ValueTypes ==
  /\ dsize \in Sizes /\ drate \in Rates /\ dquality \in Rates
  /\ size \in Sizes /\ fps \in Rates /\ quality \in Rates
  /\ lsize \in Sizes /\ framebuffer \in Sizes \cup {0}

StepTypes ==
  /\ cap_meth \in {"mmap", "read"} /\ timestamp \in {"none", "old", "new"}
  /\ change \in {"none", "rate", "quality"} /\ vpc \in Steps /\ gpc \in {"idle", "chosen"}
  /\ failed \subseteq CanFail

CountTypes == requests \in 0 .. MaxRequests

MemTypes == mem \in [Buffers -> Marks]

QueueTypes ==
  /\ queue \in Seq(Buffers) /\ done \in Seq(Buffers) /\ index \in Buffers
  /\ vpc = "dequeue" /\ cap_meth = "mmap" => done # <<>>

Typed == SwitchTypes /\ ValueTypes /\ StepTypes /\ CountTypes /\ MemTypes /\ QueueTypes

LEMMA TypedIs == Typed => TypeOK
  BY DEF Typed, SwitchTypes, ValueTypes, StepTypes, CountTypes, MemTypes, QueueTypes, TypeOK, Marks

(* The numbers of the buffers, in the order in which they are queued.      *)
FirstBuffers(n) == [i \in 1 .. n |-> i - 1]

LEMMA BuffersInOrder ==
  ASSUME NEW n \in Nat, n <= NB_BUFFER
  PROVE  /\ FirstBuffers(n) \in Seq(Buffers) /\ Len(FirstBuffers(n)) = n
         /\ \A i \in 1 .. n : FirstBuffers(n)[i] = i - 1
<1>1. \A i \in 1 .. n : i - 1 \in Buffers
  BY NbAssumption DEF Buffers
<1>2. FirstBuffers(n) \in [1 .. n -> Buffers]
  BY <1>1 DEF FirstBuffers
<1>3. FirstBuffers(n) \in Seq(Buffers)
  BY <1>2
<1> QED
  BY <1>2, <1>3, LenProperties DEF FirstBuffers

LEMMA BufferNumbers ==
  /\ 0 \in Buffers /\ NB_BUFFER - 1 \in Buffers
  /\ \A n \in Buffers : n \in Nat /\ n <= NB_BUFFER /\ 0 \in Buffers
  BY NbAssumption DEF Buffers


LEMMA TypedInit == Init => Typed
<1> SUFFICES ASSUME Init PROVE Typed
  OBVIOUS
<1>1. SwitchTypes
  <2>1. on \in BOOLEAN /\ isstreaming \in BOOLEAN /\ setFPS \in BOOLEAN /\ setJPEGCOMP \in BOOLEAN
        /\ change_res \in BOOLEAN /\ signalquit \in BOOLEAN /\ quit \in BOOLEAN
    BY Zenon DEF Init
  <2>2. requested \in BOOLEAN
    BY Zenon DEF Init
  <2>3. hasty \in BOOLEAN
    BY HasteAssumption DEF Init
  <2> QED
    BY <2>1, <2>2, <2>3 DEF SwitchTypes
<1>2. ValueTypes
  BY SizesAssumption, RatesAssumption DEF Init, ValueTypes
<1>3. StepTypes
  BY MethodsAssumption DEF Init, StepTypes, Steps
<1>4. CountTypes
  BY BoundsAssumption DEF Init, CountTypes
<1>5. MemTypes
  BY DEF Init, MemTypes, Marks
<1>6. QueueTypes
  <2>1. [i \in 1 .. NB_BUFFER |-> i - 1] \in Seq(Buffers)
    BY BuffersInOrder, NbAssumption DEF FirstBuffers
  <2>2. <<>> \in Seq(Buffers)
    OBVIOUS
  <2>3. queue \in Seq(Buffers)
    BY <2>1, <2>2 DEF Init
  <2> QED
    BY <2>2, <2>3, BufferNumbers DEF Init, QueueTypes
<1> QED
  BY <1>1, <1>2, <1>3, <1>4, <1>5, <1>6 DEF Typed

LEMMA SwitchTyped ==
  ASSUME SwitchTypes, [Next]_vars
  PROVE  SwitchTypes'
<1> USE DEF At, Goto, Fails, Succeeds, vars, driver, values, device, flags, wanted, frame, local, gtk
<1>1. CASE DriverFills
  BY <1>1 DEF DriverFills, SwitchTypes
<1>2. CASE LoopTop
  BY <1>2 DEF LoopTop, SwitchTypes
<1>3. CASE GrabStarts
  BY <1>3 DEF GrabStarts, StreamOn, StreamOnFails, SwitchTypes
<1>4. CASE SelectTimeout
  BY <1>4 DEF SelectTimeout, SwitchTypes
<1>5. CASE SelectReady
  BY <1>5 DEF SelectReady, SettingAsked, SwitchTypes
<1>6. CASE Dequeue
  BY <1>6 DEF Dequeue, NextTurn, SwitchTypes
<1>7. CASE Requeue
  BY <1>7 DEF Requeue, GivenBack, NextTurn, SwitchTypes
<1>8. CASE Decode
  BY <1>8 DEF Decode, NextTurn, SwitchTypes
<1>9. CASE UseFrame
  BY <1>9 DEF UseFrame, NextTurn, SwitchTypes
<1>10. CASE SettingStops
  BY <1>10 DEF SettingStops, StreamOff, SwitchTypes
<1>11. CASE SettingApplies
  BY <1>11 DEF SettingApplies, SwitchTypes
<1>12. CASE SettingReadBack
  BY <1>12 DEF SettingReadBack, RateFlagAfter, SwitchTypes
<1>13. CASE SettingQueries
  BY <1>13 DEF SettingQueries, QueryAndMap, QueryFails, SwitchTypes
<1>14. CASE SettingQueues
  BY <1>14 DEF SettingQueues, QueueAll, IndexAfterQueue, QueueFails, SwitchTypes
<1>15. CASE SettingStarts
  BY <1>15 DEF SettingStarts, StreamOn, StreamOnFails, QualityFlagAfter, SwitchTypes
<1>16. CASE RestartCloses
  <2>1. requested' = StillRequested(on', mem')
    BY <1>16 DEF RestartCloses
  <2>2. requested' \in BOOLEAN
    BY <2>1, Zenon DEF StillRequested
  <2>3. UNCHANGED <<setFPS, setJPEGCOMP, change_res, signalquit, quit, hasty>> /\ on' \in BOOLEAN
        /\ isstreaming' \in BOOLEAN
    BY <1>16 DEF RestartCloses, StreamOff, SwitchTypes
  <2> QED
    BY <2>2, <2>3 DEF SwitchTypes
<1>17. CASE RestartFormats
  BY <1>17 DEF RestartFormats, RestartFails, SwitchTypes
<1>18. CASE RestartApplies
  BY <1>18 DEF RestartApplies, SwitchTypes
<1>19. CASE RestartRequests
  BY <1>19 DEF RestartRequests, RestartFails, SwitchTypes
<1>20. CASE RestartQueries
  <2>1. requested' = StillRequested(on, mem') \/ requested' = requested
    BY <1>20 DEF RestartQueries
  <2>2. requested' \in BOOLEAN
    <3>1. CASE requested' = StillRequested(on, mem')
      BY <3>1, Zenon DEF StillRequested
    <3>2. CASE requested' = requested
      BY <3>2 DEF SwitchTypes
    <3> QED
      BY <2>1, <3>1, <3>2
  <2>3. UNCHANGED <<on, isstreaming, setFPS, setJPEGCOMP, change_res, quit, hasty>>
        /\ signalquit' \in BOOLEAN
    BY <1>20 DEF RestartQueries, RestartFails, SwitchTypes
  <2> QED
    BY <2>2, <2>3 DEF SwitchTypes
<1>21. CASE RestartQueues
  BY <1>21 DEF RestartQueues, QueueAll, IndexAfterQueue, RestartFails, SwitchTypes
<1>22. CASE RestartStarts
  BY <1>22 DEF RestartStarts, StreamOn, StreamOnFails, SwitchTypes
<1>23. CASE RestartEnds
  BY <1>23 DEF RestartEnds, NewSize, NextTurn, SwitchTypes
<1>24. CASE ChooseRate
  BY <1>24 DEF ChooseRate, MayChoose, SwitchTypes
<1>25. CASE ChooseQuality
  BY <1>25 DEF ChooseQuality, MayChoose, SwitchTypes
<1>26. CASE ChooseSize
  BY <1>26 DEF ChooseSize, MayChoose, SwitchTypes
<1>27. CASE RaiseChangeRes
  BY <1>27 DEF RaiseChangeRes, SwitchTypes
<1>28. CASE Quit
  BY <1>28 DEF Quit, SwitchTypes
<1>29. CASE CloseDevice
  BY <1>29 DEF CloseDevice, StreamOff, SwitchTypes
<1>30. CASE Terminated
  BY <1>30 DEF Terminated, SwitchTypes
<1>31. CASE UNCHANGED vars
  BY <1>31 DEF SwitchTypes
<1>32. CASE CrashesOnFree("r close")
  BY <1>32 DEF CrashesOnFree, SwitchTypes
<1>33. CASE signalquit /\ CrashesOnFree("gone")
  BY <1>33 DEF CrashesOnFree, SwitchTypes
<1> QED
  BY <1>1, <1>2, <1>3, <1>4, <1>5, <1>6, <1>7, <1>8, <1>9, <1>10, <1>11, <1>12,
     <1>13, <1>14, <1>15, <1>16, <1>17, <1>18, <1>19, <1>20, <1>21, <1>22, <1>23,
     <1>24, <1>25, <1>26, <1>27, <1>28, <1>29, <1>30, <1>31, <1>32, <1>33
  DEF Next, VideoThread, uvcGrab, Setting, restart_v4l2, GtkThread

LEMMA ValueTyped ==
  ASSUME ValueTypes, [Next]_vars
  PROVE  ValueTypes'
<1> USE DEF At, Goto, Fails, Succeeds, vars, driver, values, device, flags, wanted, frame, local, gtk
<1>1. CASE DriverFills
  BY <1>1 DEF DriverFills, ValueTypes
<1>2. CASE LoopTop
  BY <1>2 DEF LoopTop, ValueTypes
<1>3. CASE GrabStarts
  BY <1>3 DEF GrabStarts, StreamOn, StreamOnFails, ValueTypes
<1>4. CASE SelectTimeout
  BY <1>4 DEF SelectTimeout, ValueTypes
<1>5. CASE SelectReady
  BY <1>5 DEF SelectReady, SettingAsked, ValueTypes
<1>6. CASE Dequeue
  BY <1>6 DEF Dequeue, NextTurn, ValueTypes
<1>7. CASE Requeue
  BY <1>7 DEF Requeue, GivenBack, NextTurn, ValueTypes
<1>8. CASE Decode
  BY <1>8 DEF Decode, NextTurn, ValueTypes
<1>9. CASE UseFrame
  BY <1>9 DEF UseFrame, NextTurn, ValueTypes
<1>10. CASE SettingStops
  BY <1>10 DEF SettingStops, StreamOff, ValueTypes
<1>11. CASE SettingApplies
  BY <1>11 DEF SettingApplies, ValueTypes
<1>12. CASE SettingReadBack
  BY <1>12 DEF SettingReadBack, RateFlagAfter, ValueTypes
<1>13. CASE SettingQueries
  BY <1>13 DEF SettingQueries, QueryAndMap, QueryFails, ValueTypes
<1>14. CASE SettingQueues
  BY <1>14 DEF SettingQueues, QueueAll, IndexAfterQueue, QueueFails, ValueTypes
<1>15. CASE SettingStarts
  BY <1>15 DEF SettingStarts, StreamOn, StreamOnFails, QualityFlagAfter, ValueTypes
<1>16. CASE RestartCloses
  BY <1>16 DEF RestartCloses, StreamOff, ValueTypes
<1>17. CASE RestartFormats
  BY <1>17 DEF RestartFormats, RestartFails, ValueTypes
<1>18. CASE RestartApplies
  BY <1>18 DEF RestartApplies, ValueTypes
<1>19. CASE RestartRequests
  BY <1>19 DEF RestartRequests, RestartFails, ValueTypes
<1>20. CASE RestartQueries
  BY <1>20 DEF RestartQueries, QueryAndMap, QueryFails, RestartFails, ValueTypes
<1>21. CASE RestartQueues
  BY <1>21 DEF RestartQueues, QueueAll, IndexAfterQueue, RestartFails, ValueTypes
<1>22. CASE RestartStarts
  BY <1>22 DEF RestartStarts, StreamOn, StreamOnFails, ValueTypes
<1>23. CASE RestartEnds
  BY <1>23 DEF RestartEnds, NewSize, NextTurn, ValueTypes
<1>24. CASE ChooseRate
  BY <1>24 DEF ChooseRate, MayChoose, ValueTypes
<1>25. CASE ChooseQuality
  BY <1>25 DEF ChooseQuality, MayChoose, ValueTypes
<1>26. CASE ChooseSize
  BY <1>26 DEF ChooseSize, MayChoose, ValueTypes
<1>27. CASE RaiseChangeRes
  BY <1>27 DEF RaiseChangeRes, ValueTypes
<1>28. CASE Quit
  BY <1>28 DEF Quit, ValueTypes
<1>29. CASE CloseDevice
  BY <1>29 DEF CloseDevice, StreamOff, ValueTypes
<1>30. CASE Terminated
  BY <1>30 DEF Terminated, ValueTypes
<1>31. CASE UNCHANGED vars
  BY <1>31 DEF ValueTypes
<1>32. CASE CrashesOnFree("r close")
  BY <1>32 DEF CrashesOnFree, ValueTypes
<1>33. CASE signalquit /\ CrashesOnFree("gone")
  BY <1>33 DEF CrashesOnFree, ValueTypes
<1> QED
  BY <1>1, <1>2, <1>3, <1>4, <1>5, <1>6, <1>7, <1>8, <1>9, <1>10, <1>11, <1>12,
     <1>13, <1>14, <1>15, <1>16, <1>17, <1>18, <1>19, <1>20, <1>21, <1>22, <1>23,
     <1>24, <1>25, <1>26, <1>27, <1>28, <1>29, <1>30, <1>31, <1>32, <1>33
  DEF Next, VideoThread, uvcGrab, Setting, restart_v4l2, GtkThread

LEMMA StepTyped ==
  ASSUME StepTypes, [Next]_vars
  PROVE  StepTypes'
<1> USE DEF At, Goto, Fails, Succeeds, vars, driver, values, device, flags, wanted, frame, local, gtk
<1>1. CASE DriverFills
  BY <1>1 DEF DriverFills, StepTypes, Steps
<1>2. CASE LoopTop
  BY <1>2 DEF LoopTop, StepTypes, Steps
<1>3. CASE GrabStarts
  BY <1>3 DEF GrabStarts, StreamOn, StreamOnFails, StepTypes, Steps
<1>4. CASE SelectTimeout
  BY <1>4 DEF SelectTimeout, StepTypes, Steps
<1>5. CASE SelectReady
  BY <1>5 DEF SelectReady, SettingAsked, StepTypes, Steps
<1>6. CASE Dequeue
  BY <1>6 DEF Dequeue, NextTurn, StepTypes, Steps
<1>7. CASE Requeue
  BY <1>7 DEF Requeue, GivenBack, NextTurn, StepTypes, Steps
<1>8. CASE Decode
  BY <1>8 DEF Decode, NextTurn, StepTypes, Steps
<1>9. CASE UseFrame
  BY <1>9 DEF UseFrame, NextTurn, StepTypes, Steps
<1>10. CASE SettingStops
  BY <1>10 DEF SettingStops, StreamOff, StepTypes, Steps
<1>11. CASE SettingApplies
  BY <1>11 DEF SettingApplies, StepTypes, Steps
<1>12. CASE SettingReadBack
  BY <1>12 DEF SettingReadBack, RateFlagAfter, StepTypes, Steps
<1>13. CASE SettingQueries
  BY <1>13 DEF SettingQueries, QueryAndMap, QueryFails, StepTypes, Steps
<1>14. CASE SettingQueues
  BY <1>14 DEF SettingQueues, QueueAll, IndexAfterQueue, QueueFails, StepTypes, Steps
<1>15. CASE SettingStarts
  BY <1>15 DEF SettingStarts, StreamOn, StreamOnFails, QualityFlagAfter, StepTypes,
               Steps
<1>16. CASE RestartCloses
  BY <1>16 DEF RestartCloses, StreamOff, StepTypes, Steps
<1>17. CASE RestartFormats
  BY <1>17 DEF RestartFormats, RestartFails, StepTypes, Steps
<1>18. CASE RestartApplies
  BY <1>18 DEF RestartApplies, StepTypes, Steps
<1>19. CASE RestartRequests
  BY <1>19 DEF RestartRequests, RestartFails, StepTypes, Steps
<1>20. CASE RestartQueries
  BY <1>20 DEF RestartQueries, QueryAndMap, QueryFails, RestartFails, StepTypes,
               Steps
<1>21. CASE RestartQueues
  BY <1>21 DEF RestartQueues, QueueAll, IndexAfterQueue, RestartFails, StepTypes,
               Steps
<1>22. CASE RestartStarts
  BY <1>22 DEF RestartStarts, StreamOn, StreamOnFails, StepTypes, Steps
<1>23. CASE RestartEnds
  BY <1>23 DEF RestartEnds, NewSize, NextTurn, StepTypes, Steps
<1>24. CASE ChooseRate
  BY <1>24 DEF ChooseRate, MayChoose, StepTypes, Steps
<1>25. CASE ChooseQuality
  BY <1>25 DEF ChooseQuality, MayChoose, StepTypes, Steps
<1>26. CASE ChooseSize
  BY <1>26 DEF ChooseSize, MayChoose, StepTypes, Steps
<1>27. CASE RaiseChangeRes
  BY <1>27 DEF RaiseChangeRes, StepTypes, Steps
<1>28. CASE Quit
  BY <1>28 DEF Quit, StepTypes, Steps
<1>29. CASE CloseDevice
  BY <1>29 DEF CloseDevice, StreamOff, StepTypes, Steps
<1>30. CASE Terminated
  BY <1>30 DEF Terminated, StepTypes, Steps
<1>31. CASE UNCHANGED vars
  BY <1>31 DEF StepTypes, Steps
<1>32. CASE CrashesOnFree("r close")
  BY <1>32 DEF CrashesOnFree, StepTypes, Steps
<1>33. CASE signalquit /\ CrashesOnFree("gone")
  BY <1>33 DEF CrashesOnFree, StepTypes, Steps
<1> QED
  BY <1>1, <1>2, <1>3, <1>4, <1>5, <1>6, <1>7, <1>8, <1>9, <1>10, <1>11, <1>12,
     <1>13, <1>14, <1>15, <1>16, <1>17, <1>18, <1>19, <1>20, <1>21, <1>22, <1>23,
     <1>24, <1>25, <1>26, <1>27, <1>28, <1>29, <1>30, <1>31, <1>32, <1>33
  DEF Next, VideoThread, uvcGrab, Setting, restart_v4l2, GtkThread

LEMMA CountTyped ==
  ASSUME CountTypes, [Next]_vars
  PROVE  CountTypes'
<1> USE DEF At, Goto, Fails, Succeeds, vars, driver, values, device, flags, wanted, frame, local, gtk
<1>1. CASE DriverFills
  BY <1>1 DEF DriverFills, CountTypes
<1>2. CASE LoopTop
  BY <1>2 DEF LoopTop, CountTypes
<1>3. CASE GrabStarts
  BY <1>3 DEF GrabStarts, StreamOn, StreamOnFails, CountTypes
<1>4. CASE SelectTimeout
  BY <1>4 DEF SelectTimeout, CountTypes
<1>5. CASE SelectReady
  BY <1>5 DEF SelectReady, SettingAsked, CountTypes
<1>6. CASE Dequeue
  BY <1>6 DEF Dequeue, NextTurn, CountTypes
<1>7. CASE Requeue
  BY <1>7 DEF Requeue, GivenBack, NextTurn, CountTypes
<1>8. CASE Decode
  BY <1>8 DEF Decode, NextTurn, CountTypes
<1>9. CASE UseFrame
  BY <1>9 DEF UseFrame, NextTurn, CountTypes
<1>10. CASE SettingStops
  BY <1>10 DEF SettingStops, StreamOff, CountTypes
<1>11. CASE SettingApplies
  BY <1>11 DEF SettingApplies, CountTypes
<1>12. CASE SettingReadBack
  BY <1>12 DEF SettingReadBack, RateFlagAfter, CountTypes
<1>13. CASE SettingQueries
  BY <1>13 DEF SettingQueries, QueryAndMap, QueryFails, CountTypes
<1>14. CASE SettingQueues
  BY <1>14 DEF SettingQueues, QueueAll, IndexAfterQueue, QueueFails, CountTypes
<1>15. CASE SettingStarts
  BY <1>15 DEF SettingStarts, StreamOn, StreamOnFails, QualityFlagAfter, CountTypes
<1>16. CASE RestartCloses
  BY <1>16 DEF RestartCloses, StreamOff, CountTypes
<1>17. CASE RestartFormats
  BY <1>17 DEF RestartFormats, RestartFails, CountTypes
<1>18. CASE RestartApplies
  BY <1>18 DEF RestartApplies, CountTypes
<1>19. CASE RestartRequests
  BY <1>19 DEF RestartRequests, RestartFails, CountTypes
<1>20. CASE RestartQueries
  BY <1>20 DEF RestartQueries, QueryAndMap, QueryFails, RestartFails, CountTypes
<1>21. CASE RestartQueues
  BY <1>21 DEF RestartQueues, QueueAll, IndexAfterQueue, RestartFails, CountTypes
<1>22. CASE RestartStarts
  BY <1>22 DEF RestartStarts, StreamOn, StreamOnFails, CountTypes
<1>23. CASE RestartEnds
  BY <1>23 DEF RestartEnds, NewSize, NextTurn, CountTypes
<1>24. CASE ChooseRate
  BY <1>24, BoundsAssumption DEF ChooseRate, MayChoose, CountTypes
<1>25. CASE ChooseQuality
  BY <1>25, BoundsAssumption DEF ChooseQuality, MayChoose, CountTypes
<1>26. CASE ChooseSize
  BY <1>26, BoundsAssumption DEF ChooseSize, MayChoose, CountTypes
<1>27. CASE RaiseChangeRes
  BY <1>27 DEF RaiseChangeRes, CountTypes
<1>28. CASE Quit
  BY <1>28 DEF Quit, CountTypes
<1>29. CASE CloseDevice
  BY <1>29 DEF CloseDevice, StreamOff, CountTypes
<1>30. CASE Terminated
  BY <1>30 DEF Terminated, CountTypes
<1>31. CASE UNCHANGED vars
  BY <1>31 DEF CountTypes
<1>32. CASE CrashesOnFree("r close")
  BY <1>32 DEF CrashesOnFree, CountTypes
<1>33. CASE signalquit /\ CrashesOnFree("gone")
  BY <1>33 DEF CrashesOnFree, CountTypes
<1> QED
  BY <1>1, <1>2, <1>3, <1>4, <1>5, <1>6, <1>7, <1>8, <1>9, <1>10, <1>11, <1>12,
     <1>13, <1>14, <1>15, <1>16, <1>17, <1>18, <1>19, <1>20, <1>21, <1>22, <1>23,
     <1>24, <1>25, <1>26, <1>27, <1>28, <1>29, <1>30, <1>31, <1>32, <1>33
  DEF Next, VideoThread, uvcGrab, Setting, restart_v4l2, GtkThread

LEMMA MemTyped ==
  ASSUME MemTypes, QueueTypes, [Next]_vars
  PROVE  MemTypes'
<1> USE DEF At, Goto, Fails, Succeeds, vars, driver, values, device, flags, wanted, frame, local, gtk
<1>1. CASE DriverFills
  BY <1>1 DEF DriverFills, MemTypes, Marks
<1>2. CASE LoopTop
  BY <1>2 DEF LoopTop, MemTypes, Marks
<1>3. CASE GrabStarts
  BY <1>3 DEF GrabStarts, StreamOn, StreamOnFails, MemTypes, Marks
<1>4. CASE SelectTimeout
  BY <1>4 DEF SelectTimeout, MemTypes, Marks
<1>5. CASE SelectReady
  BY <1>5 DEF SelectReady, SettingAsked, MemTypes, Marks
<1>6. CASE Dequeue
  BY <1>6 DEF Dequeue, NextTurn, MemTypes, Marks
<1>7. CASE Requeue
  BY <1>7 DEF Requeue, GivenBack, NextTurn, MemTypes, Marks
<1>8. CASE Decode
  BY <1>8 DEF Decode, NextTurn, MemTypes, Marks
<1>9. CASE UseFrame
  BY <1>9 DEF UseFrame, NextTurn, MemTypes, Marks
<1>10. CASE SettingStops
  BY <1>10 DEF SettingStops, StreamOff, Unmapped, Buffers, MemTypes, Marks
<1>11. CASE SettingApplies
  BY <1>11 DEF SettingApplies, MemTypes, Marks
<1>12. CASE SettingReadBack
  BY <1>12 DEF SettingReadBack, RateFlagAfter, MemTypes, Marks
<1>13. CASE SettingQueries
  BY <1>13 DEF SettingQueries, QueryAndMap, MappedAll, Buffers, QueryFails, MemTypes,
               Marks
<1>14. CASE SettingQueues
  BY <1>14 DEF SettingQueues, QueueAll, IndexAfterQueue, QueueFails, Buffers,
               MemTypes, Marks
<1>15. CASE SettingStarts
  BY <1>15 DEF SettingStarts, StreamOn, StreamOnFails, QualityFlagAfter, MemTypes,
               Marks
<1>16. CASE RestartCloses
  BY <1>16 DEF RestartCloses, StreamOff, Unmapped, Buffers, MemTypes, Marks,
               QueueTypes
<1>17. CASE RestartFormats
  BY <1>17 DEF RestartFormats, RestartFails, MemTypes, Marks
<1>18. CASE RestartApplies
  BY <1>18 DEF RestartApplies, MemTypes, Marks
<1>19. CASE RestartRequests
  BY <1>19 DEF RestartRequests, RestartFails, MemTypes, Marks, QueueTypes
<1>20. CASE RestartQueries
  BY <1>20 DEF RestartQueries, QueryAndMap, MappedAll, Buffers, QueryFails,
               RestartFails, MemTypes, Marks
<1>21. CASE RestartQueues
  BY <1>21 DEF RestartQueues, QueueAll, IndexAfterQueue, Unmapped, Buffers,
               RestartFails, MemTypes, Marks
<1>22. CASE RestartStarts
  BY <1>22 DEF RestartStarts, StreamOn, StreamOnFails, MemTypes, Marks
<1>23. CASE RestartEnds
  BY <1>23 DEF RestartEnds, NewSize, NextTurn, MemTypes, Marks
<1>24. CASE ChooseRate
  BY <1>24 DEF ChooseRate, MayChoose, MemTypes, Marks
<1>25. CASE ChooseQuality
  BY <1>25 DEF ChooseQuality, MayChoose, MemTypes, Marks
<1>26. CASE ChooseSize
  BY <1>26 DEF ChooseSize, MayChoose, MemTypes, Marks
<1>27. CASE RaiseChangeRes
  BY <1>27 DEF RaiseChangeRes, MemTypes, Marks
<1>28. CASE Quit
  BY <1>28 DEF Quit, MemTypes, Marks
<1>29. CASE CloseDevice
  BY <1>29 DEF CloseDevice, StreamOff, Unmapped, Buffers, MemTypes, Marks, QueueTypes
<1>30. CASE Terminated
  BY <1>30 DEF Terminated, MemTypes, Marks
<1>31. CASE UNCHANGED vars
  BY <1>31 DEF MemTypes, Marks
<1>32. CASE CrashesOnFree("r close")
  BY <1>32 DEF CrashesOnFree, MemTypes, Marks
<1>33. CASE signalquit /\ CrashesOnFree("gone")
  BY <1>33 DEF CrashesOnFree, MemTypes, Marks
<1> QED
  BY <1>1, <1>2, <1>3, <1>4, <1>5, <1>6, <1>7, <1>8, <1>9, <1>10, <1>11, <1>12,
     <1>13, <1>14, <1>15, <1>16, <1>17, <1>18, <1>19, <1>20, <1>21, <1>22, <1>23,
     <1>24, <1>25, <1>26, <1>27, <1>28, <1>29, <1>30, <1>31, <1>32, <1>33
  DEF Next, VideoThread, uvcGrab, Setting, restart_v4l2, GtkThread

LEMMA QueuedTyped ==
  ASSUME QueueTypes, QueueAll \/ QueueFails
  PROVE  queue' \in Seq(Buffers) /\ index' \in Buffers
<1>1. CASE QueueAll
  <2>1. FirstBuffers(NB_BUFFER) \in Seq(Buffers)
    BY BuffersInOrder, NbAssumption
  <2> QED
    BY <1>1, <2>1, BufferNumbers DEF QueueAll, QueueTypes, IndexAfterQueue, FirstBuffers
<1>2. CASE QueueFails
  <2>1. \/ \E n \in Buffers : queue' = FirstBuffers(n) /\ index' = n
        \/ \E n \in Buffers : queue' = queue \o FirstBuffers(n) /\ index' = n
        \/ queue' = queue /\ index' = 0
    BY <1>2 DEF QueueFails, FirstBuffers
  <2>2. ASSUME NEW n \in Buffers
        PROVE  FirstBuffers(n) \in Seq(Buffers) /\ queue \o FirstBuffers(n) \in Seq(Buffers)
    BY BuffersInOrder, BufferNumbers, ConcatProperties DEF QueueTypes
  <2> QED
    BY <2>1, <2>2, BufferNumbers DEF QueueTypes
<1> QED
  BY <1>1, <1>2

LEMMA QueueTyped ==
  ASSUME QueueTypes, StepTypes, [Next]_vars
  PROVE  QueueTypes'
<1> USE DEF At, Goto, Fails, Succeeds, vars, driver, values, device, flags, wanted, frame, local, gtk
<1>1. CASE DriverFills
  BY <1>1 DEF DriverFills, QueueTypes, StepTypes
<1>2. CASE LoopTop
  BY <1>2 DEF LoopTop, QueueTypes, StepTypes
<1>3. CASE GrabStarts
  BY <1>3 DEF GrabStarts, StreamOn, StreamOnFails, QueueTypes, StepTypes
<1>4. CASE SelectTimeout
  BY <1>4 DEF SelectTimeout, QueueTypes, StepTypes
<1>5. CASE SelectReady
  BY <1>5 DEF SelectReady, SettingAsked, QueueTypes, StepTypes
<1>6. CASE Dequeue
  BY <1>6 DEF Dequeue, NextTurn, QueueTypes, StepTypes
<1>7. CASE Requeue
  <2>1. GivenBack \in Seq(Buffers)
    BY DEF GivenBack, QueueTypes
  <2>2. queue' \in {queue, GivenBack} /\ UNCHANGED <<done, index, cap_meth>> /\ vpc' # "dequeue"
    BY <1>7 DEF Requeue, NextTurn
  <2> QED
    BY <2>1, <2>2 DEF QueueTypes
<1>8. CASE Decode
  BY <1>8 DEF Decode, NextTurn, QueueTypes, StepTypes
<1>9. CASE UseFrame
  BY <1>9 DEF UseFrame, NextTurn, QueueTypes, StepTypes
<1>10. CASE SettingStops
  <2>1. <<>> \in Seq(Buffers)
    OBVIOUS
  <2> QED
    BY <1>10, <2>1 DEF SettingStops, StreamOff, QueueTypes, StepTypes
<1>11. CASE SettingApplies
  BY <1>11 DEF SettingApplies, QueueTypes, StepTypes
<1>12. CASE SettingReadBack
  BY <1>12 DEF SettingReadBack, RateFlagAfter, QueueTypes, StepTypes
<1>13. CASE SettingQueries
  BY <1>13, BufferNumbers DEF SettingQueries, QueryAndMap, QueryFails, QueueTypes, StepTypes
<1>14. CASE SettingQueues
  <2>1. UNCHANGED done /\ vpc' # "dequeue" /\ (QueueAll \/ QueueFails)
    BY <1>14 DEF SettingQueues
  <2>2. queue' \in Seq(Buffers) /\ index' \in Buffers
    BY <2>1, QueuedTyped
  <2> QED
    BY <2>1, <2>2 DEF QueueTypes
<1>15. CASE SettingStarts
  BY <1>15 DEF SettingStarts, StreamOn, StreamOnFails, QualityFlagAfter, QueueTypes,
               StepTypes
<1>16. CASE RestartCloses
  <2>1. <<>> \in Seq(Buffers)
    OBVIOUS
  <2> QED
    BY <1>16, <2>1 DEF RestartCloses, StreamOff, QueueTypes, StepTypes
<1>17. CASE RestartFormats
  BY <1>17 DEF RestartFormats, RestartFails, QueueTypes, StepTypes
<1>18. CASE RestartApplies
  BY <1>18 DEF RestartApplies, QueueTypes, StepTypes
<1>19. CASE RestartRequests
  BY <1>19, BufferNumbers DEF RestartRequests, RestartFails, QueueTypes, StepTypes
<1>20. CASE RestartQueries
  BY <1>20, BufferNumbers DEF RestartQueries, QueryAndMap, QueryFails, RestartFails, QueueTypes, StepTypes
<1>21. CASE RestartQueues
  <2>1. UNCHANGED done /\ vpc' # "dequeue" /\ (QueueAll \/ (queue' = <<>> /\ index' \in Buffers))
    BY <1>21 DEF RestartQueues, RestartFails
  <2>2. <<>> \in Seq(Buffers)
    OBVIOUS
  <2>3. queue' \in Seq(Buffers) /\ index' \in Buffers
    BY <2>1, <2>2, QueuedTyped
  <2> QED
    BY <2>1, <2>3 DEF QueueTypes
<1>22. CASE RestartStarts
  BY <1>22 DEF RestartStarts, StreamOn, StreamOnFails, QueueTypes, StepTypes
<1>23. CASE RestartEnds
  BY <1>23 DEF RestartEnds, NewSize, NextTurn, QueueTypes, StepTypes
<1>24. CASE ChooseRate
  BY <1>24 DEF ChooseRate, MayChoose, QueueTypes, StepTypes
<1>25. CASE ChooseQuality
  BY <1>25 DEF ChooseQuality, MayChoose, QueueTypes, StepTypes
<1>26. CASE ChooseSize
  BY <1>26 DEF ChooseSize, MayChoose, QueueTypes, StepTypes
<1>27. CASE RaiseChangeRes
  BY <1>27 DEF RaiseChangeRes, QueueTypes, StepTypes
<1>28. CASE Quit
  BY <1>28 DEF Quit, QueueTypes, StepTypes
<1>29. CASE CloseDevice
  <2>1. <<>> \in Seq(Buffers)
    OBVIOUS
  <2> QED
    BY <1>29, <2>1 DEF CloseDevice, StreamOff, QueueTypes, StepTypes
<1>30. CASE Terminated
  BY <1>30 DEF Terminated, QueueTypes, StepTypes
<1>31. CASE UNCHANGED vars
  BY <1>31 DEF QueueTypes, StepTypes
<1>32. CASE CrashesOnFree("r close")
  BY <1>32 DEF CrashesOnFree, QueueTypes, StepTypes
<1>33. CASE signalquit /\ CrashesOnFree("gone")
  BY <1>33 DEF CrashesOnFree, QueueTypes, StepTypes
<1> QED
  BY <1>1, <1>2, <1>3, <1>4, <1>5, <1>6, <1>7, <1>8, <1>9, <1>10, <1>11, <1>12,
     <1>13, <1>14, <1>15, <1>16, <1>17, <1>18, <1>19, <1>20, <1>21, <1>22, <1>23,
     <1>24, <1>25, <1>26, <1>27, <1>28, <1>29, <1>30, <1>31, <1>32, <1>33
  DEF Next, VideoThread, uvcGrab, Setting, restart_v4l2, GtkThread

LEMMA TypedStep == Typed /\ [Next]_vars => Typed'
  BY SwitchTyped, ValueTyped, StepTyped, CountTyped, MemTyped, QueueTyped DEF Typed

LEMMA TypedInvariance == Spec => []Typed
<1>1. Init => Typed
  BY TypedInit
<1>2. Typed /\ [Next]_vars => Typed'
  BY TypedStep
<1> QED
  BY <1>1, <1>2, PTL DEF Spec

(* Every variable ranges over what its declaration in the code holds, and  *)
(* the index of vd->buf is always that of a buffer.                        *)
THEOREM CameraTypes == Spec => []TypeOK
<1>1. Typed => TypeOK
  BY TypedIs
<1> QED
  BY <1>1, TypedInvariance, PTL

-----------------------------------------------------------------------------
(***************************************************************************)
(* A restart gives up the frame buffer first and allocates it last.  As    *)
(* long as no call fails that it needs, the frame buffer is there but in   *)
(* between; the buffers are requested from the driver but before their     *)
(* new request, where the stream is off and nothing is mapped.             *)
(***************************************************************************)
Released == {"r format", "r apply", "r request"}
SetUp == {"r query", "r queue", "r alloc"}
Needed == {"disable", "request", "format", "query", "map", "queue"}

SetupInv ==
  (failed \cap Needed = {} /\ vpc # "closed") =>
    /\ framebuffer = 0 => vpc \in Released \cup SetUp
    /\ cap_meth = "read" => requested = FALSE /\ on = FALSE
    /\ cap_meth = "mmap" => (requested = (vpc \notin Released))
    /\ vpc \in Released => on = FALSE /\ (cap_meth = "mmap" => Mapped = {})

LEMMA SetupInit == Init => SetupInv
  BY SizesAssumption DEF Init, SetupInv, Released, SetUp

LEMMA NothingMapped ==
  ASSUME cap_meth = "mmap", mem' = Unmapped
  PROVE  Mapped' = {}
  BY DEF Mapped, Unmapped, Buffers

LEMMA SameMapped == mem' = mem => Mapped' = Mapped
  BY DEF Mapped

LEMMA SetupStep ==
  ASSUME SwitchTypes, ValueTypes, StepTypes, SetupInv, [Next]_vars
  PROVE  SetupInv'
<1> USE DEF At, Goto, Fails, Succeeds, vars, driver, values, device, flags, wanted, frame, local, gtk
<1>1. CASE DriverFills
  BY <1>1, SameMapped DEF DriverFills, SwitchTypes, ValueTypes, StepTypes, SetupInv,
                          Released, SetUp, Needed
<1>2. CASE LoopTop
  BY <1>2, SameMapped DEF LoopTop, SwitchTypes, ValueTypes, StepTypes, SetupInv,
                          Released, SetUp, Needed
<1>3. CASE GrabStarts
  BY <1>3, SameMapped DEF GrabStarts, StreamOn, StreamOnFails, SwitchTypes,
                          ValueTypes, StepTypes, SetupInv, Released, SetUp, Needed
<1>4. CASE SelectTimeout
  BY <1>4, SameMapped DEF SelectTimeout, SwitchTypes, ValueTypes, StepTypes,
                          SetupInv, Released, SetUp, Needed
<1>5. CASE SelectReady
  BY <1>5, SameMapped DEF SelectReady, SettingAsked, SwitchTypes, ValueTypes,
                          StepTypes, SetupInv, Released, SetUp, Needed
<1>6. CASE Dequeue
  BY <1>6, SameMapped DEF Dequeue, NextTurn, SwitchTypes, ValueTypes, StepTypes,
                          SetupInv, Released, SetUp, Needed
<1>7. CASE Requeue
  BY <1>7, SameMapped DEF Requeue, GivenBack, NextTurn, SwitchTypes, ValueTypes,
                          StepTypes, SetupInv, Released, SetUp, Needed
<1>8. CASE Decode
  BY <1>8, SameMapped DEF Decode, NextTurn, SwitchTypes, ValueTypes, StepTypes,
                          SetupInv, Released, SetUp, Needed
<1>9. CASE UseFrame
  BY <1>9, SameMapped DEF UseFrame, NextTurn, SwitchTypes, ValueTypes, StepTypes,
                          SetupInv, Released, SetUp, Needed
<1>10. CASE SettingStops
  BY <1>10, SameMapped DEF SettingStops, StreamOff, SwitchTypes, ValueTypes,
                           StepTypes, SetupInv, Released, SetUp, Needed
<1>11. CASE SettingApplies
  BY <1>11, SameMapped DEF SettingApplies, SwitchTypes, ValueTypes, StepTypes,
                           SetupInv, Released, SetUp, Needed
<1>12. CASE SettingReadBack
  BY <1>12, SameMapped DEF SettingReadBack, RateFlagAfter, SwitchTypes, ValueTypes,
                           StepTypes, SetupInv, Released, SetUp, Needed
<1>13. CASE SettingQueries
  BY <1>13, SameMapped DEF SettingQueries, QueryAndMap, QueryFails, SwitchTypes,
                           ValueTypes, StepTypes, SetupInv, Released, SetUp, Needed
<1>14. CASE SettingQueues
  BY <1>14, SameMapped DEF SettingQueues, QueueAll, IndexAfterQueue, QueueFails,
                           SwitchTypes, ValueTypes, StepTypes, SetupInv, Released,
                           SetUp, Needed
<1>15. CASE SettingStarts
  BY <1>15, SameMapped DEF SettingStarts, StreamOn, StreamOnFails, QualityFlagAfter,
                           SwitchTypes, ValueTypes, StepTypes, SetupInv, Released,
                           SetUp, Needed
<1>16. CASE RestartCloses
  <2> SUFFICES ASSUME failed' \cap Needed = {}
               PROVE  requested' = FALSE /\ on' = FALSE /\ (cap_meth = "mmap" => Mapped' = {})
                      /\ cap_meth' = cap_meth
    BY <1>16 DEF RestartCloses, SetupInv, Released, SetUp
  <2>1. failed \cap Needed = {} /\ vpc = "r close" /\ cap_meth' = cap_meth /\ cap_meth \in {"mmap", "read"}
    BY <1>16 DEF RestartCloses, StreamOff, Needed, StepTypes
  <2>2. requested' = StillRequested(on', mem')
    BY <1>16 DEF RestartCloses
  <2>3. CASE cap_meth = "mmap"
    <3>1. on' = FALSE /\ mem' = Unmapped
      BY <1>16, <2>3 DEF RestartCloses, StreamOff, Needed
    <3>2. Mapped' = {}
      BY <3>1, <2>3, NothingMapped
    <3>3. ~ \E i \in Buffers : mem'[i] = "mapped"
      BY <3>2 DEF Mapped, Buffers
    <3> QED
      BY <2>1, <2>2, <2>3, <3>1, <3>2, <3>3, Zenon DEF StillRequested
  <2>4. CASE cap_meth = "read"
    <3>1. on' = FALSE /\ requested = FALSE
      BY <1>16, <2>1, <2>4 DEF RestartCloses, StreamOff, SetupInv
    <3> QED
      BY <2>1, <2>2, <2>4, <3>1, Zenon DEF StillRequested
  <2> QED
    BY <2>1, <2>3, <2>4
<1>17. CASE RestartFormats
  BY <1>17, SameMapped DEF RestartFormats, RestartFails, SwitchTypes, ValueTypes,
                           StepTypes, SetupInv, Released, SetUp, Needed
<1>18. CASE RestartApplies
  BY <1>18, SameMapped DEF RestartApplies, SwitchTypes, ValueTypes, StepTypes,
                           SetupInv, Released, SetUp, Needed
<1>19. CASE RestartRequests
  BY <1>19, SameMapped DEF RestartRequests, RestartFails, SwitchTypes, ValueTypes,
                           StepTypes, SetupInv, Released, SetUp, Needed
<1>20. CASE RestartQueries
  BY <1>20, SameMapped DEF RestartQueries, QueryAndMap, QueryFails, RestartFails,
                           SwitchTypes, ValueTypes, StepTypes, SetupInv, Released,
                           SetUp, Needed
<1>21. CASE RestartQueues
  BY <1>21, SameMapped DEF RestartQueues, QueueAll, IndexAfterQueue, RestartFails,
                           SwitchTypes, ValueTypes, StepTypes, SetupInv, Released,
                           SetUp, Needed
<1>22. CASE RestartStarts
  BY <1>22, SameMapped, SizesAssumption DEF RestartStarts, StreamOn, StreamOnFails,
                                            SwitchTypes, ValueTypes, StepTypes,
                                            SetupInv, Released, SetUp, Needed
<1>23. CASE RestartEnds
  BY <1>23, SameMapped DEF RestartEnds, NewSize, NextTurn, SwitchTypes, ValueTypes,
                           StepTypes, SetupInv, Released, SetUp, Needed
<1>24. CASE ChooseRate
  BY <1>24, SameMapped DEF ChooseRate, MayChoose, SwitchTypes, ValueTypes, StepTypes,
                           SetupInv, Released, SetUp, Needed
<1>25. CASE ChooseQuality
  BY <1>25, SameMapped DEF ChooseQuality, MayChoose, SwitchTypes, ValueTypes,
                           StepTypes, SetupInv, Released, SetUp, Needed
<1>26. CASE ChooseSize
  BY <1>26, SameMapped DEF ChooseSize, MayChoose, SwitchTypes, ValueTypes, StepTypes,
                           SetupInv, Released, SetUp, Needed
<1>27. CASE RaiseChangeRes
  BY <1>27, SameMapped DEF RaiseChangeRes, SwitchTypes, ValueTypes, StepTypes,
                           SetupInv, Released, SetUp, Needed
<1>28. CASE Quit
  BY <1>28, SameMapped DEF Quit, SwitchTypes, ValueTypes, StepTypes, SetupInv,
                           Released, SetUp, Needed
<1>29. CASE CloseDevice
  BY <1>29, SameMapped DEF CloseDevice, StreamOff, SwitchTypes, ValueTypes,
                           StepTypes, SetupInv, Released, SetUp, Needed
<1>30. CASE Terminated
  BY <1>30, SameMapped DEF Terminated, SwitchTypes, ValueTypes, StepTypes, SetupInv,
                           Released, SetUp, Needed
<1>31. CASE UNCHANGED vars
  BY <1>31, SameMapped DEF SwitchTypes, ValueTypes, StepTypes, SetupInv, Released,
                           SetUp, Needed
<1>32. CASE CrashesOnFree("r close")
  BY <1>32, SameMapped DEF CrashesOnFree, SwitchTypes, ValueTypes, StepTypes, SetupInv, Released,
                           SetUp, Needed
<1>33. CASE signalquit /\ CrashesOnFree("gone")
  BY <1>33, SameMapped DEF CrashesOnFree, SwitchTypes, ValueTypes, StepTypes, SetupInv, Released,
                           SetUp, Needed
<1> QED
  BY <1>1, <1>2, <1>3, <1>4, <1>5, <1>6, <1>7, <1>8, <1>9, <1>10, <1>11, <1>12,
     <1>13, <1>14, <1>15, <1>16, <1>17, <1>18, <1>19, <1>20, <1>21, <1>22, <1>23,
     <1>24, <1>25, <1>26, <1>27, <1>28, <1>29, <1>30, <1>31, <1>32, <1>33
  DEF Next, VideoThread, uvcGrab, Setting, restart_v4l2, GtkThread

LEMMA SetupInvariance == Spec => []SetupInv
<1>1. Init => SetupInv
  BY SetupInit
<1>2. Typed /\ SetupInv /\ [Next]_vars => SetupInv'
  BY SetupStep DEF Typed
<1> QED
  BY <1>1, <1>2, TypedInvariance, PTL DEF Spec

(* The order in which restart_v4l2 stops, unmaps, releases and sets up     *)
(* again breaks no rule of the driver: without a frame buffer the loop has *)
(* seen a call fail that should have succeeded.                            *)
THEOREM RestartSound == Spec => []RestartWorks
<1>1. SetupInv => RestartWorks
  BY DEF SetupInv, RestartWorks, Restarting, Released, SetUp, Needed
<1> QED
  BY <1>1, SetupInvariance, PTL

-----------------------------------------------------------------------------
(***************************************************************************)
(* Settings that are not changed in haste: one flag is up at a time, from  *)
(* the choice to the last step of its change, and keeps the GTK thread     *)
(* from the values; the flag of the resolution is up during a restart.     *)
(***************************************************************************)
Applying == {"s stop", "s apply", "s read"}
Resuming == {"s query", "s queue", "s start"}

FlagInv ==
  hasty = FALSE =>
    /\ ~(setFPS /\ setJPEGCOMP)
    /\ change_res => ~setFPS /\ ~setJPEGCOMP /\ gpc = "idle"
    /\ gpc = "chosen" => ~setFPS /\ ~setJPEGCOMP
    /\ Restarting => change_res
    /\ vpc \in Applying /\ change = "rate" => setFPS
    /\ vpc \in Applying \cup Resuming => change # "none" /\ (change = "quality" => setJPEGCOMP)

(* The size of the driver, of the frame buffer and of the loop.            *)
SizeInv ==
  hasty = FALSE =>
    /\ vpc \in Released \cup SetUp => framebuffer = 0
    /\ vpc \in {"r apply", "r request"} \cup SetUp => dsize = size
    /\ framebuffer # 0 =>
         /\ framebuffer = dsize
         /\ vpc # "r end" => lsize = framebuffer
         /\ (gpc = "idle" /\ ~change_res) \/ vpc = "r end" => dsize = size

(* The rate: applied in its own change, and in a restart.                  *)
RateInv ==
  (hasty = FALSE /\ "apply" \notin failed) =>
    /\ vpc \in {"r request"} \cup SetUp => drate = fps
    /\ vpc = "s read" /\ change = "rate" => drate = fps
    /\ framebuffer # 0 /\ ((gpc = "idle" /\ ~change_res /\ ~setFPS) \/ vpc = "r end") => drate = fps

(* The quality: what is applied is read back before its flag goes down.    *)
QualityInv ==
  (hasty = FALSE /\ "apply" \notin failed) =>
    /\ ~setJPEGCOMP => dquality = quality
    /\ vpc \in {"s read"} \cup Resuming /\ change = "quality" => dquality = quality

SettingInv == FlagInv /\ SizeInv /\ RateInv /\ QualityInv

LEMMA SettingInit == Init => SettingInv
  BY SizesAssumption
  DEF Init, SettingInv, FlagInv, SizeInv, RateInv, QualityInv, Restarting, Released, SetUp, Applying, Resuming

LEMMA FlagStep ==
  ASSUME SwitchTypes, StepTypes, FlagInv, [Next]_vars
  PROVE  FlagInv'
<1> USE DEF At, Goto, Fails, Succeeds, vars, driver, values, device, flags, wanted, frame, local, gtk
<1>1. CASE DriverFills
  BY <1>1 DEF DriverFills, SwitchTypes, StepTypes, FlagInv, Restarting, Applying,
              Resuming
<1>2. CASE LoopTop
  BY <1>2 DEF LoopTop, SwitchTypes, StepTypes, FlagInv, Restarting, Applying,
              Resuming
<1>3. CASE GrabStarts
  BY <1>3 DEF GrabStarts, StreamOn, StreamOnFails, SwitchTypes, StepTypes, FlagInv,
              Restarting, Applying, Resuming
<1>4. CASE SelectTimeout
  BY <1>4 DEF SelectTimeout, SwitchTypes, StepTypes, FlagInv, Restarting, Applying,
              Resuming
<1>5. CASE SelectReady
  BY <1>5 DEF SelectReady, SettingAsked, SwitchTypes, StepTypes, FlagInv, Restarting,
              Applying, Resuming
<1>6. CASE Dequeue
  BY <1>6 DEF Dequeue, NextTurn, SwitchTypes, StepTypes, FlagInv, Restarting,
              Applying, Resuming
<1>7. CASE Requeue
  BY <1>7 DEF Requeue, GivenBack, NextTurn, SwitchTypes, StepTypes, FlagInv,
              Restarting, Applying, Resuming
<1>8. CASE Decode
  BY <1>8 DEF Decode, NextTurn, SwitchTypes, StepTypes, FlagInv, Restarting,
              Applying, Resuming
<1>9. CASE UseFrame
  BY <1>9 DEF UseFrame, NextTurn, SwitchTypes, StepTypes, FlagInv, Restarting,
              Applying, Resuming
<1>10. CASE SettingStops
  BY <1>10 DEF SettingStops, StreamOff, SwitchTypes, StepTypes, FlagInv, Restarting,
               Applying, Resuming
<1>11. CASE SettingApplies
  BY <1>11 DEF SettingApplies, SwitchTypes, StepTypes, FlagInv, Restarting, Applying,
               Resuming
<1>12. CASE SettingReadBack
  BY <1>12 DEF SettingReadBack, RateFlagAfter, SwitchTypes, StepTypes, FlagInv,
               Restarting, Applying, Resuming
<1>13. CASE SettingQueries
  BY <1>13 DEF SettingQueries, QueryAndMap, QueryFails, SwitchTypes, StepTypes,
               FlagInv, Restarting, Applying, Resuming
<1>14. CASE SettingQueues
  BY <1>14 DEF SettingQueues, QueueAll, IndexAfterQueue, QueueFails, SwitchTypes,
               StepTypes, FlagInv, Restarting, Applying, Resuming
<1>15. CASE SettingStarts
  BY <1>15 DEF SettingStarts, StreamOn, StreamOnFails, QualityFlagAfter, SwitchTypes,
               StepTypes, FlagInv, Restarting, Applying, Resuming
<1>16. CASE RestartCloses
  BY <1>16 DEF RestartCloses, StreamOff, SwitchTypes, StepTypes, FlagInv, Restarting,
               Applying, Resuming
<1>17. CASE RestartFormats
  BY <1>17 DEF RestartFormats, RestartFails, SwitchTypes, StepTypes, FlagInv,
               Restarting, Applying, Resuming
<1>18. CASE RestartApplies
  BY <1>18 DEF RestartApplies, SwitchTypes, StepTypes, FlagInv, Restarting, Applying,
               Resuming
<1>19. CASE RestartRequests
  BY <1>19 DEF RestartRequests, RestartFails, SwitchTypes, StepTypes, FlagInv,
               Restarting, Applying, Resuming
<1>20. CASE RestartQueries
  BY <1>20 DEF RestartQueries, QueryAndMap, QueryFails, RestartFails, SwitchTypes,
               StepTypes, FlagInv, Restarting, Applying, Resuming
<1>21. CASE RestartQueues
  BY <1>21 DEF RestartQueues, QueueAll, IndexAfterQueue, RestartFails, SwitchTypes,
               StepTypes, FlagInv, Restarting, Applying, Resuming
<1>22. CASE RestartStarts
  BY <1>22 DEF RestartStarts, StreamOn, StreamOnFails, SwitchTypes, StepTypes,
               FlagInv, Restarting, Applying, Resuming
<1>23. CASE RestartEnds
  BY <1>23 DEF RestartEnds, NewSize, NextTurn, SwitchTypes, StepTypes, FlagInv,
               Restarting, Applying, Resuming
<1>24. CASE ChooseRate
  BY <1>24 DEF ChooseRate, MayChoose, SwitchTypes, StepTypes, FlagInv, Restarting,
               Applying, Resuming
<1>25. CASE ChooseQuality
  BY <1>25 DEF ChooseQuality, MayChoose, SwitchTypes, StepTypes, FlagInv, Restarting,
               Applying, Resuming
<1>26. CASE ChooseSize
  BY <1>26 DEF ChooseSize, MayChoose, SwitchTypes, StepTypes, FlagInv, Restarting,
               Applying, Resuming
<1>27. CASE RaiseChangeRes
  BY <1>27 DEF RaiseChangeRes, SwitchTypes, StepTypes, FlagInv, Restarting, Applying,
               Resuming
<1>28. CASE Quit
  BY <1>28 DEF Quit, SwitchTypes, StepTypes, FlagInv, Restarting, Applying, Resuming
<1>29. CASE CloseDevice
  BY <1>29 DEF CloseDevice, StreamOff, SwitchTypes, StepTypes, FlagInv, Restarting,
               Applying, Resuming
<1>30. CASE Terminated
  BY <1>30 DEF Terminated, SwitchTypes, StepTypes, FlagInv, Restarting, Applying,
               Resuming
<1>31. CASE UNCHANGED vars
  BY <1>31 DEF SwitchTypes, StepTypes, FlagInv, Restarting, Applying, Resuming
<1>32. CASE CrashesOnFree("r close")
  BY <1>32 DEF CrashesOnFree, SwitchTypes, StepTypes, FlagInv, Restarting, Applying, Resuming
<1>33. CASE signalquit /\ CrashesOnFree("gone")
  BY <1>33 DEF CrashesOnFree, SwitchTypes, StepTypes, FlagInv, Restarting, Applying, Resuming
<1> QED
  BY <1>1, <1>2, <1>3, <1>4, <1>5, <1>6, <1>7, <1>8, <1>9, <1>10, <1>11, <1>12,
     <1>13, <1>14, <1>15, <1>16, <1>17, <1>18, <1>19, <1>20, <1>21, <1>22, <1>23,
     <1>24, <1>25, <1>26, <1>27, <1>28, <1>29, <1>30, <1>31, <1>32, <1>33
  DEF Next, VideoThread, uvcGrab, Setting, restart_v4l2, GtkThread

LEMMA SizeStep ==
  ASSUME SwitchTypes, StepTypes, ValueTypes, FlagInv, SizeInv, [Next]_vars
  PROVE  SizeInv'
<1> USE DEF At, Goto, Fails, Succeeds, vars, driver, values, device, flags, wanted, frame, local, gtk
<1>1. CASE DriverFills
  BY <1>1 DEF DriverFills, SwitchTypes, StepTypes, FlagInv, Restarting, Applying,
              Resuming, ValueTypes, SizeInv, Released, SetUp
<1>2. CASE LoopTop
  BY <1>2 DEF LoopTop, SwitchTypes, StepTypes, FlagInv, Restarting, Applying,
              Resuming, ValueTypes, SizeInv, Released, SetUp
<1>3. CASE GrabStarts
  BY <1>3 DEF GrabStarts, StreamOn, StreamOnFails, SwitchTypes, StepTypes, FlagInv,
              Restarting, Applying, Resuming, ValueTypes, SizeInv, Released, SetUp
<1>4. CASE SelectTimeout
  BY <1>4 DEF SelectTimeout, SwitchTypes, StepTypes, FlagInv, Restarting, Applying,
              Resuming, ValueTypes, SizeInv, Released, SetUp
<1>5. CASE SelectReady
  BY <1>5 DEF SelectReady, SettingAsked, SwitchTypes, StepTypes, FlagInv, Restarting,
              Applying, Resuming, ValueTypes, SizeInv, Released, SetUp
<1>6. CASE Dequeue
  BY <1>6 DEF Dequeue, NextTurn, SwitchTypes, StepTypes, FlagInv, Restarting,
              Applying, Resuming, ValueTypes, SizeInv, Released, SetUp
<1>7. CASE Requeue
  BY <1>7 DEF Requeue, GivenBack, NextTurn, SwitchTypes, StepTypes, FlagInv,
              Restarting, Applying, Resuming, ValueTypes, SizeInv, Released, SetUp
<1>8. CASE Decode
  BY <1>8 DEF Decode, NextTurn, SwitchTypes, StepTypes, FlagInv, Restarting,
              Applying, Resuming, ValueTypes, SizeInv, Released, SetUp
<1>9. CASE UseFrame
  BY <1>9 DEF UseFrame, NextTurn, SwitchTypes, StepTypes, FlagInv, Restarting,
              Applying, Resuming, ValueTypes, SizeInv, Released, SetUp
<1>10. CASE SettingStops
  BY <1>10 DEF SettingStops, StreamOff, SwitchTypes, StepTypes, FlagInv, Restarting,
               Applying, Resuming, ValueTypes, SizeInv, Released, SetUp
<1>11. CASE SettingApplies
  BY <1>11 DEF SettingApplies, SwitchTypes, StepTypes, FlagInv, Restarting, Applying,
               Resuming, ValueTypes, SizeInv, Released, SetUp
<1>12. CASE SettingReadBack
  BY <1>12 DEF SettingReadBack, RateFlagAfter, SwitchTypes, StepTypes, FlagInv,
               Restarting, Applying, Resuming, ValueTypes, SizeInv, Released, SetUp
<1>13. CASE SettingQueries
  BY <1>13 DEF SettingQueries, QueryAndMap, QueryFails, SwitchTypes, StepTypes,
               FlagInv, Restarting, Applying, Resuming, ValueTypes, SizeInv,
               Released, SetUp
<1>14. CASE SettingQueues
  BY <1>14 DEF SettingQueues, QueueAll, IndexAfterQueue, QueueFails, SwitchTypes,
               StepTypes, FlagInv, Restarting, Applying, Resuming, ValueTypes,
               SizeInv, Released, SetUp
<1>15. CASE SettingStarts
  BY <1>15 DEF SettingStarts, StreamOn, StreamOnFails, QualityFlagAfter, SwitchTypes,
               StepTypes, FlagInv, Restarting, Applying, Resuming, ValueTypes,
               SizeInv, Released, SetUp
<1>16. CASE RestartCloses
  BY <1>16 DEF RestartCloses, StreamOff, SwitchTypes, StepTypes, FlagInv, Restarting,
               Applying, Resuming, ValueTypes, SizeInv, Released, SetUp
<1>17. CASE RestartFormats
  BY <1>17 DEF RestartFormats, RestartFails, SwitchTypes, StepTypes, FlagInv,
               Restarting, Applying, Resuming, ValueTypes, SizeInv, Released, SetUp
<1>18. CASE RestartApplies
  BY <1>18 DEF RestartApplies, SwitchTypes, StepTypes, FlagInv, Restarting, Applying,
               Resuming, ValueTypes, SizeInv, Released, SetUp
<1>19. CASE RestartRequests
  BY <1>19 DEF RestartRequests, RestartFails, SwitchTypes, StepTypes, FlagInv,
               Restarting, Applying, Resuming, ValueTypes, SizeInv, Released, SetUp
<1>20. CASE RestartQueries
  BY <1>20 DEF RestartQueries, QueryAndMap, QueryFails, RestartFails, SwitchTypes,
               StepTypes, FlagInv, Restarting, Applying, Resuming, ValueTypes,
               SizeInv, Released, SetUp
<1>21. CASE RestartQueues
  BY <1>21 DEF RestartQueues, QueueAll, IndexAfterQueue, RestartFails, SwitchTypes,
               StepTypes, FlagInv, Restarting, Applying, Resuming, ValueTypes,
               SizeInv, Released, SetUp
<1>22. CASE RestartStarts
  BY <1>22, SizesAssumption DEF RestartStarts, StreamOn, StreamOnFails, SwitchTypes,
                                StepTypes, FlagInv, Restarting, Applying, Resuming,
                                ValueTypes, SizeInv, Released, SetUp
<1>23. CASE RestartEnds
  BY <1>23 DEF RestartEnds, NewSize, NextTurn, SwitchTypes, StepTypes, FlagInv,
               Restarting, Applying, Resuming, ValueTypes, SizeInv, Released, SetUp
<1>24. CASE ChooseRate
  BY <1>24 DEF ChooseRate, MayChoose, SwitchTypes, StepTypes, FlagInv, Restarting,
               Applying, Resuming, ValueTypes, SizeInv, Released, SetUp
<1>25. CASE ChooseQuality
  BY <1>25 DEF ChooseQuality, MayChoose, SwitchTypes, StepTypes, FlagInv, Restarting,
               Applying, Resuming, ValueTypes, SizeInv, Released, SetUp
<1>26. CASE ChooseSize
  BY <1>26 DEF ChooseSize, MayChoose, SwitchTypes, StepTypes, FlagInv, Restarting,
               Applying, Resuming, ValueTypes, SizeInv, Released, SetUp
<1>27. CASE RaiseChangeRes
  BY <1>27 DEF RaiseChangeRes, SwitchTypes, StepTypes, FlagInv, Restarting, Applying,
               Resuming, ValueTypes, SizeInv, Released, SetUp
<1>28. CASE Quit
  BY <1>28 DEF Quit, SwitchTypes, StepTypes, FlagInv, Restarting, Applying, Resuming,
               ValueTypes, SizeInv, Released, SetUp
<1>29. CASE CloseDevice
  BY <1>29 DEF CloseDevice, StreamOff, SwitchTypes, StepTypes, FlagInv, Restarting,
               Applying, Resuming, ValueTypes, SizeInv, Released, SetUp
<1>30. CASE Terminated
  BY <1>30 DEF Terminated, SwitchTypes, StepTypes, FlagInv, Restarting, Applying,
               Resuming, ValueTypes, SizeInv, Released, SetUp
<1>31. CASE UNCHANGED vars
  BY <1>31 DEF SwitchTypes, StepTypes, FlagInv, Restarting, Applying, Resuming,
               ValueTypes, SizeInv, Released, SetUp
<1>32. CASE CrashesOnFree("r close")
  BY <1>32 DEF CrashesOnFree, SwitchTypes, StepTypes, FlagInv, Restarting, Applying, Resuming,
               ValueTypes, SizeInv, Released, SetUp
<1>33. CASE signalquit /\ CrashesOnFree("gone")
  BY <1>33 DEF CrashesOnFree, SwitchTypes, StepTypes, FlagInv, Restarting, Applying, Resuming,
               ValueTypes, SizeInv, Released, SetUp
<1> QED
  BY <1>1, <1>2, <1>3, <1>4, <1>5, <1>6, <1>7, <1>8, <1>9, <1>10, <1>11, <1>12,
     <1>13, <1>14, <1>15, <1>16, <1>17, <1>18, <1>19, <1>20, <1>21, <1>22, <1>23,
     <1>24, <1>25, <1>26, <1>27, <1>28, <1>29, <1>30, <1>31, <1>32, <1>33
  DEF Next, VideoThread, uvcGrab, Setting, restart_v4l2, GtkThread

LEMMA RateStep ==
  ASSUME SwitchTypes, StepTypes, ValueTypes, FlagInv, SizeInv, RateInv, [Next]_vars
  PROVE  RateInv'
<1> USE DEF At, Goto, Fails, Succeeds, vars, driver, values, device, flags, wanted, frame, local, gtk
<1>1. CASE DriverFills
  BY <1>1 DEF DriverFills, SwitchTypes, StepTypes, FlagInv, Restarting, Applying,
              Resuming, ValueTypes, SizeInv, RateInv, Released, SetUp
<1>2. CASE LoopTop
  BY <1>2 DEF LoopTop, SwitchTypes, StepTypes, FlagInv, Restarting, Applying,
              Resuming, ValueTypes, SizeInv, RateInv, Released, SetUp
<1>3. CASE GrabStarts
  BY <1>3 DEF GrabStarts, StreamOn, StreamOnFails, SwitchTypes, StepTypes, FlagInv,
              Restarting, Applying, Resuming, ValueTypes, SizeInv, RateInv, Released,
              SetUp
<1>4. CASE SelectTimeout
  BY <1>4 DEF SelectTimeout, SwitchTypes, StepTypes, FlagInv, Restarting, Applying,
              Resuming, ValueTypes, SizeInv, RateInv, Released, SetUp
<1>5. CASE SelectReady
  BY <1>5 DEF SelectReady, SettingAsked, SwitchTypes, StepTypes, FlagInv, Restarting,
              Applying, Resuming, ValueTypes, SizeInv, RateInv, Released, SetUp
<1>6. CASE Dequeue
  BY <1>6 DEF Dequeue, NextTurn, SwitchTypes, StepTypes, FlagInv, Restarting,
              Applying, Resuming, ValueTypes, SizeInv, RateInv, Released, SetUp
<1>7. CASE Requeue
  BY <1>7 DEF Requeue, GivenBack, NextTurn, SwitchTypes, StepTypes, FlagInv,
              Restarting, Applying, Resuming, ValueTypes, SizeInv, RateInv, Released,
              SetUp
<1>8. CASE Decode
  BY <1>8 DEF Decode, NextTurn, SwitchTypes, StepTypes, FlagInv, Restarting,
              Applying, Resuming, ValueTypes, SizeInv, RateInv, Released, SetUp
<1>9. CASE UseFrame
  BY <1>9 DEF UseFrame, NextTurn, SwitchTypes, StepTypes, FlagInv, Restarting,
              Applying, Resuming, ValueTypes, SizeInv, RateInv, Released, SetUp
<1>10. CASE SettingStops
  BY <1>10 DEF SettingStops, StreamOff, SwitchTypes, StepTypes, FlagInv, Restarting,
               Applying, Resuming, ValueTypes, SizeInv, RateInv, Released, SetUp
<1>11. CASE SettingApplies
  BY <1>11 DEF SettingApplies, SwitchTypes, StepTypes, FlagInv, Restarting, Applying,
               Resuming, ValueTypes, SizeInv, RateInv, Released, SetUp
<1>12. CASE SettingReadBack
  BY <1>12 DEF SettingReadBack, RateFlagAfter, SwitchTypes, StepTypes, FlagInv,
               Restarting, Applying, Resuming, ValueTypes, SizeInv, RateInv,
               Released, SetUp
<1>13. CASE SettingQueries
  BY <1>13 DEF SettingQueries, QueryAndMap, QueryFails, SwitchTypes, StepTypes,
               FlagInv, Restarting, Applying, Resuming, ValueTypes, SizeInv, RateInv,
               Released, SetUp
<1>14. CASE SettingQueues
  BY <1>14 DEF SettingQueues, QueueAll, IndexAfterQueue, QueueFails, SwitchTypes,
               StepTypes, FlagInv, Restarting, Applying, Resuming, ValueTypes,
               SizeInv, RateInv, Released, SetUp
<1>15. CASE SettingStarts
  BY <1>15 DEF SettingStarts, StreamOn, StreamOnFails, QualityFlagAfter, SwitchTypes,
               StepTypes, FlagInv, Restarting, Applying, Resuming, ValueTypes,
               SizeInv, RateInv, Released, SetUp
<1>16. CASE RestartCloses
  BY <1>16 DEF RestartCloses, StreamOff, SwitchTypes, StepTypes, FlagInv, Restarting,
               Applying, Resuming, ValueTypes, SizeInv, RateInv, Released, SetUp
<1>17. CASE RestartFormats
  BY <1>17 DEF RestartFormats, RestartFails, SwitchTypes, StepTypes, FlagInv,
               Restarting, Applying, Resuming, ValueTypes, SizeInv, RateInv,
               Released, SetUp
<1>18. CASE RestartApplies
  <2>1. /\ UNCHANGED <<hasty, framebuffer, setFPS>> /\ vpc = "r apply" /\ vpc' = "r request"
        /\ ("apply" \notin failed' => drate' = fps' /\ "apply" \notin failed)
    BY <1>18 DEF RestartApplies
  <2>2. hasty = FALSE => framebuffer = 0
    BY <2>1 DEF SizeInv, Released
  <2> QED
    BY <2>1, <2>2 DEF RateInv
<1>19. CASE RestartRequests
  BY <1>19 DEF RestartRequests, RestartFails, SwitchTypes, StepTypes, FlagInv,
               Restarting, Applying, Resuming, ValueTypes, SizeInv, RateInv,
               Released, SetUp
<1>20. CASE RestartQueries
  BY <1>20 DEF RestartQueries, QueryAndMap, QueryFails, RestartFails, SwitchTypes,
               StepTypes, FlagInv, Restarting, Applying, Resuming, ValueTypes,
               SizeInv, RateInv, Released, SetUp
<1>21. CASE RestartQueues
  BY <1>21 DEF RestartQueues, QueueAll, IndexAfterQueue, RestartFails, SwitchTypes,
               StepTypes, FlagInv, Restarting, Applying, Resuming, ValueTypes,
               SizeInv, RateInv, Released, SetUp
<1>22. CASE RestartStarts
  BY <1>22, SizesAssumption DEF RestartStarts, StreamOn, StreamOnFails, SwitchTypes,
                                StepTypes, FlagInv, Restarting, Applying, Resuming,
                                ValueTypes, SizeInv, RateInv, Released, SetUp
<1>23. CASE RestartEnds
  BY <1>23 DEF RestartEnds, NewSize, NextTurn, SwitchTypes, StepTypes, FlagInv,
               Restarting, Applying, Resuming, ValueTypes, SizeInv, RateInv,
               Released, SetUp
<1>24. CASE ChooseRate
  BY <1>24 DEF ChooseRate, MayChoose, SwitchTypes, StepTypes, FlagInv, Restarting,
               Applying, Resuming, ValueTypes, SizeInv, RateInv, Released, SetUp
<1>25. CASE ChooseQuality
  BY <1>25 DEF ChooseQuality, MayChoose, SwitchTypes, StepTypes, FlagInv, Restarting,
               Applying, Resuming, ValueTypes, SizeInv, RateInv, Released, SetUp
<1>26. CASE ChooseSize
  BY <1>26 DEF ChooseSize, MayChoose, SwitchTypes, StepTypes, FlagInv, Restarting,
               Applying, Resuming, ValueTypes, SizeInv, RateInv, Released, SetUp
<1>27. CASE RaiseChangeRes
  BY <1>27 DEF RaiseChangeRes, SwitchTypes, StepTypes, FlagInv, Restarting, Applying,
               Resuming, ValueTypes, SizeInv, RateInv, Released, SetUp
<1>28. CASE Quit
  BY <1>28 DEF Quit, SwitchTypes, StepTypes, FlagInv, Restarting, Applying, Resuming,
               ValueTypes, SizeInv, RateInv, Released, SetUp
<1>29. CASE CloseDevice
  BY <1>29 DEF CloseDevice, StreamOff, SwitchTypes, StepTypes, FlagInv, Restarting,
               Applying, Resuming, ValueTypes, SizeInv, RateInv, Released, SetUp
<1>30. CASE Terminated
  BY <1>30 DEF Terminated, SwitchTypes, StepTypes, FlagInv, Restarting, Applying,
               Resuming, ValueTypes, SizeInv, RateInv, Released, SetUp
<1>31. CASE UNCHANGED vars
  BY <1>31 DEF SwitchTypes, StepTypes, FlagInv, Restarting, Applying, Resuming,
               ValueTypes, SizeInv, RateInv, Released, SetUp
<1>32. CASE CrashesOnFree("r close")
  BY <1>32 DEF CrashesOnFree, SwitchTypes, StepTypes, FlagInv, Restarting, Applying, Resuming,
               ValueTypes, SizeInv, RateInv, Released, SetUp
<1>33. CASE signalquit /\ CrashesOnFree("gone")
  BY <1>33 DEF CrashesOnFree, SwitchTypes, StepTypes, FlagInv, Restarting, Applying, Resuming,
               ValueTypes, SizeInv, RateInv, Released, SetUp
<1> QED
  BY <1>1, <1>2, <1>3, <1>4, <1>5, <1>6, <1>7, <1>8, <1>9, <1>10, <1>11, <1>12,
     <1>13, <1>14, <1>15, <1>16, <1>17, <1>18, <1>19, <1>20, <1>21, <1>22, <1>23,
     <1>24, <1>25, <1>26, <1>27, <1>28, <1>29, <1>30, <1>31, <1>32, <1>33
  DEF Next, VideoThread, uvcGrab, Setting, restart_v4l2, GtkThread

LEMMA QualityStep ==
  ASSUME SwitchTypes, StepTypes, FlagInv, QualityInv, [Next]_vars
  PROVE  QualityInv'
<1> USE DEF At, Goto, Fails, Succeeds, vars, driver, values, device, flags, wanted, frame, local, gtk
<1>1. CASE DriverFills
  BY <1>1 DEF DriverFills, SwitchTypes, StepTypes, FlagInv, Restarting, Applying,
              Resuming, QualityInv
<1>2. CASE LoopTop
  BY <1>2 DEF LoopTop, SwitchTypes, StepTypes, FlagInv, Restarting, Applying,
              Resuming, QualityInv
<1>3. CASE GrabStarts
  BY <1>3 DEF GrabStarts, StreamOn, StreamOnFails, SwitchTypes, StepTypes, FlagInv,
              Restarting, Applying, Resuming, QualityInv
<1>4. CASE SelectTimeout
  BY <1>4 DEF SelectTimeout, SwitchTypes, StepTypes, FlagInv, Restarting, Applying,
              Resuming, QualityInv
<1>5. CASE SelectReady
  BY <1>5 DEF SelectReady, SettingAsked, SwitchTypes, StepTypes, FlagInv, Restarting,
              Applying, Resuming, QualityInv
<1>6. CASE Dequeue
  BY <1>6 DEF Dequeue, NextTurn, SwitchTypes, StepTypes, FlagInv, Restarting,
              Applying, Resuming, QualityInv
<1>7. CASE Requeue
  BY <1>7 DEF Requeue, GivenBack, NextTurn, SwitchTypes, StepTypes, FlagInv,
              Restarting, Applying, Resuming, QualityInv
<1>8. CASE Decode
  BY <1>8 DEF Decode, NextTurn, SwitchTypes, StepTypes, FlagInv, Restarting,
              Applying, Resuming, QualityInv
<1>9. CASE UseFrame
  BY <1>9 DEF UseFrame, NextTurn, SwitchTypes, StepTypes, FlagInv, Restarting,
              Applying, Resuming, QualityInv
<1>10. CASE SettingStops
  BY <1>10 DEF SettingStops, StreamOff, SwitchTypes, StepTypes, FlagInv, Restarting,
               Applying, Resuming, QualityInv
<1>11. CASE SettingApplies
  BY <1>11 DEF SettingApplies, SwitchTypes, StepTypes, FlagInv, Restarting, Applying,
               Resuming, QualityInv
<1>12. CASE SettingReadBack
  BY <1>12 DEF SettingReadBack, RateFlagAfter, SwitchTypes, StepTypes, FlagInv,
               Restarting, Applying, Resuming, QualityInv
<1>13. CASE SettingQueries
  BY <1>13 DEF SettingQueries, QueryAndMap, QueryFails, SwitchTypes, StepTypes,
               FlagInv, Restarting, Applying, Resuming, QualityInv
<1>14. CASE SettingQueues
  BY <1>14 DEF SettingQueues, QueueAll, IndexAfterQueue, QueueFails, SwitchTypes,
               StepTypes, FlagInv, Restarting, Applying, Resuming, QualityInv
<1>15. CASE SettingStarts
  BY <1>15 DEF SettingStarts, StreamOn, StreamOnFails, QualityFlagAfter, SwitchTypes,
               StepTypes, FlagInv, Restarting, Applying, Resuming, QualityInv
<1>16. CASE RestartCloses
  BY <1>16 DEF RestartCloses, StreamOff, SwitchTypes, StepTypes, FlagInv, Restarting,
               Applying, Resuming, QualityInv
<1>17. CASE RestartFormats
  BY <1>17 DEF RestartFormats, RestartFails, SwitchTypes, StepTypes, FlagInv,
               Restarting, Applying, Resuming, QualityInv
<1>18. CASE RestartApplies
  BY <1>18 DEF RestartApplies, SwitchTypes, StepTypes, FlagInv, Restarting, Applying,
               Resuming, QualityInv
<1>19. CASE RestartRequests
  BY <1>19 DEF RestartRequests, RestartFails, SwitchTypes, StepTypes, FlagInv,
               Restarting, Applying, Resuming, QualityInv
<1>20. CASE RestartQueries
  BY <1>20 DEF RestartQueries, QueryAndMap, QueryFails, RestartFails, SwitchTypes,
               StepTypes, FlagInv, Restarting, Applying, Resuming, QualityInv
<1>21. CASE RestartQueues
  BY <1>21 DEF RestartQueues, QueueAll, IndexAfterQueue, RestartFails, SwitchTypes,
               StepTypes, FlagInv, Restarting, Applying, Resuming, QualityInv
<1>22. CASE RestartStarts
  BY <1>22 DEF RestartStarts, StreamOn, StreamOnFails, SwitchTypes, StepTypes,
               FlagInv, Restarting, Applying, Resuming, QualityInv
<1>23. CASE RestartEnds
  BY <1>23 DEF RestartEnds, NewSize, NextTurn, SwitchTypes, StepTypes, FlagInv,
               Restarting, Applying, Resuming, QualityInv
<1>24. CASE ChooseRate
  BY <1>24 DEF ChooseRate, MayChoose, SwitchTypes, StepTypes, FlagInv, Restarting,
               Applying, Resuming, QualityInv
<1>25. CASE ChooseQuality
  BY <1>25 DEF ChooseQuality, MayChoose, SwitchTypes, StepTypes, FlagInv, Restarting,
               Applying, Resuming, QualityInv
<1>26. CASE ChooseSize
  BY <1>26 DEF ChooseSize, MayChoose, SwitchTypes, StepTypes, FlagInv, Restarting,
               Applying, Resuming, QualityInv
<1>27. CASE RaiseChangeRes
  BY <1>27 DEF RaiseChangeRes, SwitchTypes, StepTypes, FlagInv, Restarting, Applying,
               Resuming, QualityInv
<1>28. CASE Quit
  BY <1>28 DEF Quit, SwitchTypes, StepTypes, FlagInv, Restarting, Applying, Resuming,
               QualityInv
<1>29. CASE CloseDevice
  BY <1>29 DEF CloseDevice, StreamOff, SwitchTypes, StepTypes, FlagInv, Restarting,
               Applying, Resuming, QualityInv
<1>30. CASE Terminated
  BY <1>30 DEF Terminated, SwitchTypes, StepTypes, FlagInv, Restarting, Applying,
               Resuming, QualityInv
<1>31. CASE UNCHANGED vars
  BY <1>31 DEF SwitchTypes, StepTypes, FlagInv, Restarting, Applying, Resuming,
               QualityInv
<1>32. CASE CrashesOnFree("r close")
  BY <1>32 DEF CrashesOnFree, SwitchTypes, StepTypes, FlagInv, Restarting, Applying, Resuming,
               QualityInv
<1>33. CASE signalquit /\ CrashesOnFree("gone")
  BY <1>33 DEF CrashesOnFree, SwitchTypes, StepTypes, FlagInv, Restarting, Applying, Resuming,
               QualityInv
<1> QED
  BY <1>1, <1>2, <1>3, <1>4, <1>5, <1>6, <1>7, <1>8, <1>9, <1>10, <1>11, <1>12,
     <1>13, <1>14, <1>15, <1>16, <1>17, <1>18, <1>19, <1>20, <1>21, <1>22, <1>23,
     <1>24, <1>25, <1>26, <1>27, <1>28, <1>29, <1>30, <1>31, <1>32, <1>33
  DEF Next, VideoThread, uvcGrab, Setting, restart_v4l2, GtkThread

LEMMA SettingInvariance == Spec => [](Typed /\ SettingInv)
<1>1. Init => SettingInv
  BY SettingInit
<1>2. Typed /\ SettingInv /\ [Next]_vars => SettingInv'
  BY FlagStep, SizeStep, RateStep, QualityStep DEF Typed, SettingInv
<1> QED
  BY <1>1, <1>2, TypedInvariance, PTL DEF Spec

(* With no flag up the driver has the values the window shows, unless they *)
(* are changed in haste or a call has failed; the loop decodes with the    *)
(* size the frame buffer was allocated for and the driver delivers.        *)
THEOREM SettingsReachDriver == Spec => []SettingsApplied
<1>1. Typed /\ SettingInv => SettingsApplied
  BY DEF Typed, SwitchTypes, SettingInv, SizeInv, RateInv, QualityInv, SettingsApplied, Released, SetUp
<1> QED
  BY <1>1, SettingInvariance, PTL

-----------------------------------------------------------------------------
(***************************************************************************)
(* What the program has mapped, as long as neither query nor map fails.    *)
(***************************************************************************)
ReleasedInv == vpc \in Released \cup SetUp => framebuffer = 0

LEMMA ReleasedInit == Init => ReleasedInv
  BY DEF Init, ReleasedInv, Released, SetUp

LEMMA ReleasedStep ==
  ASSUME ReleasedInv, [Next]_vars
  PROVE  ReleasedInv'
<1> USE DEF At, Goto, Fails, Succeeds, vars, driver, values, device, flags, wanted, frame, local, gtk
<1>1. CASE DriverFills
  BY <1>1 DEF DriverFills, ReleasedInv, Released, SetUp
<1>2. CASE LoopTop
  BY <1>2 DEF LoopTop, ReleasedInv, Released, SetUp
<1>3. CASE GrabStarts
  BY <1>3 DEF GrabStarts, StreamOn, StreamOnFails, ReleasedInv, Released, SetUp
<1>4. CASE SelectTimeout
  BY <1>4 DEF SelectTimeout, ReleasedInv, Released, SetUp
<1>5. CASE SelectReady
  BY <1>5 DEF SelectReady, SettingAsked, ReleasedInv, Released, SetUp
<1>6. CASE Dequeue
  BY <1>6 DEF Dequeue, NextTurn, ReleasedInv, Released, SetUp
<1>7. CASE Requeue
  BY <1>7 DEF Requeue, GivenBack, NextTurn, ReleasedInv, Released, SetUp
<1>8. CASE Decode
  BY <1>8 DEF Decode, NextTurn, ReleasedInv, Released, SetUp
<1>9. CASE UseFrame
  BY <1>9 DEF UseFrame, NextTurn, ReleasedInv, Released, SetUp
<1>10. CASE SettingStops
  BY <1>10 DEF SettingStops, StreamOff, ReleasedInv, Released, SetUp
<1>11. CASE SettingApplies
  BY <1>11 DEF SettingApplies, ReleasedInv, Released, SetUp
<1>12. CASE SettingReadBack
  BY <1>12 DEF SettingReadBack, RateFlagAfter, ReleasedInv, Released, SetUp
<1>13. CASE SettingQueries
  BY <1>13 DEF SettingQueries, QueryAndMap, QueryFails, ReleasedInv, Released, SetUp
<1>14. CASE SettingQueues
  BY <1>14 DEF SettingQueues, QueueAll, IndexAfterQueue, QueueFails, ReleasedInv,
               Released, SetUp
<1>15. CASE SettingStarts
  BY <1>15 DEF SettingStarts, StreamOn, StreamOnFails, QualityFlagAfter, ReleasedInv,
               Released, SetUp
<1>16. CASE RestartCloses
  BY <1>16 DEF RestartCloses, StreamOff, ReleasedInv, Released, SetUp
<1>17. CASE RestartFormats
  BY <1>17 DEF RestartFormats, RestartFails, ReleasedInv, Released, SetUp
<1>18. CASE RestartApplies
  BY <1>18 DEF RestartApplies, ReleasedInv, Released, SetUp
<1>19. CASE RestartRequests
  BY <1>19 DEF RestartRequests, RestartFails, ReleasedInv, Released, SetUp
<1>20. CASE RestartQueries
  BY <1>20 DEF RestartQueries, QueryAndMap, QueryFails, RestartFails, ReleasedInv,
               Released, SetUp
<1>21. CASE RestartQueues
  BY <1>21 DEF RestartQueues, QueueAll, IndexAfterQueue, RestartFails, ReleasedInv,
               Released, SetUp
<1>22. CASE RestartStarts
  BY <1>22 DEF RestartStarts, StreamOn, StreamOnFails, ReleasedInv, Released, SetUp
<1>23. CASE RestartEnds
  BY <1>23 DEF RestartEnds, NewSize, NextTurn, ReleasedInv, Released, SetUp
<1>24. CASE ChooseRate
  BY <1>24 DEF ChooseRate, MayChoose, ReleasedInv, Released, SetUp
<1>25. CASE ChooseQuality
  BY <1>25 DEF ChooseQuality, MayChoose, ReleasedInv, Released, SetUp
<1>26. CASE ChooseSize
  BY <1>26 DEF ChooseSize, MayChoose, ReleasedInv, Released, SetUp
<1>27. CASE RaiseChangeRes
  BY <1>27 DEF RaiseChangeRes, ReleasedInv, Released, SetUp
<1>28. CASE Quit
  BY <1>28 DEF Quit, ReleasedInv, Released, SetUp
<1>29. CASE CloseDevice
  BY <1>29 DEF CloseDevice, StreamOff, ReleasedInv, Released, SetUp
<1>30. CASE Terminated
  BY <1>30 DEF Terminated, ReleasedInv, Released, SetUp
<1>31. CASE UNCHANGED vars
  BY <1>31 DEF ReleasedInv, Released, SetUp
<1>32. CASE CrashesOnFree("r close")
  BY <1>32 DEF CrashesOnFree, ReleasedInv, Released, SetUp
<1>33. CASE signalquit /\ CrashesOnFree("gone")
  BY <1>33 DEF CrashesOnFree, ReleasedInv, Released, SetUp
<1> QED
  BY <1>1, <1>2, <1>3, <1>4, <1>5, <1>6, <1>7, <1>8, <1>9, <1>10, <1>11, <1>12,
     <1>13, <1>14, <1>15, <1>16, <1>17, <1>18, <1>19, <1>20, <1>21, <1>22, <1>23,
     <1>24, <1>25, <1>26, <1>27, <1>28, <1>29, <1>30, <1>31, <1>32, <1>33
  DEF Next, VideoThread, uvcGrab, Setting, restart_v4l2, GtkThread

Sound == (framebuffer # 0 \/ vpc \in SetUp) /\ failed \cap {"query", "map"} = {}

(* The buffers are not mapped between the stop of the stream and the       *)
(* query that maps them again; with the read method there is the one that  *)
(* frames are read into.                                                   *)
Unset == {"s apply", "s read", "s query"}

MapInv ==
  (Sound /\ vpc # "closed") =>
    /\ cap_meth = "mmap" => requested = TRUE
    /\ cap_meth = "mmap" /\ vpc \notin Unset \cup {"r query"} => Mapped = Buffers
    /\ cap_meth = "read" => mem[index] = "heap"

LEMMA MapInit == Init => MapInv
  BY NbAssumption, BufferNumbers DEF Init, MapInv, Sound, SetUp, Unset, Mapped, Buffers

LEMMA AllMapped == mem' = MappedAll => Mapped' = Buffers
  BY DEF MappedAll, Mapped, Buffers

LEMMA StayMapped == cap_meth = "read" /\ mem' = Unmapped => mem' = mem
  BY DEF Unmapped

LEMMA MapStep ==
  ASSUME SwitchTypes, StepTypes, ValueTypes, MemTypes, ReleasedInv, MapInv, [Next]_vars
  PROVE  MapInv'
<1> USE DEF At, Goto, Fails, Succeeds, vars, driver, values, device, flags, wanted, frame, local, gtk
<1>1. CASE DriverFills
  BY <1>1, SameMapped DEF DriverFills, SwitchTypes, StepTypes, MapInv, ReleasedInv,
                          Sound, Released, SetUp, Unset
<1>2. CASE LoopTop
  BY <1>2, SameMapped DEF LoopTop, SwitchTypes, StepTypes, MapInv, ReleasedInv,
                          Sound, Released, SetUp, Unset
<1>3. CASE GrabStarts
  BY <1>3, SameMapped DEF GrabStarts, StreamOn, StreamOnFails, SwitchTypes,
                          StepTypes, MapInv, ReleasedInv, Sound, Released, SetUp,
                          Unset
<1>4. CASE SelectTimeout
  BY <1>4, SameMapped DEF SelectTimeout, SwitchTypes, StepTypes, MapInv, ReleasedInv,
                          Sound, Released, SetUp, Unset
<1>5. CASE SelectReady
  BY <1>5, SameMapped DEF SelectReady, SettingAsked, SwitchTypes, StepTypes, MapInv,
                          ReleasedInv, Sound, Released, SetUp, Unset
<1>6. CASE Dequeue
  BY <1>6, SameMapped DEF Dequeue, NextTurn, SwitchTypes, StepTypes, MapInv,
                          ReleasedInv, Sound, Released, SetUp, Unset
<1>7. CASE Requeue
  BY <1>7, SameMapped DEF Requeue, GivenBack, NextTurn, SwitchTypes, StepTypes,
                          MapInv, ReleasedInv, Sound, Released, SetUp, Unset
<1>8. CASE Decode
  BY <1>8, SameMapped DEF Decode, NextTurn, SwitchTypes, StepTypes, MapInv,
                          ReleasedInv, Sound, Released, SetUp, Unset
<1>9. CASE UseFrame
  BY <1>9, SameMapped DEF UseFrame, NextTurn, SwitchTypes, StepTypes, MapInv,
                          ReleasedInv, Sound, Released, SetUp, Unset
<1>10. CASE SettingStops
  BY <1>10, SameMapped, StayMapped DEF SettingStops, StreamOff, SwitchTypes,
                                       StepTypes, MapInv, ReleasedInv, Sound,
                                       Released, SetUp, Unset
<1>11. CASE SettingApplies
  BY <1>11, SameMapped DEF SettingApplies, SwitchTypes, StepTypes, MapInv,
                           ReleasedInv, Sound, Released, SetUp, Unset
<1>12. CASE SettingReadBack
  BY <1>12, SameMapped DEF SettingReadBack, RateFlagAfter, SwitchTypes, StepTypes,
                           MapInv, ReleasedInv, Sound, Released, SetUp, Unset
<1>13. CASE SettingQueries
  BY <1>13, SameMapped, AllMapped DEF SettingQueries, QueryAndMap, QueryFails,
                                      SwitchTypes, StepTypes, MapInv, ReleasedInv,
                                      Sound, Released, SetUp, Unset
<1>14. CASE SettingQueues
  BY <1>14, SameMapped DEF SettingQueues, QueueAll, IndexAfterQueue, QueueFails,
                           SwitchTypes, StepTypes, MapInv, ReleasedInv, Sound,
                           Released, SetUp, Unset
<1>15. CASE SettingStarts
  BY <1>15, SameMapped DEF SettingStarts, StreamOn, StreamOnFails, QualityFlagAfter,
                           SwitchTypes, StepTypes, MapInv, ReleasedInv, Sound,
                           Released, SetUp, Unset
<1>16. CASE RestartCloses
  BY <1>16, SameMapped DEF RestartCloses, StreamOff, SwitchTypes, StepTypes, MapInv,
                           ReleasedInv, Sound, Released, SetUp, Unset
<1>17. CASE RestartFormats
  BY <1>17, SameMapped DEF RestartFormats, RestartFails, SwitchTypes, StepTypes,
                           MapInv, ReleasedInv, Sound, Released, SetUp, Unset
<1>18. CASE RestartApplies
  BY <1>18, SameMapped DEF RestartApplies, SwitchTypes, StepTypes, MapInv,
                           ReleasedInv, Sound, Released, SetUp, Unset
<1>19. CASE RestartRequests
  BY <1>19, SameMapped, BufferNumbers DEF RestartRequests, RestartFails, SwitchTypes,
                                          StepTypes, MapInv, ReleasedInv, Sound,
                                          Released, SetUp, Unset, MemTypes
<1>20. CASE RestartQueries
  BY <1>20, SameMapped, AllMapped DEF RestartQueries, QueryAndMap, QueryFails,
                                      RestartFails, SwitchTypes, StepTypes, MapInv,
                                      ReleasedInv, Sound, Released, SetUp, Unset
<1>21. CASE RestartQueues
  BY <1>21, SameMapped DEF RestartQueues, QueueAll, IndexAfterQueue, RestartFails,
                           SwitchTypes, StepTypes, MapInv, ReleasedInv, Sound,
                           Released, SetUp, Unset
<1>22. CASE RestartStarts
  BY <1>22, SameMapped DEF RestartStarts, StreamOn, StreamOnFails, SwitchTypes,
                           StepTypes, MapInv, ReleasedInv, Sound, Released, SetUp,
                           Unset
<1>23. CASE RestartEnds
  BY <1>23, SameMapped DEF RestartEnds, NewSize, NextTurn, SwitchTypes, StepTypes,
                           MapInv, ReleasedInv, Sound, Released, SetUp, Unset
<1>24. CASE ChooseRate
  BY <1>24, SameMapped DEF ChooseRate, MayChoose, SwitchTypes, StepTypes, MapInv,
                           ReleasedInv, Sound, Released, SetUp, Unset
<1>25. CASE ChooseQuality
  BY <1>25, SameMapped DEF ChooseQuality, MayChoose, SwitchTypes, StepTypes, MapInv,
                           ReleasedInv, Sound, Released, SetUp, Unset
<1>26. CASE ChooseSize
  BY <1>26, SameMapped DEF ChooseSize, MayChoose, SwitchTypes, StepTypes, MapInv,
                           ReleasedInv, Sound, Released, SetUp, Unset
<1>27. CASE RaiseChangeRes
  BY <1>27, SameMapped DEF RaiseChangeRes, SwitchTypes, StepTypes, MapInv,
                           ReleasedInv, Sound, Released, SetUp, Unset
<1>28. CASE Quit
  BY <1>28, SameMapped DEF Quit, SwitchTypes, StepTypes, MapInv, ReleasedInv, Sound,
                           Released, SetUp, Unset
<1>29. CASE CloseDevice
  BY <1>29, SameMapped DEF CloseDevice, StreamOff, SwitchTypes, StepTypes, MapInv,
                           ReleasedInv, Sound, Released, SetUp, Unset
<1>30. CASE Terminated
  BY <1>30, SameMapped DEF Terminated, SwitchTypes, StepTypes, MapInv, ReleasedInv,
                           Sound, Released, SetUp, Unset
<1>31. CASE UNCHANGED vars
  BY <1>31, SameMapped DEF SwitchTypes, StepTypes, MapInv, ReleasedInv, Sound,
                           Released, SetUp, Unset
<1>32. CASE CrashesOnFree("r close")
  BY <1>32, SameMapped DEF CrashesOnFree, SwitchTypes, StepTypes, MapInv, ReleasedInv, Sound,
                           Released, SetUp, Unset
<1>33. CASE signalquit /\ CrashesOnFree("gone")
  BY <1>33, SameMapped DEF CrashesOnFree, SwitchTypes, StepTypes, MapInv, ReleasedInv, Sound,
                           Released, SetUp, Unset
<1> QED
  BY <1>1, <1>2, <1>3, <1>4, <1>5, <1>6, <1>7, <1>8, <1>9, <1>10, <1>11, <1>12,
     <1>13, <1>14, <1>15, <1>16, <1>17, <1>18, <1>19, <1>20, <1>21, <1>22, <1>23,
     <1>24, <1>25, <1>26, <1>27, <1>28, <1>29, <1>30, <1>31, <1>32, <1>33
  DEF Next, VideoThread, uvcGrab, Setting, restart_v4l2, GtkThread

LEMMA MapInvariance == Spec => [](Typed /\ ReleasedInv /\ MapInv)
<1>1. Init => ReleasedInv /\ MapInv
  BY ReleasedInit, MapInit
<1>2. Typed /\ ReleasedInv /\ MapInv /\ [Next]_vars => ReleasedInv' /\ MapInv'
  BY ReleasedStep, MapStep DEF Typed
<1> QED
  BY <1>1, <1>2, TypedInvariance, PTL DEF Spec

(* What crashes the program: a frame that cannot be read or does not fit,  *)
(* and a mapping that is freed.                                            *)
RunsInv == (Sound /\ hasty = FALSE /\ vpc # "closed") => vpc # "crashed"

LEMMA RunsInit == Init => RunsInv
  BY DEF Init, RunsInv

LEMMA FrameIsSound ==
  ASSUME StepTypes, ValueTypes, QueueTypes, MapInv, SizeInv, Sound, hasty = FALSE,
         vpc \in {"decode", "frame"}
  PROVE  Readable /\ FrameFits /\ ~(lsize > framebuffer)
<1>1. cap_meth = "mmap" => Mapped = Buffers
  BY DEF MapInv, Unset
<1>2. framebuffer # 0 /\ framebuffer = dsize /\ lsize = framebuffer
  BY DEF Sound, SetUp, SizeInv
<1>3. lsize \in Nat
  BY SizesAssumption DEF ValueTypes
<1>4. Readable
  BY <1>1 DEF Mapped, Readable, MapInv, StepTypes, QueueTypes
<1> QED
  BY <1>2, <1>3, <1>4 DEF FrameFits

LEMMA RunsStep ==
  ASSUME StepTypes, ValueTypes, QueueTypes, MapInv, SizeInv, RunsInv, [Next]_vars
  PROVE  RunsInv'
<1> USE DEF At, Goto, Fails, Succeeds, Running, vars, driver, values, device, flags, wanted, frame, local, gtk
<1>1. CASE DriverFills
  BY <1>1 DEF DriverFills, RunsInv, Sound, SetUp
<1>2. CASE LoopTop
  BY <1>2 DEF LoopTop, RunsInv, Sound, SetUp
<1>3. CASE GrabStarts
  BY <1>3 DEF GrabStarts, StreamOn, StreamOnFails, RunsInv, Sound, SetUp
<1>4. CASE SelectTimeout
  BY <1>4 DEF SelectTimeout, RunsInv, Sound, SetUp
<1>5. CASE SelectReady
  BY <1>5 DEF SelectReady, SettingAsked, RunsInv, Sound, SetUp
<1>6. CASE Dequeue
  BY <1>6 DEF Dequeue, NextTurn, RunsInv, Sound, SetUp
<1>7. CASE Requeue
  BY <1>7 DEF Requeue, GivenBack, NextTurn, RunsInv, Sound, SetUp
<1>8. CASE Decode
  <2>1. /\ vpc = "decode" /\ UNCHANGED <<framebuffer, hasty>> /\ failed \subseteq failed'
        /\ vpc' = "crashed" => ~(Readable /\ FrameFits)
    BY <1>8 DEF Decode, NextTurn
  <2> QED
    BY <2>1, FrameIsSound DEF RunsInv, Sound, SetUp
<1>9. CASE UseFrame
  <2>1. /\ vpc = "frame" /\ UNCHANGED <<framebuffer, hasty, failed>>
        /\ vpc' = "crashed" => lsize > framebuffer
    BY <1>9 DEF UseFrame, NextTurn
  <2> QED
    BY <2>1, FrameIsSound DEF RunsInv, Sound, SetUp
<1>10. CASE SettingStops
  BY <1>10 DEF SettingStops, StreamOff, RunsInv, Sound, SetUp
<1>11. CASE SettingApplies
  BY <1>11 DEF SettingApplies, RunsInv, Sound, SetUp
<1>12. CASE SettingReadBack
  BY <1>12 DEF SettingReadBack, RateFlagAfter, RunsInv, Sound, SetUp
<1>13. CASE SettingQueries
  BY <1>13 DEF SettingQueries, QueryAndMap, QueryFails, RunsInv, Sound, SetUp
<1>14. CASE SettingQueues
  BY <1>14 DEF SettingQueues, QueueAll, IndexAfterQueue, QueueFails, RunsInv, Sound, SetUp
<1>15. CASE SettingStarts
  BY <1>15 DEF SettingStarts, StreamOn, StreamOnFails, QualityFlagAfter, RunsInv, Sound, SetUp
<1>16. CASE RestartCloses
  BY <1>16 DEF RestartCloses, StreamOff, RunsInv, Sound, SetUp
<1>17. CASE RestartFormats
  BY <1>17 DEF RestartFormats, RestartFails, RunsInv, Sound, SetUp
<1>18. CASE RestartApplies
  BY <1>18 DEF RestartApplies, RunsInv, Sound, SetUp
<1>19. CASE RestartRequests
  BY <1>19 DEF RestartRequests, RestartFails, RunsInv, Sound, SetUp
<1>20. CASE RestartQueries
  BY <1>20 DEF RestartQueries, QueryAndMap, QueryFails, RestartFails, RunsInv, Sound, SetUp
<1>21. CASE RestartQueues
  BY <1>21 DEF RestartQueues, QueueAll, IndexAfterQueue, RestartFails, RunsInv, Sound, SetUp
<1>22. CASE RestartStarts
  BY <1>22 DEF RestartStarts, StreamOn, StreamOnFails, RunsInv, Sound, SetUp
<1>23. CASE RestartEnds
  BY <1>23 DEF RestartEnds, NewSize, NextTurn, RunsInv, Sound, SetUp
<1>24. CASE ChooseRate
  BY <1>24 DEF ChooseRate, MayChoose, RunsInv, Sound, SetUp
<1>25. CASE ChooseQuality
  BY <1>25 DEF ChooseQuality, MayChoose, RunsInv, Sound, SetUp
<1>26. CASE ChooseSize
  BY <1>26 DEF ChooseSize, MayChoose, RunsInv, Sound, SetUp
<1>27. CASE RaiseChangeRes
  BY <1>27 DEF RaiseChangeRes, RunsInv, Sound, SetUp
<1>28. CASE Quit
  BY <1>28 DEF Quit, RunsInv, Sound, SetUp
<1>29. CASE CloseDevice
  BY <1>29 DEF CloseDevice, StreamOff, RunsInv, Sound, SetUp
<1>30. CASE Terminated
  BY <1>30 DEF Terminated, RunsInv, Sound, SetUp
<1>31. CASE UNCHANGED vars
  BY <1>31 DEF RunsInv, Sound, SetUp
<1>32. CASE CrashesOnFree("r close")
  BY <1>32 DEF CrashesOnFree, FreesMapping, MapInv, RunsInv, Sound, SetUp
<1>33. CASE signalquit /\ CrashesOnFree("gone")
  BY <1>33 DEF CrashesOnFree, FreesMapping, MapInv, RunsInv, Sound, SetUp
<1> QED
  BY <1>1, <1>2, <1>3, <1>4, <1>5, <1>6, <1>7, <1>8, <1>9, <1>10, <1>11, <1>12,
     <1>13, <1>14, <1>15, <1>16, <1>17, <1>18, <1>19, <1>20, <1>21, <1>22, <1>23,
     <1>24, <1>25, <1>26, <1>27, <1>28, <1>29, <1>30, <1>31, <1>32, <1>33
  DEF Next, VideoThread, uvcGrab, Setting, restart_v4l2, GtkThread

LEMMA RunsInvariance == Spec => []RunsInv
<1>1. Init => RunsInv
  BY RunsInit
<1>2. Typed /\ MapInv /\ SettingInv /\ RunsInv /\ [Next]_vars => RunsInv'
  BY RunsStep DEF Typed, SettingInv
<1> QED
  BY <1>1, <1>2, MapInvariance, SettingInvariance, PTL DEF Spec

-----------------------------------------------------------------------------
(***************************************************************************)
(* Sequences without duplicates.                                           *)
(***************************************************************************)
Holds(s, S) == IsInjective(s) /\ ToSet(s) = S

LEMMA HoldsTail ==
  ASSUME NEW S, NEW s \in Seq(S), s # <<>>, NEW T, Holds(s, T)
  PROVE  Holds(Tail(s), T \ {Head(s)})
<1>1. Len(s) \in Nat \ {0} /\ DOMAIN s = 1 .. Len(s) /\ Head(s) = s[1]
  BY EmptySeq, LenProperties
<1>2. /\ Tail(s) \in Seq(S) /\ Len(Tail(s)) = Len(s) - 1
      /\ \A i \in 1 .. Len(Tail(s)) : Tail(s)[i] = s[i + 1]
  BY HeadTailProperties
<1>3. DOMAIN Tail(s) = 1 .. Len(s) - 1
  BY <1>2, LenProperties
<1>4. \A i, j \in 1 .. Len(s) : s[i] = s[j] => i = j
  BY <1>1 DEF Holds, IsInjective
<1>5. IsInjective(Tail(s))
  BY <1>1, <1>2, <1>3, <1>4 DEF IsInjective
<1>6. ToSet(Tail(s)) \subseteq T \ {Head(s)}
  BY <1>1, <1>2, <1>3, <1>4 DEF ToSet, Holds
<1>7. ASSUME NEW x \in T \ {Head(s)} PROVE x \in ToSet(Tail(s))
  <2>1. PICK i \in 1 .. Len(s) : s[i] = x
    BY <1>1 DEF Holds, ToSet
  <2>2. i # 1 /\ i - 1 \in 1 .. Len(s) - 1 /\ (i - 1) + 1 = i
    BY <2>1, <1>1
  <2>3. Tail(s)[i - 1] = x
    BY <2>1, <2>2, <1>2
  <2> QED
    BY <2>2, <2>3, <1>3 DEF ToSet
<1> QED
  BY <1>5, <1>6, <1>7 DEF Holds

LEMMA HoldsAppend ==
  ASSUME NEW S, NEW s \in Seq(S), NEW x \in S, NEW T, Holds(s, T \ {x}), x \in T
  PROVE  Holds(Append(s, x), T)
<1>1. Len(s) \in Nat /\ DOMAIN s = 1 .. Len(s)
  BY LenProperties
<1>2. /\ DOMAIN Append(s, x) = 1 .. Len(s) + 1
      /\ \A i \in 1 .. Len(s) : Append(s, x)[i] = s[i]
      /\ Append(s, x)[Len(s) + 1] = x
  BY <1>1
<1>3. \A i \in 1 .. Len(s) : s[i] # x
  BY <1>1 DEF Holds, ToSet
<1>4. \A i, j \in 1 .. Len(s) : s[i] = s[j] => i = j
  BY <1>1 DEF Holds, IsInjective
<1>5. IsInjective(Append(s, x))
  BY <1>1, <1>2, <1>3, <1>4 DEF IsInjective
<1>6. ToSet(Append(s, x)) \subseteq T
  BY <1>1, <1>2 DEF ToSet, Holds
<1>7. ASSUME NEW y \in T PROVE y \in ToSet(Append(s, x))
  <2>1. CASE y = x
    BY <2>1, <1>1, <1>2 DEF ToSet
  <2>2. CASE y # x
    <3>1. PICK i \in 1 .. Len(s) : s[i] = y
      BY <2>2, <1>1 DEF Holds, ToSet
    <3>2. i \in 1 .. Len(s) + 1
      BY <1>1
    <3> QED
      BY <3>1, <3>2, <1>2 DEF ToSet
  <2> QED
    BY <2>1, <2>2
<1> QED
  BY <1>5, <1>6, <1>7 DEF Holds

LEMMA HoldsFirst == Holds(FirstBuffers(NB_BUFFER), Buffers)
<1> DEFINE s == FirstBuffers(NB_BUFFER)
<1>1. DOMAIN s = 1 .. NB_BUFFER /\ \A i \in 1 .. NB_BUFFER : s[i] = i - 1
  BY NbAssumption DEF FirstBuffers
<1>2. IsInjective(s)
  BY <1>1, NbAssumption DEF IsInjective
<1>3. ToSet(s) \subseteq Buffers
  BY <1>1, NbAssumption DEF ToSet, Buffers
<1>4. ASSUME NEW b \in Buffers PROVE b \in ToSet(s)
  <2>1. b + 1 \in 1 .. NB_BUFFER /\ (b + 1) - 1 = b
    BY NbAssumption DEF Buffers
  <2> QED
    BY <2>1, <1>1 DEF ToSet
<1> QED
  BY <1>2, <1>3, <1>4 DEF Holds

LEMMA SetOfConcat ==
  ASSUME NEW S, NEW s \in Seq(S), NEW t \in Seq(S)
  PROVE  ToSet(s \o t) = ToSet(s) \cup ToSet(t)
<1>1. Len(s) \in Nat /\ Len(t) \in Nat /\ DOMAIN s = 1 .. Len(s) /\ DOMAIN t = 1 .. Len(t)
  BY LenProperties
<1>2. s \o t \in Seq(S) /\ Len(s \o t) = Len(s) + Len(t)
      /\ \A i \in 1 .. Len(s) + Len(t) : (s \o t)[i] = IF i <= Len(s) THEN s[i] ELSE t[i - Len(s)]
  BY ConcatProperties
<1>3. DOMAIN (s \o t) = 1 .. Len(s) + Len(t)
  BY <1>2, LenProperties
<1>4. ToSet(s \o t) \subseteq ToSet(s) \cup ToSet(t)
  BY <1>1, <1>2, <1>3 DEF ToSet
<1>5. ASSUME NEW i \in 1 .. Len(s) PROVE s[i] \in ToSet(s \o t)
  BY <1>1, <1>2, <1>3 DEF ToSet
<1>6. ASSUME NEW i \in 1 .. Len(t) PROVE t[i] \in ToSet(s \o t)
  <2>1. Len(s) + i \in 1 .. Len(s) + Len(t) /\ (Len(s) + i <= Len(s)) = FALSE /\ (Len(s) + i) - Len(s) = i
    BY <1>1
  <2>2. (s \o t)[Len(s) + i] = t[i]
    BY <2>1, <1>2
  <2> QED
    BY <2>1, <2>2, <1>3 DEF ToSet
<1>7. ToSet(s) \cup ToSet(t) \subseteq ToSet(s \o t)
  BY <1>1, <1>5, <1>6 DEF ToSet
<1> QED
  BY <1>4, <1>7

(* A sequence that holds every buffer, once, has as many as there are.     *)
LEMMA HoldsAll ==
  ASSUME NEW s \in Seq(Buffers), Holds(s, Buffers)
  PROVE  Len(s) = NB_BUFFER
<1>1. Len(s) \in Nat /\ s \in [1 .. Len(s) -> Buffers] /\ DOMAIN s = 1 .. Len(s)
  BY LenProperties
<1>2. s \in Bijection(1 .. Len(s), Buffers)
  <2>1. \A i, j \in 1 .. Len(s) : s[i] = s[j] => i = j
    BY <1>1 DEF Holds, IsInjective
  <2>2. \A b \in Buffers : \E i \in 1 .. Len(s) : s[i] = b
    BY <1>1 DEF Holds, ToSet
  <2> QED
    BY <1>1, <2>1, <2>2 DEF Bijection, Injection, Surjection, IsInjective
<1>3. ExistsBijection(1 .. Len(s), Buffers)
  BY <1>2 DEF ExistsBijection
<1>4. Cardinality(Buffers) = Len(s)
  BY <1>1, <1>3, FS_CountingElements
<1>5. Cardinality(Buffers) = NB_BUFFER
  BY NbAssumption, FS_Interval DEF Buffers
<1> QED
  BY <1>4, <1>5

-----------------------------------------------------------------------------
(***************************************************************************)
(* The buffers of the driver, in the order in which they are delivered.    *)
(* Each of them is there once; one is missing between the dequeue and the  *)
(* requeue of its frame, and none is left, or all, while a setting stops   *)
(* the stream.  As long as queue has not failed.                           *)
(***************************************************************************)
Held == done \o queue

Emptied == Unset \cup {"s queue"}
Partial == Emptied \cup {"requeue", "r query", "r queue", "closed"}

HeldInv ==
  (Sound /\ cap_meth = "mmap" /\ "queue" \notin failed) =>
    /\ vpc = "requeue" => Holds(Held, Buffers \ {index})
    /\ vpc \in Emptied => Held = <<>> \/ Holds(Held, Buffers)
    /\ vpc \notin Partial => Holds(Held, Buffers)

LEMMA HeldInit == Init => HeldInv
<1> SUFFICES ASSUME Init, cap_meth = "mmap" PROVE Holds(Held, Buffers) /\ vpc = "top"
  BY DEF HeldInv, Init, Emptied, Unset
<1>1. done = <<>> /\ queue = FirstBuffers(NB_BUFFER)
  BY DEF Init, FirstBuffers
<1>2. FirstBuffers(NB_BUFFER) \in Seq(Buffers)
  BY BuffersInOrder, NbAssumption
<1>3. Held = FirstBuffers(NB_BUFFER)
  BY <1>1, <1>2, ConcatEmptySeq DEF Held
<1> QED
  BY <1>3, HoldsFirst DEF Init

LEMMA SameHeld == UNCHANGED <<queue, done>> => Held' = Held
  BY DEF Held

LEMMA HeldSet ==
  ASSUME QueueTypes
  PROVE  Held \in Seq(Buffers) /\ Len(Held) = Len(done) + Len(queue) /\ ToSet(Held) = WithDriver
         /\ (Held = <<>> <=> done = <<>> /\ queue = <<>>)
  BY SetOfConcat, ConcatProperties, ConcatEqualIffEmpty DEF QueueTypes, Held, WithDriver

LEMMA NoneHeld == queue = <<>> /\ done = <<>> => Held = <<>>
<1>1. <<>> \in Seq(Buffers)
  OBVIOUS
<1>2. <<>> \o <<>> = <<>>
  BY <1>1, ConcatEmptySeq
<1> QED
  BY <1>2 DEF Held

LEMMA NoneHeldAfter == queue' = <<>> /\ done' = <<>> => Held' = <<>>
<1>1. <<>> \in Seq(Buffers)
  OBVIOUS
<1>2. <<>> \o <<>> = <<>>
  BY <1>1, ConcatEmptySeq
<1> QED
  BY <1>2 DEF Held

(* The driver moves a buffer from one part to the other.                   *)
LEMMA FillKeepsHeld ==
  ASSUME QueueTypes, DriverFills
  PROVE  Held' = Held
<1>1. queue \in Seq(Buffers) /\ done \in Seq(Buffers) /\ queue # <<>>
      /\ done' = Append(done, Head(queue)) /\ queue' = Tail(queue)
  BY DEF QueueTypes, DriverFills
<1>2. Head(queue) \in Buffers /\ Tail(queue) \in Seq(Buffers) /\ queue = <<Head(queue)>> \o Tail(queue)
  BY <1>1, HeadTailProperties
<1>3. <<Head(queue)>> \in Seq(Buffers) /\ Append(done, Head(queue)) = done \o <<Head(queue)>>
  BY <1>1, <1>2
<1>4. (done \o <<Head(queue)>>) \o Tail(queue) = done \o (<<Head(queue)>> \o Tail(queue))
  BY <1>1, <1>2, <1>3, ConcatAssociative
<1> QED
  BY <1>1, <1>2, <1>3, <1>4 DEF Held

(* A dequeue takes the first of all.                                       *)
LEMMA DequeueFromHeld ==
  ASSUME QueueTypes, done # <<>>, done' = Tail(done), index' = Head(done), UNCHANGED queue
  PROVE  Held # <<>> /\ Held' = Tail(Held) /\ index' = Head(Held)
<1>1. queue \in Seq(Buffers) /\ done \in Seq(Buffers) /\ Held \in Seq(Buffers)
  BY HeldSet DEF QueueTypes
<1>2. /\ Head(done) \in Buffers /\ Tail(done) \in Seq(Buffers) /\ <<Head(done)>> \in Seq(Buffers)
      /\ done = <<Head(done)>> \o Tail(done)
  BY <1>1, HeadTailProperties
<1>3. Held = <<Head(done)>> \o (Tail(done) \o queue)
  BY <1>1, <1>2, ConcatAssociative DEF Held
<1>4. Tail(done) \o queue \in Seq(Buffers)
  BY <1>1, <1>2
<1> DEFINE h == Head(done)
           t == Tail(done) \o queue
<1>5. h \in Buffers /\ t \in Seq(Buffers)
  BY <1>2, <1>4
<1> HIDE DEF h, t
<1>6. <<h>> \o t # <<>> /\ Head(<<h>> \o t) = h /\ Tail(<<h>> \o t) = t
  BY <1>5
<1> QED
  BY <1>3, <1>6 DEF h, t, Held

(* A requeue puts it behind the last.                                      *)
LEMMA RequeueToHeld ==
  ASSUME QueueTypes, queue' = GivenBack, UNCHANGED done
  PROVE  Held' = Append(Held, index)
<1>1. queue \in Seq(Buffers) /\ done \in Seq(Buffers) /\ index \in Buffers /\ <<index>> \in Seq(Buffers)
  BY DEF QueueTypes
<1>2. queue' = queue \o <<index>>
  BY <1>1 DEF GivenBack
<1>3. Held' = (done \o queue) \o <<index>>
  BY <1>1, <1>2, ConcatAssociative DEF Held
<1>4. done \o queue \in Seq(Buffers)
  BY <1>1
<1> QED
  BY <1>1, <1>3, <1>4 DEF Held

(* All buffers are queued when the driver has none.                        *)
LEMMA QueueFillsHeld ==
  ASSUME QueueTypes, QueueAll, cap_meth = "mmap", UNCHANGED done
  PROVE  Holds(Held', Buffers)
<1>1. queue = <<>> /\ done = <<>>
  <2>1. WithDriver = {}
    BY DEF QueueAll
  <2>2. ToSet(Held) = {}
    BY <2>1, HeldSet
  <2>3. Held \in Seq(Buffers) /\ DOMAIN Held = 1 .. Len(Held) /\ Len(Held) \in Nat
    BY HeldSet, LenProperties
  <2>4. Len(Held) = 0
    <3>1. SUFFICES ASSUME Len(Held) # 0 PROVE FALSE
      OBVIOUS
    <3>2. 1 \in DOMAIN Held
      BY <2>3, <3>1
    <3> QED
      BY <2>2, <3>2 DEF ToSet
  <2> QED
    BY <2>3, <2>4, HeldSet, EmptySeq
<1>2. queue' = FirstBuffers(NB_BUFFER)
  BY DEF QueueAll, FirstBuffers
<1>3. FirstBuffers(NB_BUFFER) \in Seq(Buffers)
  BY BuffersInOrder, NbAssumption
<1>4. Held' = FirstBuffers(NB_BUFFER)
  BY <1>1, <1>2, <1>3, ConcatEmptySeq DEF Held
<1> QED
  BY <1>4, HoldsFirst

(* If the driver has them all, or none, a queue that fails without being   *)
(* a call that fails is refused at the first buffer, and changes nothing.  *)
LEMMA RefusedAtFirst ==
  ASSUME QueueTypes, QueueFails, UNCHANGED done, "queue" \notin failed', requested = TRUE,
         Held = <<>> \/ Holds(Held, Buffers)
  PROVE  Held' = Held /\ Holds(Held, Buffers)
<1>1. PICK n \in Buffers : /\ WithDriver # {}
                           /\ \A i \in 0 .. n - 1 : i \notin WithDriver
                           /\ queue' = queue \o FirstBuffers(n)
  BY DEF QueueFails, FirstBuffers, Fails, Succeeds
<1>2. Holds(Held, Buffers)
  <2>1. Held = <<>> => WithDriver = {}
    BY HeldSet DEF ToSet
  <2> QED
    BY <1>1, <2>1
<1>3. n = 0
  <2>1. WithDriver = Buffers
    BY <1>2, HeldSet DEF Holds
  <2>2. 0 \in Buffers /\ n \in Nat
    BY BufferNumbers
  <2> QED
    BY <1>1, <2>1, <2>2
<1>4. FirstBuffers(0) = <<>>
  <2>1. FirstBuffers(0) \in Seq(Buffers) /\ Len(FirstBuffers(0)) = 0
    BY BuffersInOrder, NbAssumption
  <2> QED
    BY <2>1, EmptySeq
<1>5. queue' = queue
  BY <1>1, <1>3, <1>4, ConcatEmptySeq DEF QueueTypes
<1> QED
  BY <1>2, <1>5, SameHeld

LEMMA HeldStep ==
  ASSUME StepTypes, QueueTypes, ReleasedInv, MapInv, HeldInv, [Next]_vars
  PROVE  HeldInv'
<1> USE DEF At, Goto, Fails, Succeeds, vars, driver, values, device, flags, wanted, frame, local, gtk
<1>1. CASE DriverFills
  BY <1>1, FillKeepsHeld DEF DriverFills, HeldInv, Sound
<1>2. CASE LoopTop
  BY <1>2, SameHeld DEF LoopTop, StepTypes, HeldInv, ReleasedInv, Sound, Released,
                        SetUp, Partial, Emptied, Unset
<1>3. CASE GrabStarts
  BY <1>3, SameHeld DEF GrabStarts, StreamOn, StreamOnFails, StepTypes, HeldInv,
                        ReleasedInv, Sound, Released, SetUp, Partial, Emptied, Unset
<1>4. CASE SelectTimeout
  BY <1>4, SameHeld DEF SelectTimeout, StepTypes, HeldInv, ReleasedInv, Sound,
                        Released, SetUp, Partial, Emptied, Unset
<1>5. CASE SelectReady
  BY <1>5, SameHeld DEF SelectReady, SettingAsked, StepTypes, HeldInv, ReleasedInv,
                        Sound, Released, SetUp, Partial, Emptied, Unset
<1>6. CASE Dequeue
  <2> SUFFICES ASSUME (Sound /\ cap_meth = "mmap" /\ "queue" \notin failed)'
               PROVE  HeldInv'
    BY DEF HeldInv
  <2>1. /\ vpc = "dequeue" /\ cap_meth = "mmap" /\ Sound /\ "queue" \notin failed /\ UNCHANGED queue
        /\ done # <<>>
    BY <1>6 DEF Dequeue, NextTurn, Sound, SetUp, QueueTypes
  <2>2. Holds(Held, Buffers)
    BY <2>1 DEF HeldInv, Partial, Emptied, Unset
  <2>3. CASE index' = Head(done) /\ done' = Tail(done) /\ vpc' = "requeue"
    <3>1. Held # <<>> /\ Held' = Tail(Held) /\ index' = Head(Held)
      BY <2>1, <2>3, DequeueFromHeld
    <3>2. Holds(Held', Buffers \ {index'})
      BY <3>1, <2>2, HeldSet, HoldsTail
    <3> QED
      BY <3>2, <2>3 DEF HeldInv, Partial, Emptied, Unset
  <2>4. CASE UNCHANGED done /\ vpc' \in {"top", "gone"}
    BY <2>1, <2>2, <2>4, SameHeld DEF HeldInv, Partial, Emptied, Unset
  <2> QED
    BY <1>6, <2>1, <2>3, <2>4 DEF Dequeue, NextTurn
<1>7. CASE Requeue
  <2> SUFFICES ASSUME (Sound /\ cap_meth = "mmap" /\ "queue" \notin failed)'
               PROVE  HeldInv'
    BY DEF HeldInv
  <2>1. /\ vpc = "requeue" /\ vpc' = "decode" /\ cap_meth = "mmap" /\ Sound /\ "queue" \notin failed
        /\ queue' = GivenBack /\ UNCHANGED done
    BY <1>7 DEF Requeue, Sound, SetUp
  <2>2. Holds(Held, Buffers \ {index}) /\ Held' = Append(Held, index)
    BY <2>1, RequeueToHeld DEF HeldInv
  <2>3. Holds(Held', Buffers)
    BY <2>2, HeldSet, HoldsAppend DEF QueueTypes
  <2> QED
    BY <2>1, <2>3 DEF HeldInv, Partial, Emptied, Unset
<1>8. CASE Decode
  BY <1>8, SameHeld DEF Decode, NextTurn, StepTypes, HeldInv, ReleasedInv, Sound,
                        Released, SetUp, Partial, Emptied, Unset
<1>9. CASE UseFrame
  BY <1>9, SameHeld DEF UseFrame, NextTurn, StepTypes, HeldInv, ReleasedInv, Sound,
                        Released, SetUp, Partial, Emptied, Unset
<1>10. CASE SettingStops
  <2>1. Held' = Held \/ Held' = <<>>
    BY <1>10, SameHeld, NoneHeldAfter DEF SettingStops, StreamOff
  <2>2. /\ vpc = "s stop" /\ vpc' = "s apply" /\ UNCHANGED <<cap_meth, framebuffer>>
        /\ failed \subseteq failed'
    BY <1>10 DEF SettingStops, StreamOff
  <2> QED
    BY <2>1, <2>2 DEF HeldInv, Sound, SetUp, Partial, Emptied, Unset
<1>11. CASE SettingApplies
  BY <1>11, SameHeld DEF SettingApplies, StepTypes, HeldInv, ReleasedInv, Sound,
                         Released, SetUp, Partial, Emptied, Unset
<1>12. CASE SettingReadBack
  BY <1>12, SameHeld DEF SettingReadBack, RateFlagAfter, StepTypes, HeldInv,
                         ReleasedInv, Sound, Released, SetUp, Partial, Emptied, Unset
<1>13. CASE SettingQueries
  <2>1. UNCHANGED <<queue, done, framebuffer>> /\ vpc = "s query" /\ vpc' = "s queue"
        /\ failed \subseteq failed'
    BY <1>13 DEF SettingQueries, QueryAndMap, QueryFails
  <2>2. cap_meth' = "mmap" => cap_meth = "mmap"
    BY <1>13 DEF SettingQueries, QueryAndMap, QueryFails
  <2> QED
    BY <2>1, <2>2, SameHeld DEF HeldInv, Sound, SetUp, Partial, Emptied, Unset
<1>14. CASE SettingQueues
  <2> SUFFICES ASSUME (Sound /\ cap_meth = "mmap" /\ "queue" \notin failed)'
               PROVE  Holds(Held', Buffers)
    BY <1>14 DEF HeldInv, SettingQueues, Partial, Emptied, Unset
  <2>1. /\ vpc = "s queue" /\ cap_meth = "mmap" /\ Sound /\ "queue" \notin failed
        /\ UNCHANGED done /\ (QueueAll \/ QueueFails)
    BY <1>14 DEF SettingQueues, QueueAll, QueueFails, Sound, SetUp
  <2>2. requested = TRUE /\ (Held = <<>> \/ Holds(Held, Buffers))
    BY <2>1 DEF MapInv, HeldInv, Emptied
  <2>3. CASE QueueAll
    BY <2>1, <2>3, QueueFillsHeld
  <2>4. CASE QueueFails
    BY <2>1, <2>2, <2>4, RefusedAtFirst
  <2> QED
    BY <2>1, <2>3, <2>4
<1>15. CASE SettingStarts
  BY <1>15, SameHeld DEF SettingStarts, StreamOn, StreamOnFails, QualityFlagAfter,
                         StepTypes, HeldInv, ReleasedInv, Sound, Released, SetUp,
                         Partial, Emptied, Unset
<1>16. CASE RestartCloses
  BY <1>16, SameHeld DEF RestartCloses, StreamOff, StepTypes, HeldInv, ReleasedInv,
                         Sound, Released, SetUp, Partial, Emptied, Unset
<1>17. CASE RestartFormats
  BY <1>17, SameHeld DEF RestartFormats, RestartFails, StepTypes, HeldInv,
                         ReleasedInv, Sound, Released, SetUp, Partial, Emptied, Unset
<1>18. CASE RestartApplies
  BY <1>18, SameHeld DEF RestartApplies, StepTypes, HeldInv, ReleasedInv, Sound,
                         Released, SetUp, Partial, Emptied, Unset
<1>19. CASE RestartRequests
  BY <1>19, SameHeld DEF RestartRequests, RestartFails, StepTypes, HeldInv,
                         ReleasedInv, Sound, Released, SetUp, Partial, Emptied, Unset
<1>20. CASE RestartQueries
  BY <1>20, SameHeld DEF RestartQueries, QueryAndMap, QueryFails, RestartFails,
                         StepTypes, HeldInv, ReleasedInv, Sound, Released, SetUp,
                         Partial, Emptied, Unset
<1>21. CASE RestartQueues
  <2> SUFFICES ASSUME (Sound /\ cap_meth = "mmap" /\ "queue" \notin failed)'
               PROVE  Holds(Held', Buffers) /\ vpc' = "r alloc"
    BY DEF HeldInv, Partial, Emptied, Unset
  <2>1. QueueAll /\ vpc' = "r alloc" /\ cap_meth = "mmap" /\ UNCHANGED done
    BY <1>21 DEF RestartQueues
  <2> QED
    BY <2>1, QueueFillsHeld
<1>22. CASE RestartStarts
  BY <1>22, SameHeld DEF RestartStarts, StreamOn, StreamOnFails, StepTypes, HeldInv,
                         ReleasedInv, Sound, Released, SetUp, Partial, Emptied, Unset
<1>23. CASE RestartEnds
  BY <1>23, SameHeld DEF RestartEnds, NewSize, NextTurn, StepTypes, HeldInv,
                         ReleasedInv, Sound, Released, SetUp, Partial, Emptied, Unset
<1>24. CASE ChooseRate
  BY <1>24, SameHeld DEF ChooseRate, MayChoose, StepTypes, HeldInv, ReleasedInv,
                         Sound, Released, SetUp, Partial, Emptied, Unset
<1>25. CASE ChooseQuality
  BY <1>25, SameHeld DEF ChooseQuality, MayChoose, StepTypes, HeldInv, ReleasedInv,
                         Sound, Released, SetUp, Partial, Emptied, Unset
<1>26. CASE ChooseSize
  BY <1>26, SameHeld DEF ChooseSize, MayChoose, StepTypes, HeldInv, ReleasedInv,
                         Sound, Released, SetUp, Partial, Emptied, Unset
<1>27. CASE RaiseChangeRes
  BY <1>27, SameHeld DEF RaiseChangeRes, StepTypes, HeldInv, ReleasedInv, Sound,
                         Released, SetUp, Partial, Emptied, Unset
<1>28. CASE Quit
  BY <1>28, SameHeld DEF Quit, StepTypes, HeldInv, ReleasedInv, Sound, Released,
                         SetUp, Partial, Emptied, Unset
<1>29. CASE CloseDevice
  BY <1>29, SameHeld DEF CloseDevice, StreamOff, StepTypes, HeldInv, ReleasedInv,
                         Sound, Released, SetUp, Partial, Emptied, Unset
<1>30. CASE Terminated
  BY <1>30, SameHeld DEF Terminated, StepTypes, HeldInv, ReleasedInv, Sound,
                         Released, SetUp, Partial, Emptied, Unset
<1>31. CASE UNCHANGED vars
  BY <1>31, SameHeld DEF StepTypes, HeldInv, ReleasedInv, Sound, Released, SetUp,
                         Partial, Emptied, Unset
<1>32. CASE CrashesOnFree("r close")
  BY <1>32, SameHeld DEF CrashesOnFree, StepTypes, HeldInv, ReleasedInv, Sound, Released, SetUp,
                         Partial, Emptied, Unset
<1>33. CASE signalquit /\ CrashesOnFree("gone")
  BY <1>33, SameHeld DEF CrashesOnFree, StepTypes, HeldInv, ReleasedInv, Sound, Released, SetUp,
                         Partial, Emptied, Unset
<1> QED
  BY <1>1, <1>2, <1>3, <1>4, <1>5, <1>6, <1>7, <1>8, <1>9, <1>10, <1>11, <1>12,
     <1>13, <1>14, <1>15, <1>16, <1>17, <1>18, <1>19, <1>20, <1>21, <1>22, <1>23,
     <1>24, <1>25, <1>26, <1>27, <1>28, <1>29, <1>30, <1>31, <1>32, <1>33
  DEF Next, VideoThread, uvcGrab, Setting, restart_v4l2, GtkThread

LEMMA HeldInvariance == Spec => []HeldInv
<1>1. Init => HeldInv
  BY HeldInit
<1>2. Typed /\ ReleasedInv /\ MapInv /\ HeldInv /\ [Next]_vars => HeldInv'
  BY HeldStep DEF Typed
<1> QED
  BY <1>1, <1>2, MapInvariance, PTL DEF Spec

(* Between two iterations every buffer is the driver's, once: neither a    *)
(* frame nor a change of a setting loses one; a frame is decoded from a    *)
(* buffer that is mapped, and what is unmapped or freed was mapped or      *)
(* allocated: without haste nothing crashes.                               *)
THEOREM BuffersNotLost == Spec => []NoBufferLost
<1>1. Typed /\ MapInv /\ HeldInv /\ RunsInv => NoBufferLost
  <2> SUFFICES ASSUME Typed, MapInv, HeldInv, RunsInv, framebuffer # 0, failed \cap {"query", "map"} = {}
               PROVE  /\ (vpc \in {"top", "grab"} /\ cap_meth = "mmap" /\ "queue" \notin failed)
                           => WithDriver = Buffers /\ Len(queue) + Len(done) = NB_BUFFER
                      /\ vpc \in {"top", "dequeue", "decode", "s stop", "r close", "gone"}
                           => IF cap_meth = "mmap" THEN Mapped = Buffers ELSE mem[index] = "heap"
                      /\ ~hasty => Running
    BY DEF NoBufferLost
  <2>1. Sound
    BY DEF Sound
  <2>2. ASSUME vpc \in {"top", "grab"}, cap_meth = "mmap", "queue" \notin failed
        PROVE  WithDriver = Buffers /\ Len(queue) + Len(done) = NB_BUFFER
    <3>1. Holds(Held, Buffers)
      BY <2>1, <2>2 DEF HeldInv, Partial, Emptied, Unset
    <3>2. /\ Held \in Seq(Buffers) /\ Len(Held) = Len(done) + Len(queue) /\ ToSet(Held) = WithDriver
          /\ Len(done) \in Nat /\ Len(queue) \in Nat
      BY HeldSet, LenProperties DEF Typed, QueueTypes
    <3>3. Len(Held) = NB_BUFFER
      BY <3>1, <3>2, HoldsAll
    <3>4. Len(queue) + Len(done) = Len(done) + Len(queue)
      BY <3>2
    <3> QED
      BY <3>1, <3>2, <3>3, <3>4 DEF Holds
  <2>3. ASSUME vpc \in {"top", "dequeue", "decode", "s stop", "r close", "gone"}
        PROVE  IF cap_meth = "mmap" THEN Mapped = Buffers ELSE mem[index] = "heap"
    BY <2>1, <2>3 DEF MapInv, Unset, Typed, StepTypes
  <2>4. ~hasty => Running
    BY <2>1 DEF RunsInv, Running, At, Typed, SwitchTypes
  <2> QED
    BY <2>2, <2>3, <2>4
<1> QED
  BY <1>1, MapInvariance, HeldInvariance, RunsInvariance, PTL

=============================================================================
