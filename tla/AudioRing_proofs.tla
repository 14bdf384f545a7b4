-------------------------- MODULE AudioRing_proofs --------------------------
(***************************************************************************)
(* Proofs about AudioRing, for every number and size of the buffers, every *)
(* number of loops and every bound.                                        *)
(***************************************************************************)
EXTENDS AudioRing, SequenceTheorems, TLAPS

(* The chunks of the whole ring.                                           *)
N == BufNum * BufSize

(* The position of the first chunk of a buffer.                            *)
Base(b) == b * BufSize

-----------------------------------------------------------------------------
(***************************************************************************)
(* Positions: a ring of BufNum buffers of BufSize chunks is one of N.      *)
(***************************************************************************)
LEMMA TimesMonotonic ==
  ASSUME NEW a \in Nat, NEW b \in Nat, a <= b
  PROVE  a * BufSize <= b * BufSize /\ a * BufSize \in Nat
<1>1. PICK k \in Nat : b = a + k
  <2>1. b - a \in Nat /\ b = a + (b - a)
    OBVIOUS
  <2> QED
    BY <2>1
<1>2. a * BufSize \in Nat /\ k * BufSize \in Nat
  BY RingAssumption
<1>3. b * BufSize = a * BufSize + k * BufSize
  BY <1>1, RingAssumption
<1> QED
  BY <1>2, <1>3

LEMMA RingSize ==
  /\ N \in Nat \ {0} /\ BufSize \in Nat \ {0} /\ BufNum \in Nat \ {0, 1}
  /\ N = (BufNum - 1) * BufSize + BufSize /\ (BufNum - 1) * BufSize \in Nat
  /\ (BufNum - 1) * BufSize >= BufSize
  /\ Positions = 0 .. N - 1
<1>1. BufNum - 1 \in Nat \ {0} /\ BufSize \in Nat \ {0}
  BY RingAssumption
<1>2. N = (BufNum - 1) * BufSize + BufSize
  BY RingAssumption DEF N
<1>3. (BufNum - 1) * BufSize \in Nat /\ 1 * BufSize <= (BufNum - 1) * BufSize
  <2>1. 1 \in Nat /\ BufNum - 1 \in Nat /\ 1 <= BufNum - 1
    BY RingAssumption
  <2> DEFINE k == BufNum - 1
  <2> HIDE DEF k
  <2>2. 1 * BufSize <= k * BufSize /\ k * BufSize \in Nat
    BY <2>1, TimesMonotonic DEF k
  <2> QED
    BY <2>2 DEF k
<1>4. 1 * BufSize = BufSize
  BY <1>1
<1> QED
  BY <1>1, <1>2, <1>3, <1>4, RingAssumption DEF N, Positions

LEMMA PosOf ==
  ASSUME NEW b \in Bufs, NEW c \in Chunks
  PROVE  /\ Pos(b, c) \in Positions /\ Pos(b, c) \in Nat /\ Pos(b, c) < N
         /\ Base(b) \in Nat /\ Pos(b, c) = Base(b) + c
         /\ Base(b) + BufSize <= N
<1>1. b \in Nat /\ b <= BufNum - 1 /\ BufNum - 1 \in Nat /\ c \in 0 .. BufSize - 1
  BY RingAssumption DEF Bufs, Chunks
<1>2. b * BufSize <= (BufNum - 1) * BufSize /\ b * BufSize \in Nat
  BY <1>1, TimesMonotonic
<1> QED
  BY <1>1, <1>2, RingSize DEF Pos, Base

LEMMA PosOrder ==
  ASSUME NEW b \in Bufs, NEW d \in Bufs, b < d
  PROVE  Base(b) + BufSize <= Base(d)
<1>1. b \in Nat /\ b + 1 \in Nat /\ d \in Nat /\ b + 1 <= d
  BY RingAssumption DEF Bufs
<1>2. (b + 1) * BufSize <= d * BufSize
  BY <1>1, TimesMonotonic
<1>3. (b + 1) * BufSize = b * BufSize + BufSize /\ b * BufSize \in Nat /\ d * BufSize \in Nat
  BY <1>1, RingAssumption
<1> QED
  BY <1>2, <1>3, RingAssumption DEF Base

LEMMA PosInjective ==
  ASSUME NEW b \in Bufs, NEW c \in Chunks, NEW d \in Bufs, NEW e \in Chunks,
         Pos(b, c) = Pos(d, e)
  PROVE  b = d /\ c = e
<1>1. /\ Pos(b, c) = Base(b) + c /\ Pos(d, e) = Base(d) + e
      /\ Base(b) \in Nat /\ Base(d) \in Nat
  BY PosOf
<1>2. /\ c \in 0 .. BufSize - 1 /\ e \in 0 .. BufSize - 1 /\ BufSize \in Nat
      /\ b \in Nat /\ d \in Nat
  BY RingAssumption DEF Chunks, Bufs
<1>3. Base(b) + c = Base(d) + e
  BY <1>1
<1>4. b = d
  <2>1. ASSUME b < d PROVE FALSE
    <3>1. Base(b) + BufSize <= Base(d)
      BY <2>1, PosOrder
    <3> QED
      BY <1>1, <1>2, <1>3, <3>1
  <2>2. ASSUME d < b PROVE FALSE
    <3>1. Base(d) + BufSize <= Base(b)
      BY <2>2, PosOrder
    <3> QED
      BY <1>1, <1>2, <1>3, <3>1
  <2> QED
    BY <1>2, <2>1, <2>2
<1> QED
  BY <1>1, <1>2, <1>3, <1>4

(* Moving on from the last chunk of a buffer is moving on in the ring.     *)
LEMMA PosNext ==
  ASSUME NEW b \in Bufs
  PROVE  /\ NEXT_IND(b, BufNum) \in Bufs /\ NEXT_IND(b, BufNum) # b
         /\ Base(NEXT_IND(b, BufNum)) = IF Base(b) + BufSize < N THEN Base(b) + BufSize ELSE 0
<1>1. b \in 0 .. BufNum - 1 /\ 0 \in Chunks /\ BufNum \in Nat \ {0, 1} /\ BufSize \in Nat \ {0}
  BY RingAssumption DEF Bufs, Chunks
<1>2. Base(b) \in Nat /\ Base(b) + BufSize <= N /\ Base(0) = 0
  BY <1>1, PosOf DEF Base
<1>3. CASE b + 1 < BufNum
  <2>1. NEXT_IND(b, BufNum) = b + 1 /\ b + 1 \in Bufs
    BY <1>1, <1>3 DEF NEXT_IND, Bufs
  <2>2. Base(b + 1) = Base(b) + BufSize
    BY <1>1 DEF Base
  <2>3. Base(b + 1) + BufSize <= N /\ Base(b + 1) \in Nat
    BY <1>1, <2>1, PosOf
  <2> QED
    BY <1>1, <1>2, <2>1, <2>2, <2>3, RingSize
<1>4. CASE b + 1 >= BufNum
  <2>1. NEXT_IND(b, BufNum) = 0 /\ b = BufNum - 1 /\ 0 \in Bufs
    BY <1>1, <1>4 DEF NEXT_IND, Bufs
  <2>2. Base(b) + BufSize = N
    BY <1>1, <2>1, RingSize DEF Base
  <2> QED
    BY <1>1, <1>2, <2>1, <2>2, RingSize
<1> QED
  BY <1>1, <1>3, <1>4

LEMMA ChunkNext ==
  ASSUME NEW c \in Chunks
  PROVE  NEXT_IND(c, BufSize) \in Chunks /\ NEXT_IND(c, BufSize) = IF c + 1 < BufSize THEN c + 1 ELSE 0
BY RingAssumption DEF NEXT_IND, Chunks

-----------------------------------------------------------------------------
(***************************************************************************)
(* Types.  promised is bounded by what was recorded, which needs the       *)
(* invariants of the ring below; the rest of TypeOK stands by itself, with *)
(* one iteration left to the audio thread while it runs.                   *)
(***************************************************************************)
RingTyped ==
  /\ flag \in [Bufs -> Flags]
  /\ used \in [Positions -> BOOLEAN] /\ data \in [Positions -> 0 .. MaxChunks]
  /\ bw_ind \in Bufs /\ w_ind \in Chunks /\ br_ind \in Bufs /\ r_ind \in Chunks

FlagsTyped ==
  /\ capVid \in BOOLEAN /\ aCap \in BOOLEAN /\ skip_n \in 0 .. MaxSkip /\ held \in BOOLEAN
  /\ allocated \in BOOLEAN
  /\ ipc \in IOPc /\ gpc \in {"idle", "stopping", "joining", "done"}

ThreadsTyped ==
  /\ api \in {"port", "pulse"} /\ spc \in SourcePc /\ sCap \in BOOLEAN
  /\ recorded \in 0 .. MaxChunks
  /\ apc \in AudioPc /\ lCap \in BOOLEAN /\ pCap \in BOOLEAN /\ loops \in 0 .. MaxLoops
  /\ written \in Seq(0 .. MaxChunks)
  /\ apc # "done" => loops >= 1

Typed == RingTyped /\ FlagsTyped /\ ThreadsTyped

(***************************************************************************)
(* The phases of the capture: what the position of the IO thread says      *)
(* about the other threads and the flags that start and stop them.         *)
(***************************************************************************)
Running == {"copy", "claim", "store", "flag", "next", "mark"}

PhaseInv ==
  /\ ipc = "file" => gpc = "idle" /\ ~capVid
  /\ ipc # "file" => (capVid <=> gpc = "idle")
  /\ allocated <=> ipc \in {"create", "run", "stop", "halt", "free"}
  /\ spc # "none" => ipc \in {"create", "run", "stop", "halt", "free", "none"}
  /\ ipc \in {"free", "none"} => spc \in {"none", "gone"}
  /\ apc # "none" => ipc \in {"run", "stop", "halt", "free", "none"}
  /\ ipc \in {"stop", "halt", "free"} => apc = "done"
  /\ ipc = "none" => apc \in {"none", "done"}
  /\ capVid /\ ipc \in {"init", "create", "run"} => aCap
  /\ spc \in Running /\ ~sCap => ~aCap
  /\ spc = "mark" => ~sCap
  /\ capVid => ipc \in {"capture", "init", "silent", "create", "run"}
  /\ spc = "none" => recorded = 0

LEMMA TypedIs == Typed /\ promised \in 0 .. MaxChunks => TypeOK
BY DEF Typed, RingTyped, FlagsTyped, ThreadsTyped, TypeOK

LEMMA AllAssumptions ==
  /\ BufSize \in Nat \ {0} /\ BufNum \in Nat \ {0, 1}
  /\ MaxLoops \in Nat \ {0} /\ MaxChunks \in Nat /\ MaxSkip \in Nat
BY RingAssumption, LoopsAssumption, BoundsAssumption

LEMMA TypedInit == Init => Typed
<1> SUFFICES ASSUME Init PROVE Typed
  OBVIOUS
<1> USE AllAssumptions
<1>1. RingTyped
  BY DEF Init, RingTyped, Bufs, Chunks, Flags
<1>2. FlagsTyped
  <2>1. /\ capVid \in BOOLEAN /\ aCap \in BOOLEAN /\ held \in BOOLEAN /\ allocated \in BOOLEAN
        /\ ipc \in IOPc /\ gpc \in {"idle", "stopping", "joining", "done"}
    BY Zenon DEF Init, IOPc
  <2>2. skip_n \in 0 .. MaxSkip
    BY DEF Init
  <2> QED
    BY <2>1, <2>2 DEF FlagsTyped
<1>3. ThreadsTyped
  <2>1. /\ sCap \in BOOLEAN /\ lCap \in BOOLEAN /\ pCap \in BOOLEAN
        /\ api \in {"port", "pulse"} /\ spc \in SourcePc /\ apc \in AudioPc
    BY Zenon DEF Init, SourcePc, AudioPc
  <2>2. recorded \in 0 .. MaxChunks /\ loops \in 0 .. MaxLoops /\ loops >= 1
        /\ written \in Seq(0 .. MaxChunks)
    BY DEF Init
  <2> QED
    BY <2>1, <2>2 DEF ThreadsTyped
<1> QED
  BY <1>1, <1>2, <1>3 DEF Typed

LEMMA RingTypedStep ==
  ASSUME Typed, [Next]_vars
  PROVE  RingTyped'
<1> USE AllAssumptions DEF Typed, RingTyped, Flags, ring, source, audio, rest, Returns, EndLoop
<1>1. CASE Claim
  BY <1>1 DEF Claim
<1>2. CASE StoreChunk
  <2>1. Pos(bw_ind, w_ind) \in Positions /\ recorded \in 0 .. MaxChunks
    BY PosOf DEF ThreadsTyped
  <2>2. NEXT_IND(w_ind, BufSize) \in Chunks
    BY ChunkNext
  <2> QED
    BY <1>2, <2>1, <2>2 DEF StoreChunk
<1>3. CASE FlagProcess
  BY <1>3 DEF FlagProcess
<1>4. CASE NextBuffer
  <2>1. NEXT_IND(bw_ind, BufNum) \in Bufs
    BY PosNext
  <2> QED
    BY <1>4, <2>1 DEF NextBuffer
<1>5. CASE MarkLast
  BY <1>5 DEF MarkLast
<1>6. CASE SetProcessing
  BY <1>6 DEF SetProcessing
<1>7. CASE WriteChunk
  <2>1. Pos(br_ind, r_ind) \in Positions
    BY PosOf
  <2>2. NEXT_IND(r_ind, BufSize) \in Chunks
    BY ChunkNext
  <2> QED
    BY <1>7, <2>1, <2>2 DEF WriteChunk
<1>8. CASE ReleaseBuffer
  <2>1. NEXT_IND(br_ind, BufNum) \in Bufs
    BY PosNext
  <2> QED
    BY <1>8, <2>1 DEF ReleaseBuffer, GiveBack, NextToRead
<1>9. CASE InitSound \/ FreeBuffers
  BY <1>9 DEF InitSound, FreeBuffers
<1>10. CASE UNCHANGED ring
  BY <1>10
<1>11. CASE Source
  BY <1>11, <1>1, <1>2, <1>3, <1>4, <1>5, <1>10
     DEF Source, Connect, PulseLoop, Callback, LockTwice, ChunkComplete, CallbackEnds, MarkLast
<1>12. CASE AudioThread
  BY <1>12, <1>6, <1>7, <1>8, <1>10
     DEF AudioThread, AudioLoopTop, ProcessAudio, GetFlag, NothingToDo, TestUsed
<1>13. CASE IOThread
  BY <1>13, <1>9, <1>10
     DEF IOThread, SetSound, StartAudio, InitFails, CreateAudioThread, JoinAudio, CloseStops, StopSource
<1>14. CASE GtkThread \/ PassSkip \/ Terminated \/ UNCHANGED vars
  BY <1>14, <1>10 DEF GtkThread, StopVideo, StopAudio, JoinIO, PassSkip, Terminated, vars
<1> QED
  BY <1>11, <1>12, <1>13, <1>14 DEF Next

LEMMA ThreadsTypedStep ==
  ASSUME Typed, PhaseInv, [Next]_vars
  PROVE  ThreadsTyped'
<1> USE AllAssumptions DEF Typed, ThreadsTyped, SourcePc, AudioPc, ring, source, audio, rest,
        Returns, EndLoop, NothingToDo
<1>1. aCap \in BOOLEAN /\ capVid \in BOOLEAN
  BY DEF FlagsTyped
<1>2. CASE Source
  <2>1. CASE Callback
    <3>1. sCap' \in BOOLEAN
      BY <1>1, <2>1, Zenon DEF Callback
    <3> QED
      BY <2>1, <3>1 DEF Callback
  <2> QED
    BY <1>2, <2>1
       DEF Source, Connect, PulseLoop, LockTwice, ChunkComplete, Claim, StoreChunk, FlagProcess,
           NextBuffer, CallbackEnds, MarkLast
<1>3. CASE AudioThread
  <2>1. CASE AudioLoopTop
    <3>1. lCap' \in BOOLEAN
      BY <1>1, <2>1, Zenon DEF AudioLoopTop
    <3> QED
      BY <2>1, <3>1 DEF AudioLoopTop
  <2>2. CASE ProcessAudio
    <3>1. pCap' \in BOOLEAN
      BY <1>1, <2>2, Zenon DEF ProcessAudio
    <3> QED
      BY <2>2, <3>1 DEF ProcessAudio
  <2>3. CASE WriteChunk
    <3>1. data[Pos(br_ind, r_ind)] \in 0 .. MaxChunks
      BY PosOf DEF RingTyped
    <3>2. written' \in Seq(0 .. MaxChunks)
      BY <2>3, <3>1 DEF WriteChunk
    <3> QED
      BY <2>3, <3>2 DEF WriteChunk
  <2>4. CASE GetFlag
    BY <2>4 DEF GetFlag
  <2>5. CASE TestUsed
    BY <2>5 DEF TestUsed
  <2>6. CASE ReleaseBuffer
    BY <2>6 DEF ReleaseBuffer
  <2>7. CASE SetProcessing
    BY <2>7 DEF SetProcessing
  <2> QED
    BY <1>3, <2>1, <2>2, <2>3, <2>4, <2>5, <2>6, <2>7 DEF AudioThread
<1>4. CASE IOThread
  <2>1. UNCHANGED <<api, sCap, recorded, lCap, pCap, loops, written>>
    BY <1>4
       DEF IOThread, SetSound, StartAudio, InitSound, InitFails, CreateAudioThread, JoinAudio,
           CloseStops, StopSource, FreeBuffers
  <2>2. spc' \in SourcePc /\ apc' \in AudioPc /\ (apc' = apc \/ apc = "none")
    BY <1>4
       DEF PhaseInv, IOThread, SetSound, StartAudio, InitSound, InitFails, CreateAudioThread, JoinAudio,
           CloseStops, StopSource, FreeBuffers
  <2> QED
    BY <2>1, <2>2
<1>5. CASE GtkThread \/ PassSkip \/ Terminated \/ UNCHANGED vars
  BY <1>5 DEF GtkThread, StopVideo, StopAudio, JoinIO, PassSkip, Terminated, vars
<1> QED
  BY <1>2, <1>3, <1>4, <1>5 DEF Next

LEMMA FlagsTypedStep ==
  ASSUME Typed, [Next]_vars
  PROVE  FlagsTyped'
<1> USE AllAssumptions DEF ring, source, audio, rest
<1>1. CASE Source
  <2>1. UNCHANGED <<capVid, aCap, skip_n, allocated, ipc, gpc>> /\ (held' = held \/ held' = TRUE)
    BY <1>1, Zenon
       DEF Source, Connect, PulseLoop, Callback, LockTwice, ChunkComplete, Claim, StoreChunk,
           FlagProcess, NextBuffer, CallbackEnds, MarkLast
  <2> QED
    BY <2>1, Zenon DEF Typed, FlagsTyped
<1>2. CASE AudioThread
  <2>1. UNCHANGED <<capVid, aCap, skip_n, held, allocated, ipc, gpc>>
    BY <1>2, Zenon
       DEF AudioThread, AudioLoopTop, ProcessAudio, GetFlag, SetProcessing, TestUsed,
           WriteChunk, ReleaseBuffer
  <2> QED
    BY <2>1, Zenon DEF Typed, FlagsTyped
<1>3. CASE IOThread
  <2>1. /\ capVid' = capVid \/ capVid' = TRUE
        /\ aCap' = aCap \/ aCap' = TRUE \/ aCap' = FALSE
        /\ allocated' = allocated \/ allocated' = TRUE \/ allocated' = FALSE
        /\ skip_n' = skip_n \/ skip_n' \in 0 .. MaxSkip
        /\ UNCHANGED <<held, gpc>>
    BY <1>3, Zenon
       DEF IOThread, SetSound, StartAudio, InitSound, InitFails, CreateAudioThread, JoinAudio,
           CloseStops, StopSource, FreeBuffers
  <2>2. ipc' \in IOPc
    BY <1>3, Zenon
       DEF IOThread, SetSound, StartAudio, InitSound, InitFails, CreateAudioThread, JoinAudio,
           CloseStops, StopSource, FreeBuffers, IOPc
  <2> QED
    BY <2>1, <2>2, Zenon DEF Typed, FlagsTyped
<1>4. CASE GtkThread \/ PassSkip \/ Terminated \/ UNCHANGED vars
  <2>1. /\ capVid' = capVid \/ capVid' = FALSE
        /\ aCap' = aCap \/ aCap' = FALSE
        /\ skip_n' = skip_n \/ skip_n' \in 0 .. MaxSkip
        /\ UNCHANGED <<held, allocated, ipc>>
        /\ gpc' = gpc \/ gpc' \in {"stopping", "joining", "done"}
    BY <1>4, Zenon DEF GtkThread, StopVideo, StopAudio, JoinIO, PassSkip, Terminated, vars
  <2> QED
    BY <2>1, Zenon DEF Typed, FlagsTyped
<1> QED
  BY <1>1, <1>2, <1>3, <1>4 DEF Next

LEMMA TypedStep == Typed /\ PhaseInv /\ [Next]_vars => Typed'
BY RingTypedStep, ThreadsTypedStep, FlagsTypedStep DEF Typed

LEMMA PhaseInit == Init => PhaseInv
BY DEF Init, PhaseInv, Running

LEMMA PhaseSource ==
  ASSUME Typed, PhaseInv, Source
  PROVE  PhaseInv'
<1>1. UNCHANGED <<capVid, aCap, allocated, ipc, gpc, apc>>
  BY Zenon
     DEF Source, Connect, PulseLoop, Callback, LockTwice, ChunkComplete, Claim, StoreChunk,
         FlagProcess, NextBuffer, CallbackEnds, MarkLast, ring, source, audio, rest
<1>2. spc # "none" /\ spc # "gone"
  BY DEF Source, Connect, PulseLoop, Callback, LockTwice, ChunkComplete, Claim, StoreChunk,
         FlagProcess, NextBuffer, CallbackEnds, MarkLast, Returns
<1>3. (spc' \in Running /\ ~sCap' => ~aCap) /\ (spc' = "mark" => ~sCap')
  <2> USE DEF PhaseInv, Running, ring, source, audio, rest, Returns
  <2>1. CASE Callback
    BY <2>1, Zenon DEF Callback
  <2>2. CASE CallbackEnds
    BY <2>2, Zenon DEF CallbackEnds
  <2>3. CASE ChunkComplete \/ Claim \/ StoreChunk \/ FlagProcess \/ NextBuffer
    <3>1. spc \in Running /\ sCap' = sCap /\ spc' # "mark"
      BY <2>3 DEF ChunkComplete, Claim, StoreChunk, FlagProcess, NextBuffer
    <3> QED
      BY <3>1, Zenon
  <2>4. CASE Connect \/ PulseLoop \/ LockTwice \/ MarkLast
    <3>1. spc' \notin Running
      BY <2>4 DEF Connect, PulseLoop, LockTwice, MarkLast
    <3> QED
      BY <3>1
  <2> QED
    BY <2>1, <2>2, <2>3, <2>4 DEF Source
<1>4. spc' # "none"
  BY DEF Source, Connect, PulseLoop, Callback, LockTwice, ChunkComplete, Claim, StoreChunk,
         FlagProcess, NextBuffer, CallbackEnds, MarkLast, Returns
<1> QED
  BY <1>1, <1>2, <1>3, <1>4, Zenon DEF PhaseInv

LEMMA PhaseAudio ==
  ASSUME Typed, PhaseInv, AudioThread
  PROVE  PhaseInv'
<1>1. UNCHANGED <<capVid, aCap, sCap, allocated, ipc, gpc, spc, recorded>>
  BY Zenon
     DEF AudioThread, AudioLoopTop, ProcessAudio, GetFlag, SetProcessing, TestUsed, WriteChunk,
         ReleaseBuffer, ring, source, audio, rest
<1>2. apc # "none" /\ apc # "done"
  BY DEF AudioThread, AudioLoopTop, ProcessAudio, GetFlag, SetProcessing, TestUsed, WriteChunk,
         ReleaseBuffer
<1> QED
  BY <1>1, <1>2, Zenon DEF PhaseInv

LEMMA PhaseIO ==
  ASSUME Typed, PhaseInv, IOThread
  PROVE  PhaseInv'
<1> USE DEF PhaseInv, Running, ring, source, audio, rest
<1>1. CASE SetSound
  BY <1>1, Zenon DEF SetSound
<1>2. CASE StartAudio
  BY <1>2, Zenon DEF StartAudio
<1>3. CASE InitSound
  BY <1>3, Zenon DEF InitSound
<1>4. CASE InitFails
  BY <1>4, Zenon DEF InitFails
<1>5. CASE CreateAudioThread
  BY <1>5, Zenon DEF CreateAudioThread
<1>6. CASE JoinAudio
  BY <1>6, Zenon DEF JoinAudio
<1>7. CASE CloseStops
  BY <1>7, Zenon DEF CloseStops
<1>8. CASE StopSource
  BY <1>8, Zenon DEF StopSource, SourceEnds
<1>9. CASE FreeBuffers
  BY <1>9, Zenon DEF FreeBuffers
<1> QED
  BY <1>1, <1>2, <1>3, <1>4, <1>5, <1>6, <1>7, <1>8, <1>9 DEF IOThread

LEMMA PhaseGtk ==
  ASSUME Typed, PhaseInv, GtkThread \/ PassSkip \/ Terminated \/ UNCHANGED vars
  PROVE  PhaseInv'
<1> USE DEF PhaseInv, Running, ring, source, audio, rest
<1>1. CASE StopVideo
  BY <1>1, Zenon DEF StopVideo
<1>2. CASE StopAudio
  BY <1>2, Zenon DEF StopAudio
<1>3. CASE JoinIO
  BY <1>3, Zenon DEF JoinIO
<1>4. CASE PassSkip \/ Terminated \/ UNCHANGED vars
  <2>1. UNCHANGED <<capVid, aCap, allocated, ipc, gpc, spc, sCap, recorded, apc>>
    BY <1>4, Zenon DEF PassSkip, Terminated, vars
  <2> QED
    BY <2>1, Zenon
<1> QED
  BY <1>1, <1>2, <1>3, <1>4 DEF GtkThread

LEMMA PhaseStep == Typed /\ PhaseInv /\ [Next]_vars => PhaseInv'
BY PhaseSource, PhaseAudio, PhaseIO, PhaseGtk DEF Next

-----------------------------------------------------------------------------
(***************************************************************************)
(* Who owns a buffer: the audio thread while it is marked, the source      *)
(* while it is not.                                                        *)
(***************************************************************************)
Marked(b) == flag[b] \in {"PROCESS", "PROCESSING"}

OwnerInv ==
  /\ apc \in {"set", "test", "write", "release"} => Marked(br_ind)
  /\ spc = "claim" => flag[bw_ind] = "READY"
  /\ spc \in {"store", "flag"} => flag[bw_ind] = "IN_USE"
  /\ \A b \in Bufs : flag[b] # "PROCESSED"

(* A step that leaves the buffers alone, and what it may do to the         *)
(* positions of the two threads that use them.                             *)
SourceQuiet ==
  /\ spc \in {"claim", "store", "flag", "next", "mark"} => spc' = spc
  /\ spc' \in {"flag", "next"} => spc' = spc
  /\ spc' = "claim" => spc = "claim" \/ flag[bw_ind] = "READY"
  /\ spc' = "store" => spc = "store" \/ flag[bw_ind] = "IN_USE"

AudioQuiet ==
  /\ apc \in {"set", "write", "release"} => apc' = apc
  /\ apc' = "release" => apc = "release"
  /\ apc' = "set" => apc = "set" \/ Marked(br_ind)
  /\ apc' = "test" => apc = "test" \/ Marked(br_ind)
  /\ apc' = "write" => apc = "write" \/ (apc = "test" /\ used[Pos(br_ind, r_ind)])

Quiet ==
  /\ UNCHANGED <<flag, used, data, bw_ind, w_ind, br_ind, r_ind, written>>
  /\ SourceQuiet /\ AudioQuiet

LEMMA OwnerInit == Init => OwnerInv
BY DEF Init, OwnerInv, Bufs

LEMMA Steps ==
  ASSUME Typed, PhaseInv, [Next]_vars
  PROVE  \/ Claim \/ StoreChunk \/ FlagProcess \/ NextBuffer \/ MarkLast
         \/ SetProcessing \/ WriteChunk \/ ReleaseBuffer \/ Quiet
<1> USE DEF ring, source, audio, rest
<1>1. CASE Source
  <2>1. CASE Connect \/ PulseLoop \/ Callback \/ LockTwice \/ CallbackEnds
    <3>1. /\ UNCHANGED <<flag, used, data, bw_ind, w_ind, br_ind, r_ind, written, apc>>
          /\ spc \in {"connect", "loop", "wait", "skip", "copy"}
          /\ spc' \in {"loop", "gone", "wait", "copy", "skip", "stuck", "mark"}
      BY <2>1 DEF Connect, PulseLoop, Callback, LockTwice, CallbackEnds, Returns
    <3> QED
      BY <3>1 DEF Quiet, SourceQuiet, AudioQuiet
  <2>2. CASE ChunkComplete
    <3>1. /\ UNCHANGED <<flag, used, data, bw_ind, w_ind, br_ind, r_ind, written, apc>>
          /\ spc = "copy"
          /\ spc' = "copy" \/ (spc' = "claim" /\ flag[bw_ind] = "READY")
             \/ (spc' = "store" /\ flag[bw_ind] = "IN_USE")
      BY <2>2 DEF ChunkComplete, Writable
    <3> QED
      BY <3>1 DEF Quiet, SourceQuiet, AudioQuiet
  <2> QED
    BY <1>1, <2>1, <2>2 DEF Source
<1>2. CASE AudioThread
  <2>1. CASE AudioLoopTop \/ ProcessAudio
    <3>1. /\ UNCHANGED <<flag, used, data, bw_ind, w_ind, br_ind, r_ind, written, spc>>
          /\ apc \in {"top", "process"} /\ apc' \in {"process", "flag"}
      BY <2>1 DEF AudioLoopTop, ProcessAudio
    <3> QED
      BY <3>1 DEF Quiet, SourceQuiet, AudioQuiet
  <2>2. CASE GetFlag
    <3>1. /\ UNCHANGED <<flag, used, data, bw_ind, w_ind, br_ind, r_ind, written, spc>>
          /\ apc = "flag" /\ (apc' \in {"top", "done"} \/ (apc' \in {"set", "test"} /\ Marked(br_ind)))
      BY <2>2 DEF GetFlag, NothingToDo, EndLoop, ToProcess, Marked
    <3> QED
      BY <3>1 DEF Quiet, SourceQuiet, AudioQuiet
  <2>3. CASE TestUsed
    <3>1. /\ UNCHANGED <<flag, used, data, bw_ind, w_ind, br_ind, r_ind, written, spc>>
          /\ apc = "test" /\ (apc' \in {"top", "done"} \/ (apc' = "write" /\ used[Pos(br_ind, r_ind)]))
      BY <2>3, Zenon DEF TestUsed, NothingToDo, EndLoop, ChunkUsed
    <3> QED
      BY <3>1 DEF Quiet, SourceQuiet, AudioQuiet
  <2> QED
    BY <1>2, <2>1, <2>2, <2>3 DEF AudioThread
<1>3. CASE IOThread
  <2>1. /\ UNCHANGED <<flag, used, data, bw_ind, w_ind, br_ind, r_ind, written>>
        /\ spc' = spc \/ (spc \in {"none", "wait"} /\ spc' \in {"connect", "wait", "gone"})
        /\ apc' = apc \/ (apc = "none" /\ apc' = "top")
    BY <1>3
       DEF IOThread, SetSound, StartAudio, InitSound, InitFails, CreateAudioThread, JoinAudio,
           CloseStops, StopSource, FreeBuffers, PhaseInv
  <2> QED
    BY <2>1 DEF Quiet, SourceQuiet, AudioQuiet
<1>4. CASE GtkThread \/ PassSkip \/ Terminated \/ UNCHANGED vars
  <2>1. UNCHANGED <<flag, used, data, bw_ind, w_ind, br_ind, r_ind, written, spc, apc>>
    BY <1>4 DEF GtkThread, StopVideo, StopAudio, JoinIO, PassSkip, Terminated, vars
  <2> QED
    BY <2>1 DEF Quiet, SourceQuiet, AudioQuiet
<1> QED
  BY <1>1, <1>2, <1>3, <1>4 DEF Next

LEMMA OwnerStep == Typed /\ PhaseInv /\ OwnerInv /\ [Next]_vars => OwnerInv'
<1> SUFFICES ASSUME Typed, PhaseInv, OwnerInv, [Next]_vars
             PROVE  OwnerInv'
  OBVIOUS
<1> USE DEF OwnerInv, Marked, Typed, RingTyped, ring, source, audio, rest
<1>1. CASE Claim
  BY <1>1 DEF Claim
<1>2. CASE StoreChunk
  BY <1>2 DEF StoreChunk
<1>3. CASE FlagProcess
  BY <1>3 DEF FlagProcess
<1>4. CASE NextBuffer
  <2>1. NEXT_IND(bw_ind, BufNum) \in Bufs
    BY PosNext
  <2> QED
    BY <1>4, <2>1 DEF NextBuffer
<1>5. CASE MarkLast
  BY <1>5 DEF MarkLast, Returns
<1>6. CASE SetProcessing
  BY <1>6 DEF SetProcessing
<1>7. CASE WriteChunk
  BY <1>7 DEF WriteChunk, EndLoop
<1>8. CASE ReleaseBuffer
  <2>1. NEXT_IND(br_ind, BufNum) \in Bufs
    BY PosNext
  <2> QED
    BY <1>8, <2>1 DEF ReleaseBuffer, GiveBack, NextToRead, EndLoop
<1>9. CASE Quiet
  BY <1>9 DEF Quiet, SourceQuiet, AudioQuiet
<1> QED
  BY <1>1, <1>2, <1>3, <1>4, <1>5, <1>6, <1>7, <1>8, <1>9, Steps

LEMMA OwnersAreTwo == Typed /\ PhaseInv /\ OwnerInv => OneOwner
BY DEF Typed, RingTyped, ThreadsTyped, FlagsTyped, PhaseInv, OwnerInv, Marked, OneOwner, SourcePc, AudioPc, IOPc

LEMMA OwnerInvariance == Spec => [](Typed /\ PhaseInv /\ OwnerInv)
<1>1. Init => Typed /\ PhaseInv /\ OwnerInv
  BY TypedInit, PhaseInit, OwnerInit
<1>2. (Typed /\ PhaseInv /\ OwnerInv) /\ [Next]_vars => (Typed /\ PhaseInv /\ OwnerInv)'
  BY TypedStep, PhaseStep, OwnerStep
<1> QED
  BY <1>1, <1>2, PTL DEF Spec

(* Theorem: the source and the audio thread never work on the same buffer, *)
(* though what is in it is touched without the mutex, and the buffers are  *)
(* freed when neither thread can use them any more.                        *)
THEOREM BuffersOwned == Spec => []OneOwner
BY OwnerInvariance, OwnersAreTwo, PTL

-----------------------------------------------------------------------------
(***************************************************************************)
(* The two levels are one ring: the chunks that are used are the Occupancy *)
(* positions from ReadPos on, whatever buffers they are in.                *)
(***************************************************************************)

(* How far a position is ahead of the next one to read.                    *)
Ahead(p) == IF p >= ReadPos THEN p - ReadPos ELSE p - ReadPos + N

Move(p) == IF p + 1 < N THEN p + 1 ELSE 0

RingInv ==
  /\ \A p \in Positions : used[p] <=> Ahead(p) < Occupancy
  /\ apc = "write" => used[ReadPos]

LEMMA OccupancyIs ==
  Occupancy = IF WritePos > ReadPos THEN WritePos - ReadPos
              ELSE IF WritePos < ReadPos THEN (N - ReadPos) + WritePos
              ELSE IF used[ReadPos] THEN N ELSE 0
BY DEF Occupancy, N

LEMMA PlacesTyped ==
  ASSUME RingTyped
  PROVE  /\ ReadPos \in 0 .. N - 1 /\ WritePos \in 0 .. N - 1 /\ N \in Nat /\ N >= 2
         /\ Occupancy \in 0 .. N
         /\ \A p \in Positions : p \in 0 .. N - 1 /\ Ahead(p) \in 0 .. N - 1
         /\ used \in [0 .. N - 1 -> BOOLEAN]
<1>1. N \in Nat /\ N >= 2 /\ Positions = 0 .. N - 1
  BY RingSize
<1>2. ReadPos \in 0 .. N - 1 /\ WritePos \in 0 .. N - 1
  <2>1. NEXT_IND(br_ind, BufNum) \in Bufs /\ NEXT_IND(bw_ind, BufNum) \in Bufs
    BY PosNext DEF RingTyped
  <2>2. \A b \in Bufs, c \in Chunks : Pos(b, c) \in 0 .. N - 1
    BY PosOf, <1>1
  <2> QED
    BY <2>1, <2>2 DEF RingTyped, ReadPos, WritePos
<1>3. Occupancy \in 0 .. N
  BY <1>1, <1>2 DEF Occupancy, N
<1>4. \A p \in Positions : Ahead(p) \in 0 .. N - 1
  BY <1>1, <1>2 DEF Ahead
<1> QED
  BY <1>1, <1>2, <1>3, <1>4 DEF RingTyped

PlacesOK ==
  /\ ReadPos \in 0 .. N - 1 /\ WritePos \in 0 .. N - 1 /\ Occupancy \in 0 .. N
  /\ \A p \in Positions : Ahead(p) \in 0 .. N - 1

LEMMA PlacesTypedAfter == RingTyped' => PlacesOK'
<1>1. RingTyped => PlacesOK
  BY PlacesTyped DEF PlacesOK
<1> QED
  BY <1>1, PTL

(* Storing a chunk and writing one out move an end of the ring by one.     *)
LEMMA StoreMoves ==
  ASSUME RingTyped, StoreChunk
  PROVE  /\ WritePos = Pos(bw_ind, w_ind) /\ WritePos' = Move(WritePos) /\ ReadPos' = ReadPos
         /\ used' = [used EXCEPT ![WritePos] = TRUE]
         /\ data' = [data EXCEPT ![WritePos] = recorded]
<1> USE DEF RingTyped
<1>1. WritePos = Pos(bw_ind, w_ind)
  BY DEF StoreChunk, WritePos
<1>2. UNCHANGED <<apc, br_ind, r_ind, bw_ind>>
  BY DEF StoreChunk, audio
<1>3. ReadPos' = ReadPos
  BY <1>2 DEF ReadPos
<1>4. WritePos' = Move(WritePos)
  <2>1. /\ Base(bw_ind) \in Nat /\ Pos(bw_ind, w_ind) = Base(bw_ind) + w_ind
        /\ Base(bw_ind) + BufSize <= N /\ N \in Nat
    BY PosOf, RingSize
  <2>2. w_ind \in 0 .. BufSize - 1 /\ BufSize \in Nat \ {0}
    BY RingAssumption DEF Chunks
  <2>3. w_ind' = IF w_ind + 1 < BufSize THEN w_ind + 1 ELSE 0
    BY ChunkNext DEF StoreChunk
  <2>4. CASE w_ind + 1 < BufSize
    <3>1. spc' = "copy" /\ w_ind' = w_ind + 1 /\ w_ind' \in Chunks
      BY <2>2, <2>3, <2>4 DEF StoreChunk, Chunks
    <3>2. WritePos' = Pos(bw_ind, w_ind + 1)
      BY <1>2, <3>1 DEF WritePos
    <3>3. Pos(bw_ind, w_ind + 1) = Base(bw_ind) + (w_ind + 1)
      BY <3>1, PosOf
    <3> QED
      BY <1>1, <2>1, <2>2, <2>4, <3>2, <3>3 DEF Move
  <2>5. CASE ~(w_ind + 1 < BufSize)
    <3>1. spc' = "flag" /\ w_ind' = 0 /\ 0 \in Chunks
      BY <2>2, <2>3, <2>5 DEF StoreChunk, Chunks
    <3>2. WritePos' = Pos(NEXT_IND(bw_ind, BufNum), 0)
      BY <1>2, <3>1 DEF WritePos
    <3>3. WritePos' = Base(NEXT_IND(bw_ind, BufNum)) + 0 /\ Base(NEXT_IND(bw_ind, BufNum)) \in Nat
      BY <3>1, <3>2, PosNext, PosOf
    <3>4. Base(NEXT_IND(bw_ind, BufNum)) = IF Base(bw_ind) + BufSize < N THEN Base(bw_ind) + BufSize ELSE 0
      BY PosNext
    <3> QED
      BY <1>1, <2>1, <2>2, <2>5, <3>3, <3>4 DEF Move
  <2> QED
    BY <2>4, <2>5
<1> QED
  BY <1>1, <1>3, <1>4 DEF StoreChunk

LEMMA WriteMoves ==
  ASSUME RingTyped, WriteChunk
  PROVE  /\ ReadPos = Pos(br_ind, r_ind) /\ ReadPos' = Move(ReadPos) /\ WritePos' = WritePos
         /\ used' = [used EXCEPT ![ReadPos] = FALSE]
         /\ written' = Append(written, data[ReadPos])
<1> USE DEF RingTyped
<1>1. ReadPos = Pos(br_ind, r_ind)
  BY DEF WriteChunk, ReadPos
<1>2. UNCHANGED <<spc, bw_ind, w_ind, br_ind>>
  BY DEF WriteChunk, source
<1>3. WritePos' = WritePos
  BY <1>2 DEF WritePos
<1>4. ReadPos' = Move(ReadPos)
  <2>1. /\ Base(br_ind) \in Nat /\ Pos(br_ind, r_ind) = Base(br_ind) + r_ind
        /\ Base(br_ind) + BufSize <= N /\ N \in Nat
    BY PosOf, RingSize
  <2>2. r_ind \in 0 .. BufSize - 1 /\ BufSize \in Nat \ {0}
    BY RingAssumption DEF Chunks
  <2>3. r_ind' = IF r_ind + 1 < BufSize THEN r_ind + 1 ELSE 0
    BY ChunkNext DEF WriteChunk
  <2>4. CASE r_ind + 1 < BufSize
    <3>1. apc' # "release" /\ r_ind' = r_ind + 1 /\ r_ind' \in Chunks
      BY <2>2, <2>3, <2>4 DEF WriteChunk, EndLoop, Chunks
    <3>2. ReadPos' = Pos(br_ind, r_ind + 1)
      BY <1>2, <3>1 DEF ReadPos
    <3>3. Pos(br_ind, r_ind + 1) = Base(br_ind) + (r_ind + 1)
      BY <3>1, PosOf
    <3> QED
      BY <1>1, <2>1, <2>2, <2>4, <3>2, <3>3 DEF Move
  <2>5. CASE ~(r_ind + 1 < BufSize)
    <3>1. apc' = "release" /\ r_ind' = 0 /\ 0 \in Chunks
      BY <2>2, <2>3, <2>5 DEF WriteChunk, Chunks
    <3>2. ReadPos' = Pos(NEXT_IND(br_ind, BufNum), 0)
      BY <1>2, <3>1 DEF ReadPos
    <3>3. ReadPos' = Base(NEXT_IND(br_ind, BufNum)) + 0 /\ Base(NEXT_IND(br_ind, BufNum)) \in Nat
      BY <3>1, <3>2, PosNext, PosOf
    <3>4. Base(NEXT_IND(br_ind, BufNum)) = IF Base(br_ind) + BufSize < N THEN Base(br_ind) + BufSize ELSE 0
      BY PosNext
    <3> QED
      BY <1>1, <2>1, <2>2, <2>5, <3>3, <3>4 DEF Move
  <2> QED
    BY <2>4, <2>5
<1> QED
  BY <1>1, <1>3, <1>4 DEF WriteChunk

(* Every other step leaves the ring as it is.                              *)
Still ==
  /\ UNCHANGED <<used, data, w_ind, r_ind, written>>
  /\ ReadPos' = ReadPos /\ WritePos' = WritePos /\ Occupancy' = Occupancy
  /\ \A p \in Positions : Ahead(p)' = Ahead(p)
  /\ apc' = "write" => apc = "write" \/ (apc = "test" /\ used[ReadPos])
  /\ spc' \in {"claim", "store"} => spc \in {"claim", "store"} \/ recorded' = recorded + 1
  /\ spc' = "flag" => spc = "flag"

FreeInv ==
  /\ \A b \in Bufs, c \in Chunks :
       ~Marked(b) /\ used[Pos(b, c)] => b = bw_ind /\ (c < w_ind \/ spc = "flag")
  /\ r_ind > 0 => Marked(br_ind)
  /\ \A c \in Chunks : c < r_ind => ~used[Pos(br_ind, c)]
  /\ apc = "release" => r_ind = 0 /\ \A c \in Chunks : ~used[Pos(br_ind, c)]
  /\ spc \in {"flag", "next"} => w_ind = 0

LEMMA StillFrom ==
  ASSUME UNCHANGED <<used, data, w_ind, r_ind, written>>, ReadPos' = ReadPos, WritePos' = WritePos
  PROVE  Occupancy' = Occupancy /\ \A p \in Positions : Ahead(p)' = Ahead(p)
BY DEF Occupancy, Ahead

LEMMA OtherSteps ==
  ASSUME Typed, PhaseInv, OwnerInv, FreeInv, [Next]_vars
  PROVE  StoreChunk \/ WriteChunk \/ Still
<1> USE DEF ring, source, audio, rest
<1>1. ASSUME Claim \/ FlagProcess \/ NextBuffer \/ MarkLast \/ SetProcessing \/ ReleaseBuffer \/ Quiet
      PROVE  /\ UNCHANGED <<used, data, w_ind, r_ind, written>>
             /\ ReadPos' = ReadPos /\ WritePos' = WritePos
             /\ apc' = "write" => apc = "write" \/ (apc = "test" /\ used[ReadPos])
             /\ spc' = "flag" => spc = "flag"
  <2>1. CASE Claim
    BY <2>1 DEF Claim, ReadPos, WritePos
  <2>2. CASE FlagProcess
    BY <2>2 DEF FlagProcess, ReadPos, WritePos
  <2>3. CASE NextBuffer
    BY <2>3 DEF NextBuffer, ReadPos, WritePos
  <2>4. CASE MarkLast
    BY <2>4 DEF MarkLast, Returns, ReadPos, WritePos
  <2>5. CASE SetProcessing
    BY <2>5 DEF SetProcessing, ReadPos, WritePos
  <2>6. CASE ReleaseBuffer
    BY <2>6 DEF ReleaseBuffer, NextToRead, EndLoop, ReadPos, WritePos
  <2>7. CASE Quiet
    <3>1. (apc' = "release") <=> (apc = "release")
      BY <2>7 DEF Quiet, AudioQuiet
    <3>2. (spc' \in {"flag", "next"}) <=> (spc \in {"flag", "next"})
      BY <2>7 DEF Quiet, SourceQuiet
    <3> QED
      BY <2>7, <3>1, <3>2 DEF Quiet, SourceQuiet, AudioQuiet, ReadPos, WritePos
  <2> QED
    BY <1>1, <2>1, <2>2, <2>3, <2>4, <2>5, <2>6, <2>7
<1>2. ASSUME spc' \in {"claim", "store"}, ~(spc \in {"claim", "store"})
      PROVE  recorded' = recorded + 1
  <2>1. CASE Source
    BY <1>2, <2>1 DEF Source, Connect, PulseLoop, Callback, LockTwice, ChunkComplete, Claim, StoreChunk, FlagProcess,
         NextBuffer, CallbackEnds, MarkLast, Returns
  <2>2. CASE AudioThread \/ GtkThread \/ PassSkip \/ Terminated \/ UNCHANGED vars
    <3>1. spc' = spc
      BY <2>2 DEF AudioThread, AudioLoopTop, ProcessAudio, GetFlag, SetProcessing, TestUsed, WriteChunk, ReleaseBuffer,
                  GtkThread, StopVideo, StopAudio, JoinIO, PassSkip, Terminated, vars
    <3> QED
      BY <1>2, <3>1
  <2>3. CASE IOThread
    <3>1. spc' = spc \/ spc' \in {"connect", "wait", "gone"}
      BY <2>3
         DEF IOThread, SetSound, StartAudio, InitSound, InitFails, CreateAudioThread, JoinAudio,
             CloseStops, StopSource, FreeBuffers
    <3> QED
      BY <1>2, <3>1
  <2> QED
    BY <2>1, <2>2, <2>3 DEF Next
<1>3. CASE Claim \/ FlagProcess \/ NextBuffer \/ MarkLast \/ SetProcessing \/ ReleaseBuffer \/ Quiet
  BY <1>1, <1>2, <1>3, StillFrom DEF Still
<1> QED
  BY <1>3, Steps

(* What the steps do to the marks.                                         *)
LEMMA MarkedAfter ==
  ASSUME Typed, PhaseInv, OwnerInv, [Next]_vars, NEW b \in Bufs
  PROVE  /\ FlagProcess \/ MarkLast => (Marked(b)' <=> Marked(b) \/ b = bw_ind)
         /\ ReleaseBuffer => (Marked(b)' <=> Marked(b) /\ b # br_ind)
         /\ FlagProcess \/ MarkLast \/ ReleaseBuffer \/ (Marked(b)' <=> Marked(b))
<1> USE DEF Marked, Typed, RingTyped, OwnerInv, ring, source, audio, rest
<1>1. CASE Claim
  BY <1>1 DEF Claim, FlagProcess, MarkLast, ReleaseBuffer
<1>2. CASE StoreChunk
  BY <1>2 DEF StoreChunk, FlagProcess, MarkLast, ReleaseBuffer
<1>3. CASE FlagProcess
  BY <1>3 DEF FlagProcess, ReleaseBuffer
<1>4. CASE NextBuffer
  <2>1. NEXT_IND(bw_ind, BufNum) \in Bufs
    BY PosNext
  <2> QED
    BY <1>4, <2>1 DEF NextBuffer, FlagProcess, MarkLast, ReleaseBuffer
<1>5. CASE MarkLast
  BY <1>5 DEF MarkLast, ReleaseBuffer, Returns
<1>6. CASE SetProcessing
  BY <1>6 DEF SetProcessing, FlagProcess, MarkLast, ReleaseBuffer
<1>7. CASE WriteChunk
  BY <1>7 DEF WriteChunk, FlagProcess, MarkLast, ReleaseBuffer
<1>8. CASE ReleaseBuffer
  BY <1>8 DEF ReleaseBuffer, GiveBack, FlagProcess, MarkLast
<1>9. CASE Quiet
  <2>1. flag' = flag
    BY <1>9 DEF Quiet
  <2> QED
    BY <2>1 DEF FlagProcess, MarkLast, ReleaseBuffer, GiveBack
<1> QED
  BY <1>1, <1>2, <1>3, <1>4, <1>5, <1>6, <1>7, <1>8, <1>9, Steps

(* The place a chunk is stored in is free, so there is room.               *)
LEMMA PlaceFree ==
  ASSUME Typed, OwnerInv, FreeInv, RingInv, spc = "store"
  PROVE  ~used[WritePos] /\ Occupancy < N
<1>1. bw_ind \in Bufs /\ w_ind \in Chunks /\ w_ind \in 0 .. BufSize - 1
  BY DEF Typed, RingTyped, Chunks
<1>2. WritePos = Pos(bw_ind, w_ind) /\ WritePos \in Positions
  BY <1>1, PosOf DEF WritePos
<1>3. ~Marked(bw_ind)
  BY DEF OwnerInv, Marked
<1>4. ~used[WritePos]
  BY <1>1, <1>2, <1>3, RingAssumption DEF FreeInv
<1>5. Ahead(WritePos) \in 0 .. N - 1 /\ Occupancy \in 0 .. N
  BY <1>2, PlacesTyped DEF Typed
<1>6. ~(Ahead(WritePos) < Occupancy)
  BY <1>2, <1>4 DEF RingInv
<1> QED
  BY <1>4, <1>5, <1>6, RingSize

(* Storing adds a chunk at the end of the ring, ...                        *)
LEMMA StoreCounts ==
  ASSUME Typed, OwnerInv, FreeInv, RingInv, StoreChunk
  PROVE  /\ Occupancy' = Occupancy + 1
         /\ \A p \in Positions : Ahead(p)' = Ahead(p)
         /\ Ahead(WritePos) = Occupancy
<1>1. /\ WritePos' = Move(WritePos) /\ ReadPos' = ReadPos
      /\ used' = [used EXCEPT ![WritePos] = TRUE]
  BY StoreMoves DEF Typed
<1>2. ~used[WritePos]
  BY PlaceFree DEF StoreChunk
<1>3. /\ ReadPos \in 0 .. N - 1 /\ WritePos \in 0 .. N - 1 /\ N \in Nat /\ N >= 2
      /\ used \in [0 .. N - 1 -> BOOLEAN] /\ Positions = 0 .. N - 1
  BY PlacesTyped, RingSize DEF Typed
<1>4. used[ReadPos] <=> 0 < Occupancy
  BY <1>3 DEF RingInv, Ahead
<1>5. BufNum * BufSize = N
  BY DEF N
<1> DEFINE n == N
<1>6. Occupancy = IF WritePos > ReadPos THEN WritePos - ReadPos
                  ELSE IF WritePos < ReadPos THEN (n - ReadPos) + WritePos
                  ELSE IF used[ReadPos] THEN n ELSE 0
  BY <1>5 DEF Occupancy
<1>7. Occupancy' = IF WritePos' > ReadPos' THEN WritePos' - ReadPos'
                   ELSE IF WritePos' < ReadPos' THEN (n - ReadPos') + WritePos'
                   ELSE IF used'[ReadPos'] THEN n ELSE 0
  BY <1>5 DEF Occupancy
<1>8. used'[ReadPos] <=> used[ReadPos] \/ ReadPos = WritePos
  BY <1>1, <1>3
<1>9. WritePos # ReadPos \/ ~used[ReadPos]
  BY <1>2
<1>10. Move(WritePos) = IF WritePos + 1 < n THEN WritePos + 1 ELSE 0
  BY DEF Move
<1>11. Occupancy' = Occupancy + 1
  <2> HIDE DEF n
  <2> DEFINE r == ReadPos  w == WritePos  ur == used[ReadPos]  m == Move(WritePos)
  <2>1. r \in 0 .. n - 1 /\ w \in 0 .. n - 1 /\ n \in Nat /\ n >= 2
    BY <1>3 DEF n
  <2>2. CASE w > r
    BY <2>1, <2>2, <1>1, <1>3, <1>4, <1>6, <1>7, <1>8, <1>10
  <2>3. CASE w < r
    BY <2>1, <2>3, <1>1, <1>3, <1>4, <1>6, <1>7, <1>8, <1>10
  <2>4. CASE w = r
    BY <2>1, <2>4, <1>1, <1>3, <1>4, <1>6, <1>7, <1>8, <1>9, <1>10
  <2> QED
    BY <2>1, <2>2, <2>3, <2>4
<1>12. \A p \in Positions : Ahead(p)' = Ahead(p)
  BY <1>1 DEF Ahead
<1>13. Ahead(WritePos) = Occupancy
  BY <1>3, <1>6, <1>9 DEF Ahead
<1> QED
  BY <1>11, <1>12, <1>13

(* ... and writing one out takes the first one away.                       *)
LEMMA WriteCounts ==
  ASSUME Typed, RingInv, WriteChunk
  PROVE  /\ Occupancy' = Occupancy - 1 /\ Occupancy >= 1 /\ used[ReadPos]
         /\ Ahead(ReadPos) = 0
         /\ \A p \in Positions : Ahead(p)' = IF p = ReadPos THEN N - 1 ELSE Ahead(p) - 1
<1>1. /\ ReadPos' = Move(ReadPos) /\ WritePos' = WritePos
      /\ used' = [used EXCEPT ![ReadPos] = FALSE]
  BY WriteMoves DEF Typed
<1>2. used[ReadPos]
  BY DEF RingInv, WriteChunk
<1>3. /\ ReadPos \in 0 .. N - 1 /\ WritePos \in 0 .. N - 1 /\ N \in Nat /\ N >= 2
      /\ used \in [0 .. N - 1 -> BOOLEAN] /\ Positions = 0 .. N - 1
  BY PlacesTyped, RingSize DEF Typed
<1>4. Occupancy = IF WritePos > ReadPos THEN WritePos - ReadPos
                  ELSE IF WritePos < ReadPos THEN (N - ReadPos) + WritePos
                  ELSE IF used[ReadPos] THEN N ELSE 0
  BY OccupancyIs
<1>5. Occupancy' = IF WritePos' > ReadPos' THEN WritePos' - ReadPos'
                   ELSE IF WritePos' < ReadPos' THEN (N - ReadPos') + WritePos'
                   ELSE IF used'[ReadPos'] THEN N ELSE 0
  BY DEF Occupancy, N
<1>6. Move(ReadPos) = IF ReadPos + 1 < N THEN ReadPos + 1 ELSE 0
  BY DEF Move
<1>7. \A p \in Positions : (used[p] <=> Ahead(p) < Occupancy)
  BY DEF RingInv
<1>8. \A p \in Positions : /\ Ahead(p) = IF p >= ReadPos THEN p - ReadPos ELSE p - ReadPos + N
                           /\ Ahead(p)' = IF p >= ReadPos' THEN p - ReadPos' ELSE p - ReadPos' + N
  BY DEF Ahead
<1>9. ReadPos' \in Positions /\ (ReadPos' # ReadPos) /\ Ahead(ReadPos') = 1
  BY <1>1, <1>3, <1>6 DEF Ahead
<1>10. used'[ReadPos'] <=> 1 < Occupancy
  BY <1>1, <1>3, <1>7, <1>9
<1>11. Occupancy' = Occupancy - 1 /\ Occupancy >= 1
  BY <1>1, <1>2, <1>3, <1>4, <1>5, <1>6, <1>10
<1>12. Ahead(ReadPos) = 0
  BY <1>3, <1>8
<1>13. ASSUME NEW p \in Positions
       PROVE  Ahead(p)' = IF p = ReadPos THEN N - 1 ELSE Ahead(p) - 1
  <2>1. Ahead(p)' = IF p >= Move(ReadPos) THEN p - Move(ReadPos) ELSE p - Move(ReadPos) + N
    BY <1>1 DEF Ahead
  <2>2. p \in 0 .. N - 1
    BY <1>3
  <2> QED
    BY <1>3, <1>6, <2>1, <2>2 DEF Ahead
<1> QED
  BY <1>2, <1>11, <1>12, <1>13

LEMMA RingStep ==
  ASSUME Typed, PhaseInv, OwnerInv, FreeInv, RingInv, [Next]_vars
  PROVE  RingInv'
<1>1. CASE StoreChunk
  <2>1. /\ Occupancy' = Occupancy + 1 /\ Ahead(WritePos) = Occupancy
        /\ \A p \in Positions : Ahead(p)' = Ahead(p)
    BY <1>1, StoreCounts
  <2>2. /\ ReadPos' = ReadPos /\ used' = [used EXCEPT ![WritePos] = TRUE]
        /\ apc' = apc
    BY <1>1, StoreMoves DEF Typed, StoreChunk, audio
  <2>3. /\ \A p \in Positions : Ahead(p) \in Nat
        /\ WritePos \in Positions /\ ReadPos \in Positions /\ Occupancy \in Nat
    BY PlacesTyped, RingSize DEF Typed
  <2>4. \A p \in Positions : Ahead(p) = Occupancy => p = WritePos
    BY <2>1, PlacesTyped, RingSize, SMTT(30) DEF Ahead, Typed
  <2>5. \A p \in Positions : used'[p] <=> Ahead(p)' < Occupancy'
    BY <2>1, <2>2, <2>3, <2>4 DEF RingInv, Typed, RingTyped
  <2>6. apc' = "write" => used'[ReadPos']
    BY <2>2, <2>3 DEF RingInv, Typed, RingTyped
  <2> QED
    BY <2>5, <2>6 DEF RingInv
<1>2. CASE WriteChunk
  <2>1. /\ Occupancy' = Occupancy - 1 /\ Occupancy >= 1 /\ Ahead(ReadPos) = 0
        /\ \A p \in Positions : Ahead(p)' = IF p = ReadPos THEN N - 1 ELSE Ahead(p) - 1
    BY <1>2, WriteCounts
  <2>2. used' = [used EXCEPT ![ReadPos] = FALSE] /\ apc' # "write"
    BY <1>2, WriteMoves DEF Typed, WriteChunk, EndLoop
  <2>3. /\ \A p \in Positions : Ahead(p) \in Nat
        /\ Occupancy \in 0 .. N /\ N \in Nat
    BY PlacesTyped, RingSize DEF Typed
  <2>4. ASSUME NEW p \in Positions PROVE used'[p] <=> Ahead(p)' < Occupancy'
    <3>1. used[p] <=> Ahead(p) < Occupancy
      BY DEF RingInv
    <3>2. used'[p] <=> used[p] /\ p # ReadPos
      BY <2>2 DEF Typed, RingTyped
    <3>3. p # ReadPos => Ahead(p) > 0
      BY PlacesTyped, RingSize DEF Ahead, Typed
    <3> QED
      BY <2>1, <2>3, <3>1, <3>2
  <2> QED
    BY <2>2, <2>4 DEF RingInv
<1>3. CASE Still
  BY <1>3 DEF Still, RingInv
<1> QED
  BY <1>1, <1>2, <1>3, OtherSteps

-----------------------------------------------------------------------------
(***************************************************************************)
(* What is in the buffers: one that is not marked holds chunks only if it  *)
(* is the one being filled, up to w_ind (FreeInv); until the source ends,  *)
(* a marked one is full but for what the audio thread has taken, and the   *)
(* source waits only for the buffer the audio thread reads (FilledInv).    *)
(***************************************************************************)
LEMMA UsedAfter ==
  ASSUME Typed, NEW b \in Bufs, NEW c \in Chunks
  PROVE  /\ StoreChunk => (used'[Pos(b, c)] <=> used[Pos(b, c)] \/ (b = bw_ind /\ c = w_ind))
         /\ WriteChunk => (used'[Pos(b, c)] <=> used[Pos(b, c)] /\ ~(b = br_ind /\ c = r_ind))
<1>1. Pos(b, c) \in Positions
  BY PosOf
<1>2. bw_ind \in Bufs /\ w_ind \in Chunks /\ br_ind \in Bufs /\ r_ind \in Chunks
      /\ used \in [Positions -> BOOLEAN]
  BY DEF Typed, RingTyped
<1>3. Pos(b, c) = Pos(bw_ind, w_ind) <=> b = bw_ind /\ c = w_ind
  BY <1>2, PosInjective
<1>4. Pos(b, c) = Pos(br_ind, r_ind) <=> b = br_ind /\ c = r_ind
  BY <1>2, PosInjective
<1> QED
  BY <1>1, <1>2, <1>3, <1>4 DEF StoreChunk, WriteChunk

LEMMA ChunksAreNat ==
  /\ 0 \in Chunks /\ BufSize \in Nat \ {0} /\ Chunks = 0 .. BufSize - 1
  /\ \A c \in Chunks : c \in Nat /\ c < BufSize
BY RingAssumption DEF Chunks

LEMMA FreeInit == Init => FreeInv
BY PosOf DEF Init, FreeInv, Chunks

LEMMA FreeStore ==
  ASSUME Typed, OwnerInv, FreeInv, StoreChunk
  PROVE  FreeInv'
<1> USE ChunksAreNat DEF Typed, RingTyped
<1>1. /\ UNCHANGED <<flag, bw_ind, br_ind, r_ind, apc>> /\ spc = "store"
      /\ spc' = IF w_ind' = 0 THEN "flag" ELSE "copy"
      /\ w_ind' = IF w_ind + 1 < BufSize THEN w_ind + 1 ELSE 0
  BY ChunkNext DEF StoreChunk, audio
<1>2. ~Marked(bw_ind) /\ \A b \in Bufs : Marked(b)' <=> Marked(b)
  BY <1>1 DEF OwnerInv, Marked
<1>3. \A b \in Bufs, c \in Chunks : used'[Pos(b, c)] <=> used[Pos(b, c)] \/ (b = bw_ind /\ c = w_ind)
  BY UsedAfter
<1>4. (\A b \in Bufs, c \in Chunks :
       ~Marked(b) /\ used[Pos(b, c)] => b = bw_ind /\ (c < w_ind \/ spc = "flag"))'
  <2> SUFFICES ASSUME NEW b \in Bufs, NEW c \in Chunks, ~Marked(b)', used'[Pos(b, c)]
               PROVE  b = bw_ind' /\ (c < w_ind' \/ spc' = "flag")
    OBVIOUS
  <2>1. b = bw_ind /\ (c < w_ind \/ c = w_ind)
    BY <1>1, <1>2, <1>3 DEF FreeInv
  <2> QED
    BY <1>1, <2>1
<1>5. (r_ind > 0 => Marked(br_ind))'
  <2>1. r_ind' = r_ind /\ (Marked(br_ind)' <=> Marked(br_ind))
    BY <1>1 DEF Marked
  <2> QED
    BY <2>1 DEF FreeInv
<1>6. (\A c \in Chunks : c < r_ind => ~used[Pos(br_ind, c)])'
  <2> SUFFICES ASSUME NEW c \in Chunks, c < r_ind PROVE ~used'[Pos(br_ind, c)]
    BY <1>1
  <2>1. Marked(br_ind) /\ ~used[Pos(br_ind, c)]
    BY DEF FreeInv
  <2> QED
    BY <1>2, <1>3, <2>1
<1>7. (apc = "release" => r_ind = 0 /\ \A c \in Chunks : ~used[Pos(br_ind, c)])'
  <2> SUFFICES ASSUME apc = "release"
               PROVE  r_ind = 0 /\ \A c \in Chunks : ~used'[Pos(br_ind, c)]
    BY <1>1
  <2>1. Marked(br_ind) /\ r_ind = 0 /\ \A c \in Chunks : ~used[Pos(br_ind, c)]
    BY DEF FreeInv, OwnerInv
  <2> QED
    BY <1>2, <1>3, <2>1
<1>8. (spc \in {"flag", "next"} => w_ind = 0)'
  BY <1>1
<1> QED
  BY <1>4, <1>5, <1>6, <1>7, <1>8 DEF FreeInv

LEMMA FreeWrite ==
  ASSUME Typed, OwnerInv, FreeInv, WriteChunk
  PROVE  FreeInv'
<1> USE ChunksAreNat DEF Typed, RingTyped
<1>1. /\ UNCHANGED <<flag, bw_ind, w_ind, br_ind, spc>> /\ apc = "write"
      /\ (apc' = "release" <=> r_ind' = 0)
      /\ r_ind' = IF r_ind + 1 < BufSize THEN r_ind + 1 ELSE 0
  BY ChunkNext DEF WriteChunk, source, EndLoop
<1>2. Marked(br_ind) /\ \A b \in Bufs : Marked(b)' <=> Marked(b)
  BY <1>1 DEF OwnerInv, Marked
<1>3. \A b \in Bufs, c \in Chunks : used'[Pos(b, c)] <=> used[Pos(b, c)] /\ ~(b = br_ind /\ c = r_ind)
  BY UsedAfter
<1>4. (\A b \in Bufs, c \in Chunks :
       ~Marked(b) /\ used[Pos(b, c)] => b = bw_ind /\ (c < w_ind \/ spc = "flag"))'
  BY <1>1, <1>2, <1>3 DEF FreeInv
<1>5. (r_ind > 0 => Marked(br_ind))'
  BY <1>1, <1>2 DEF Marked
<1>6. (\A c \in Chunks : c < r_ind => ~used[Pos(br_ind, c)])'
  <2> SUFFICES ASSUME NEW c \in Chunks, c < r_ind' PROVE ~used'[Pos(br_ind, c)]
    BY <1>1
  <2>1. c < r_ind \/ c = r_ind
    BY <1>1
  <2> QED
    BY <1>3, <2>1 DEF FreeInv
<1>7. (apc = "release" => r_ind = 0 /\ \A c \in Chunks : ~used[Pos(br_ind, c)])'
  <2> SUFFICES ASSUME apc' = "release"
               PROVE  r_ind' = 0 /\ \A c \in Chunks : ~used'[Pos(br_ind, c)]
    BY <1>1
  <2>1. \A c \in Chunks : c < r_ind \/ c = r_ind
    BY <1>1
  <2> QED
    BY <1>1, <1>3, <2>1 DEF FreeInv
<1>8. (spc \in {"flag", "next"} => w_ind = 0)'
  BY <1>1 DEF FreeInv
<1> QED
  BY <1>4, <1>5, <1>6, <1>7, <1>8 DEF FreeInv

LEMMA FreeStep ==
  ASSUME Typed, PhaseInv, OwnerInv, FreeInv, [Next]_vars
  PROVE  FreeInv'
<1> USE ChunksAreNat DEF Typed, RingTyped, ring, source, audio, rest
<1>1. CASE Claim \/ SetProcessing
  <2>1. UNCHANGED <<used, bw_ind, w_ind, br_ind, r_ind>>
    BY <1>1 DEF Claim, SetProcessing
  <2>2. spc' \in {"flag", "next"} => spc' = spc
    BY <1>1 DEF Claim, SetProcessing
  <2>3. apc' = "release" => apc = "release"
    BY <1>1 DEF Claim, SetProcessing
  <2>4. spc = "flag" => spc' = "flag"
    BY <1>1 DEF Claim, SetProcessing
  <2>5. \A b \in Bufs : Marked(b)' <=> Marked(b)
    BY <1>1, MarkedAfter DEF Claim, SetProcessing, FlagProcess, MarkLast, ReleaseBuffer
  <2>6. Marked(br_ind)' <=> Marked(br_ind)
    BY <2>1, <2>5 DEF Marked
  <2> QED
    BY <2>1, <2>2, <2>3, <2>4, <2>5, <2>6 DEF FreeInv
<1>2. CASE FlagProcess \/ MarkLast
  <2>1. /\ UNCHANGED <<used, bw_ind, w_ind, br_ind, r_ind, apc>>
        /\ spc' \notin {"flag"} /\ (spc' = "next" => spc = "flag")
    BY <1>2 DEF FlagProcess, MarkLast, Returns
  <2>2. \A b \in Bufs : Marked(b)' <=> Marked(b) \/ b = bw_ind
    BY <1>2, MarkedAfter
  <2>3. Marked(br_ind) => Marked(br_ind)'
    BY <2>1, <2>2 DEF Marked
  <2> QED
    BY <2>1, <2>2, <2>3 DEF FreeInv
<1>3. CASE NextBuffer
  <2>1. /\ UNCHANGED <<used, w_ind, br_ind, r_ind, apc>> /\ spc = "next" /\ spc' = "copy"
    BY <1>3 DEF NextBuffer
  <2>2. \A b \in Bufs : Marked(b)' <=> Marked(b)
    BY <1>3, MarkedAfter DEF NextBuffer, FlagProcess, MarkLast, ReleaseBuffer
  <2>3. w_ind = 0 /\ \A b \in Bufs, c \in Chunks : ~(~Marked(b) /\ used[Pos(b, c)])
    BY <2>1 DEF FreeInv
  <2>4. Marked(br_ind)' <=> Marked(br_ind)
    BY <2>1, <2>2 DEF Marked
  <2> QED
    BY <2>1, <2>2, <2>3, <2>4 DEF FreeInv
<1>4. CASE ReleaseBuffer
  <2>1. /\ UNCHANGED <<used, bw_ind, w_ind, r_ind, spc>> /\ apc = "release" /\ apc' # "release"
    BY <1>4 DEF ReleaseBuffer, EndLoop
  <2>2. \A b \in Bufs : Marked(b)' <=> Marked(b) /\ b # br_ind
    BY <1>4, MarkedAfter
  <2>3. r_ind = 0 /\ \A c \in Chunks : ~used[Pos(br_ind, c)]
    BY <2>1 DEF FreeInv
  <2> QED
    BY <2>1, <2>2, <2>3 DEF FreeInv
<1>5. CASE Quiet
  <2>1. UNCHANGED <<flag, used, bw_ind, w_ind, br_ind, r_ind>>
    BY <1>5 DEF Quiet
  <2>2. /\ spc' \in {"flag", "next"} => spc' = spc
        /\ spc = "flag" => spc' = "flag"
        /\ apc' = "release" => apc = "release"
    BY <1>5 DEF Quiet, SourceQuiet, AudioQuiet
  <2> QED
    BY <2>1, <2>2 DEF FreeInv, Marked
<1> QED
  BY <1>1, <1>2, <1>3, <1>4, <1>5, FreeStore, FreeWrite, Steps

(* The source has not ended, and has not marked its last buffer.           *)
Unmarked == aCap \/ spc \notin {"loop", "gone"}

(* What is left to the audio thread of a buffer.                           *)
Left(b, c) == ~(b = br_ind /\ (c < r_ind \/ apc = "release"))

FilledInv ==
  Unmarked =>
    /\ \A b \in Bufs, c \in Chunks : Marked(b) /\ Left(b, c) => used[Pos(b, c)]
    /\ \A c \in Chunks : c < w_ind \/ spc = "flag" => used[Pos(bw_ind, c)]
    /\ w_ind > 0 => flag[bw_ind] = "IN_USE"
    /\ spc # "next" /\ Marked(bw_ind) => bw_ind = br_ind

LEMMA UnmarkedBack ==
  ASSUME Typed, PhaseInv, [Next]_vars, Unmarked'
  PROVE  Unmarked /\ ~MarkLast
<1> USE DEF Unmarked, ring, source, audio, rest
<1>1. CASE Source
  <2>1. aCap' = aCap
    BY <1>1
       DEF Source, Connect, PulseLoop, Callback, LockTwice, ChunkComplete, Claim, StoreChunk,
           FlagProcess, NextBuffer, CallbackEnds, MarkLast
  <2>2. CASE PulseLoop
    <3>1. aCap \/ spc' = "gone"
      BY <2>2, Zenon DEF PulseLoop, Iterates
    <3> QED
      BY <2>1, <2>2, <3>1 DEF PulseLoop, MarkLast
  <2>3. CASE MarkLast
    <3>1. ~aCap
      BY <2>3, Zenon DEF MarkLast, PhaseInv, Running
    <3>2. spc' = "loop" \/ spc' = "gone"
      BY <2>3 DEF MarkLast, Returns
    <3> QED
      BY <2>1, <3>1, <3>2
  <2>4. CASE ~PulseLoop /\ ~MarkLast
    <3>1. spc \notin {"loop", "gone"}
      BY <1>1, <2>4
         DEF Source, Connect, Callback, LockTwice, ChunkComplete, Claim, StoreChunk,
             FlagProcess, NextBuffer, CallbackEnds
    <3> QED
      BY <2>4, <3>1
  <2> QED
    BY <2>2, <2>3, <2>4
<1>2. CASE AudioThread
  <2>1. UNCHANGED <<aCap, spc>>
    BY <1>2
       DEF AudioThread, AudioLoopTop, ProcessAudio, GetFlag, SetProcessing, TestUsed, WriteChunk,
           ReleaseBuffer
  <2> QED
    BY <2>1, <1>2 DEF MarkLast, Returns
<1>3. CASE IOThread
  <2>1. CASE StartAudio
    <3>1. spc = "none" /\ spc' = spc
      BY <2>1, Zenon DEF StartAudio, PhaseInv
    <3> QED
      BY <3>1 DEF MarkLast
  <2>2. CASE ~StartAudio
    <3>1. aCap' => aCap
      BY <1>3, <2>2, Zenon
         DEF IOThread, SetSound, InitSound, InitFails, CreateAudioThread, JoinAudio,
             CloseStops, StopSource, FreeBuffers
    <3>2. spc \in {"loop", "gone"} => spc' = spc
      BY <1>3, <2>2
         DEF IOThread, SetSound, InitSound, InitFails, CreateAudioThread, JoinAudio,
             CloseStops, StopSource, FreeBuffers, PhaseInv
    <3>3. ~MarkLast
      BY <1>3
         DEF IOThread, SetSound, StartAudio, InitSound, InitFails, CreateAudioThread, JoinAudio,
             CloseStops, StopSource, FreeBuffers, MarkLast, Returns, PhaseInv
    <3> QED
      BY <3>1, <3>2, <3>3
  <2> QED
    BY <2>1, <2>2
<1>4. CASE GtkThread \/ PassSkip \/ Terminated \/ UNCHANGED vars
  <2>1. spc' = spc /\ (aCap' = aCap \/ aCap' = FALSE)
    BY <1>4 DEF GtkThread, StopVideo, StopAudio, JoinIO, PassSkip, Terminated, vars
  <2> QED
    BY <2>1, Zenon DEF MarkLast, Returns
<1> QED
  BY <1>1, <1>2, <1>3, <1>4 DEF Next

LEMMA FilledInit == Init => FilledInv
BY DEF Init, FilledInv, Marked, Chunks, Bufs

LEMMA FilledStore ==
  ASSUME Typed, OwnerInv, FilledInv, Unmarked, StoreChunk
  PROVE  FilledInv'
<1> USE ChunksAreNat DEF Typed, RingTyped
<1>1. /\ UNCHANGED <<flag, bw_ind, br_ind, r_ind, apc>> /\ spc = "store"
      /\ spc' = IF w_ind' = 0 THEN "flag" ELSE "copy"
      /\ w_ind' = IF w_ind + 1 < BufSize THEN w_ind + 1 ELSE 0
  BY ChunkNext DEF StoreChunk, audio
<1>2. flag[bw_ind] = "IN_USE"
  BY <1>1 DEF OwnerInv
<1>3. \A b \in Bufs, c \in Chunks : used'[Pos(b, c)] <=> used[Pos(b, c)] \/ (b = bw_ind /\ c = w_ind)
  BY UsedAfter
<1>4. (\A b \in Bufs, c \in Chunks : Marked(b) /\ Left(b, c) => used[Pos(b, c)])'
  BY <1>1, <1>3 DEF FilledInv, Marked, Left
<1>5. (\A c \in Chunks : c < w_ind \/ spc = "flag" => used[Pos(bw_ind, c)])'
  <2> SUFFICES ASSUME NEW c \in Chunks, c < w_ind' \/ spc' = "flag"
               PROVE  used'[Pos(bw_ind, c)]
    BY <1>1
  <2>1. c < w_ind \/ c = w_ind
    BY <1>1
  <2> QED
    BY <1>1, <1>3, <2>1 DEF FilledInv
<1>6. (w_ind > 0 => flag[bw_ind] = "IN_USE")'
  BY <1>1, <1>2
<1>7. (spc # "next" /\ Marked(bw_ind) => bw_ind = br_ind)'
  BY <1>1, <1>2 DEF Marked
<1> QED
  BY <1>4, <1>5, <1>6, <1>7 DEF FilledInv

LEMMA FilledWrite ==
  ASSUME Typed, OwnerInv, FilledInv, Unmarked, WriteChunk
  PROVE  FilledInv'
<1> USE ChunksAreNat DEF Typed, RingTyped
<1>1. /\ UNCHANGED <<flag, bw_ind, w_ind, br_ind, spc>> /\ apc = "write"
      /\ (apc' = "release" <=> r_ind' = 0)
      /\ r_ind' = IF r_ind + 1 < BufSize THEN r_ind + 1 ELSE 0
  BY ChunkNext DEF WriteChunk, source, EndLoop
<1>2. Marked(br_ind)
  BY <1>1 DEF OwnerInv
<1>3. \A b \in Bufs, c \in Chunks : used'[Pos(b, c)] <=> used[Pos(b, c)] /\ ~(b = br_ind /\ c = r_ind)
  BY UsedAfter
<1>4. (\A b \in Bufs, c \in Chunks : Marked(b) /\ Left(b, c) => used[Pos(b, c)])'
  <2> SUFFICES ASSUME NEW b \in Bufs, NEW c \in Chunks, Marked(b)', Left(b, c)'
               PROVE  used'[Pos(b, c)]
    OBVIOUS
  <2>1. Marked(b)
    BY <1>1 DEF Marked
  <2>2. b = br_ind => c # r_ind /\ ~(c < r_ind)
    BY <1>1 DEF Left
  <2>3. Left(b, c)
    BY <1>1, <2>2 DEF Left
  <2> QED
    BY <1>3, <2>1, <2>2, <2>3 DEF FilledInv
<1>5. (\A c \in Chunks : c < w_ind \/ spc = "flag" => used[Pos(bw_ind, c)])'
  <2> SUFFICES ASSUME NEW c \in Chunks, c < w_ind \/ spc = "flag"
               PROVE  used'[Pos(bw_ind, c)]
    BY <1>1
  <2>1. flag[bw_ind] = "IN_USE"
    BY DEF FilledInv, OwnerInv
  <2>2. bw_ind # br_ind
    BY <1>2, <2>1 DEF Marked
  <2> QED
    BY <1>3, <2>2 DEF FilledInv
<1>6. (w_ind > 0 => flag[bw_ind] = "IN_USE")'
  BY <1>1 DEF FilledInv
<1>7. (spc # "next" /\ Marked(bw_ind) => bw_ind = br_ind)'
  BY <1>1 DEF FilledInv, Marked
<1> QED
  BY <1>4, <1>5, <1>6, <1>7 DEF FilledInv

(* The source moves on to a marked buffer only when that is the one the    *)
(* audio thread reads: any other marked buffer is full, so the whole ring  *)
(* is, and the next chunk to read is in the buffer moved on to.            *)
LEMMA MovesToReader ==
  ASSUME Typed, RingInv, FreeInv, FilledInv, Unmarked, spc = "next",
         NEW d \in Bufs, d = NEXT_IND(bw_ind, BufNum), Marked(d)
  PROVE  d = br_ind
<1> SUFFICES ASSUME d # br_ind PROVE FALSE
  OBVIOUS
<1> USE ChunksAreNat DEF Typed, RingTyped
<1>1. WritePos = Pos(d, 0) /\ WritePos \in Positions
  BY PosOf DEF WritePos, FreeInv
<1>2. used[WritePos]
  BY <1>1 DEF FilledInv, Left
<1>3. ReadPos = WritePos /\ Occupancy = N
  <2>1. Ahead(WritePos) < Occupancy
    BY <1>1, <1>2 DEF RingInv
  <2>2. ReadPos \in 0 .. N - 1 /\ WritePos \in 0 .. N - 1 /\ N \in Nat
    BY PlacesTyped
  <2>3. ReadPos = WritePos
    BY <2>1, <2>2, OccupancyIs DEF Ahead
  <2> QED
    BY <1>2, <2>2, <2>3, OccupancyIs
<1>4. apc = "release"
  <2>1. CASE apc # "release"
    <3>1. ReadPos = Pos(br_ind, r_ind)
      BY <2>1 DEF ReadPos
    <3> QED
      BY <1>1, <1>3, <3>1, PosInjective
  <2> QED
    BY <2>1
<1>5. ~used[Pos(br_ind, 0)] /\ Pos(br_ind, 0) \in Positions
  BY <1>4, PosOf DEF FreeInv
<1>6. Ahead(Pos(br_ind, 0)) \in 0 .. N - 1
  BY <1>5, PlacesTyped
<1> QED
  BY <1>3, <1>5, <1>6, RingSize DEF RingInv

LEMMA FilledStep ==
  ASSUME Typed, PhaseInv, OwnerInv, RingInv, FreeInv, FilledInv, [Next]_vars
  PROVE  FilledInv'
<1> SUFFICES ASSUME Unmarked' PROVE FilledInv'
  BY DEF FilledInv
<1>0. Unmarked /\ ~MarkLast
  BY UnmarkedBack
<1> USE ChunksAreNat DEF Typed, RingTyped, ring, source, audio, rest
<1>1. CASE Claim
  <2>1. /\ UNCHANGED <<used, bw_ind, w_ind, br_ind, r_ind, apc>>
        /\ spc = "claim" /\ spc' = "store"
        /\ flag[bw_ind] = "READY" /\ flag' = [flag EXCEPT ![bw_ind] = "IN_USE"]
    BY <1>1 DEF Claim, OwnerInv
  <2>2. \A b \in Bufs : Marked(b)' <=> Marked(b)
    BY <2>1 DEF Marked
  <2>3. ~Marked(bw_ind)' /\ flag'[bw_ind'] = "IN_USE"
    BY <2>1 DEF Marked
  <2> QED
    BY <1>0, <2>1, <2>2, <2>3 DEF FilledInv, Left
<1>2. CASE SetProcessing
  <2>1. UNCHANGED <<used, bw_ind, w_ind, br_ind, r_ind, spc>> /\ apc = "set" /\ apc' = "test"
    BY <1>2 DEF SetProcessing
  <2>2. Marked(br_ind) /\ flag' = [flag EXCEPT ![br_ind] = "PROCESSING"]
    BY <1>2 DEF SetProcessing, OwnerInv
  <2>3. \A b \in Bufs : Marked(b)' <=> Marked(b)
    BY <2>2 DEF Marked
  <2>4. Marked(bw_ind)' <=> Marked(bw_ind)
    BY <2>1, <2>3 DEF Marked
  <2>5. w_ind > 0 => flag'[bw_ind] = "IN_USE"
    BY <1>0, <2>2 DEF FilledInv, Marked
  <2> QED
    BY <1>0, <2>1, <2>3, <2>4, <2>5 DEF FilledInv, Left
<1>3. CASE FlagProcess
  <2>1. /\ UNCHANGED <<used, bw_ind, w_ind, br_ind, r_ind, apc>> /\ spc = "flag" /\ spc' = "next"
    BY <1>3 DEF FlagProcess
  <2>2. \A b \in Bufs : Marked(b)' <=> Marked(b) \/ b = bw_ind
    BY <1>3, MarkedAfter
  <2>3. w_ind = 0 /\ \A c \in Chunks : used[Pos(bw_ind, c)]
    BY <1>0, <2>1 DEF FreeInv, FilledInv
  <2> QED
    BY <1>0, <2>1, <2>2, <2>3 DEF FilledInv, Left
<1>4. CASE NextBuffer
  <2>1. /\ UNCHANGED <<used, w_ind, br_ind, r_ind, apc>> /\ spc = "next" /\ spc' = "copy"
        /\ bw_ind' = NEXT_IND(bw_ind, BufNum) /\ bw_ind' \in Bufs
    BY <1>4, PosNext DEF NextBuffer
  <2>2. \A b \in Bufs : Marked(b)' <=> Marked(b)
    BY <1>4, MarkedAfter DEF NextBuffer, FlagProcess, MarkLast, ReleaseBuffer
  <2>3. w_ind = 0
    BY <2>1 DEF FreeInv
  <2>4. Marked(bw_ind)' => bw_ind' = br_ind
    <3> DEFINE d == bw_ind'
    <3>1. d \in Bufs /\ d = NEXT_IND(bw_ind, BufNum) /\ (Marked(bw_ind)' => Marked(d))
      BY <2>1, <2>2 DEF Marked
    <3> HIDE DEF d
    <3>2. Marked(d) => d = br_ind
      BY <1>0, <2>1, <3>1, MovesToReader
    <3> QED
      BY <3>1, <3>2 DEF d
  <2> QED
    BY <1>0, <2>1, <2>2, <2>3, <2>4 DEF FilledInv, Left
<1>5. CASE ReleaseBuffer
  <2>1. /\ UNCHANGED <<used, bw_ind, w_ind, r_ind, spc>> /\ apc = "release" /\ apc' # "release"
        /\ flag' = [flag EXCEPT ![br_ind] = "READY"]
    BY <1>5 DEF ReleaseBuffer, GiveBack, EndLoop
  <2>2. \A b \in Bufs : Marked(b)' <=> Marked(b) /\ b # br_ind
    BY <1>5, MarkedAfter
  <2>3. r_ind = 0 /\ Marked(br_ind)
    BY <2>1 DEF FreeInv, OwnerInv
  <2>4. (spc # "next" => ~Marked(bw_ind)') /\ (w_ind > 0 => flag'[bw_ind] = "IN_USE")
    <3>1. spc # "next" /\ Marked(bw_ind) => bw_ind = br_ind
      BY <1>0 DEF FilledInv
    <3>2. w_ind > 0 => flag[bw_ind] = "IN_USE"
      BY <1>0 DEF FilledInv
    <3> QED
      BY <2>1, <2>3, <3>1, <3>2 DEF Marked
  <2>5. ASSUME NEW b \in Bufs, NEW c \in Chunks, Marked(b)' PROVE used[Pos(b, c)]
    <3>1. Marked(b) /\ Left(b, c)
      BY <2>2, <2>5 DEF Left
    <3> QED
      BY <1>0, <3>1 DEF FilledInv
  <2> QED
    BY <1>0, <2>1, <2>4, <2>5 DEF FilledInv
<1>6. CASE Quiet
  <2>1. UNCHANGED <<flag, used, bw_ind, w_ind, br_ind, r_ind>>
    BY <1>6 DEF Quiet
  <2>2. /\ (spc' = "flag" => spc = "flag") /\ (spc = "next" => spc' = "next")
        /\ (apc = "release" => apc' = "release")
    BY <1>6 DEF Quiet, SourceQuiet, AudioQuiet
  <2> QED
    BY <1>0, <2>1, <2>2 DEF FilledInv, Marked, Left
<1> QED
  BY <1>0, <1>1, <1>2, <1>3, <1>4, <1>5, <1>6, FilledStore, FilledWrite, Steps

-----------------------------------------------------------------------------
(***************************************************************************)
(* Counting: every chunk recorded is in the file, in the ring or dropped,  *)
(* and a stop promises no more than is in the file and the ring.           *)
(***************************************************************************)
Pending == IF spc \in {"claim", "store"} THEN 1 ELSE 0

CountInv ==
  /\ Len(written) + Occupancy + Pending <= recorded
  /\ promised \in Nat /\ promised <= Len(written) + Occupancy

(* On a ring of n places, of which occ are used from r to before w, a used *)
(* place d before w is occ - d after r.                                    *)
LEMMA FromTheEnd ==
  ASSUME NEW n \in Nat, NEW r \in 0 .. n - 1, NEW w \in 0 .. n - 1, NEW p \in 0 .. n - 1,
         NEW d \in Nat, 0 < d, d < n, w = (IF p + d < n THEN p + d ELSE p + d - n),
         NEW a \in 0 .. n - 1, a = (IF p >= r THEN p - r ELSE p - r + n),
         NEW occ \in 0 .. n, a < occ,
         w > r => occ = w - r, w < r => occ = (n - r) + w, w = r => occ \in {0, n}
  PROVE  a = occ - d
<1>1. CASE w > r
  BY <1>1
<1>2. CASE w < r
  BY <1>2
<1>3. CASE w = r
  BY <1>3
<1> QED
  BY <1>1, <1>2, <1>3

(* A chunk in an unmarked buffer is one of the last in the ring: as far    *)
(* from its end as w_ind says, or as the end of the buffer that is full.   *)
LEMMA UnmarkedAtEnd ==
  ASSUME Typed, RingInv, FreeInv,
         NEW b \in Bufs, NEW c \in Chunks, ~Marked(b), used[Pos(b, c)]
  PROVE  /\ c < (IF spc = "flag" THEN BufSize ELSE w_ind)
         /\ Ahead(Pos(b, c)) = Occupancy - ((IF spc = "flag" THEN BufSize ELSE w_ind) - c)
<1> DEFINE p == Pos(b, c)
           top == IF spc = "flag" THEN BufSize ELSE w_ind
           d == top - c
<1> USE ChunksAreNat DEF Typed, RingTyped
<1>1. b = bw_ind /\ (c < w_ind \/ spc = "flag") /\ (spc \in {"flag", "next"} => w_ind = 0)
  BY DEF FreeInv
<1>2. c < top /\ d \in 1 .. BufSize
  BY <1>1
<1>3. /\ p = Base(b) + c /\ p \in 0 .. N - 1 /\ Base(b) \in Nat /\ Base(b) + BufSize <= N
      /\ N \in Nat /\ BufSize < N /\ p \in Positions
  <2>1. /\ N = (BufNum - 1) * BufSize + BufSize /\ (BufNum - 1) * BufSize \in Nat
        /\ (BufNum - 1) * BufSize >= BufSize
    BY RingSize
  <2>2. BufSize < N
    <3> DEFINE k == (BufNum - 1) * BufSize
    <3> HIDE DEF k
    <3>1. N = k + BufSize /\ k \in Nat /\ k >= BufSize
      BY <2>1 DEF k
    <3> QED
      BY <3>1
  <2>3. N \in Nat /\ Positions = 0 .. N - 1
    BY RingSize
  <2> QED
    BY <2>2, <2>3, PosOf
<1>4. WritePos = IF p + d < N THEN p + d ELSE p + d - N
  <2>1. CASE spc = "flag"
    <3>1. w_ind = 0 /\ WritePos = Pos(NEXT_IND(b, BufNum), 0) /\ NEXT_IND(b, BufNum) \in Bufs
      BY <1>1, <2>1, PosNext DEF WritePos
    <3>2. WritePos = Base(NEXT_IND(b, BufNum)) + 0 /\ Base(NEXT_IND(b, BufNum)) \in Nat
      BY <3>1, PosOf
    <3>3. Base(NEXT_IND(b, BufNum)) = IF Base(b) + BufSize < N THEN Base(b) + BufSize ELSE 0
      BY PosNext
    <3>4. d = BufSize - c
      BY <2>1
    <3> QED
      BY <1>3, <3>2, <3>3, <3>4
  <2>2. CASE spc # "flag"
    <3>1. c < w_ind /\ spc # "next" /\ d = w_ind - c
      BY <1>1, <2>2
    <3>2. WritePos = Pos(b, w_ind)
      BY <1>1, <2>2, <3>1 DEF WritePos
    <3>3. Pos(b, w_ind) = Base(b) + w_ind /\ Pos(b, w_ind) < N
      BY <1>1, PosOf
    <3> QED
      BY <1>3, <3>1, <3>2, <3>3
  <2> QED
    BY <2>1, <2>2
<1>5. Ahead(p) < Occupancy
  BY <1>3 DEF RingInv
<1>6. ReadPos \in 0 .. N - 1 /\ Ahead(p) \in 0 .. N - 1
  BY <1>3, PlacesTyped
<1>7. Ahead(p) = IF p >= ReadPos THEN p - ReadPos ELSE p - ReadPos + N
  BY DEF Ahead
<1>8. d \in Nat /\ 0 < d /\ d < N
  BY <1>2, <1>3
<1>9. Ahead(p) = Occupancy - d
  <2> HIDE DEF p, d, top
  <2>1. p \in 0 .. N - 1 /\ d \in Nat /\ 0 < d /\ d < N
    BY <1>3, <1>8
  <2>2. WritePos \in 0 .. N - 1 /\ Occupancy \in 0 .. N
    BY PlacesTyped
  <2>3. /\ WritePos > ReadPos => Occupancy = WritePos - ReadPos
        /\ WritePos < ReadPos => Occupancy = (N - ReadPos) + WritePos
        /\ WritePos = ReadPos => Occupancy \in {0, N}
    BY <1>6, <2>2, OccupancyIs
  <2>4. N \in Nat
    BY <1>3
  <2> HIDE DEF p, d, top
  <2> QED
    BY <2>1, <2>2, <2>3, <2>4, <1>4, <1>5, <1>6, <1>7, FromTheEnd
<1> QED
  BY <1>2, <1>9

(* While the source runs, what is not flagged is in the ring.              *)
LEMMA FlaggedIsNat ==
  ASSUME Typed, OwnerInv, RingInv, FreeInv, FilledInv, Unmarked
  PROVE  Flagged \in Nat /\ Flagged <= Occupancy
<1> USE ChunksAreNat DEF Typed, RingTyped
<1>1. Occupancy \in Nat
  BY PlacesTyped, RingSize
<1>2. CASE spc # "flag" /\ w_ind = 0
  BY <1>1, <1>2 DEF Flagged
<1>3. CASE spc = "flag" \/ w_ind > 0
  <2>1. used[Pos(bw_ind, 0)]
    BY <1>3 DEF FilledInv
  <2>2. flag[bw_ind] = "IN_USE"
    BY <1>3 DEF FilledInv, OwnerInv
  <2>3. ~Marked(bw_ind)
    BY <2>2 DEF Marked
  <2>4. Ahead(Pos(bw_ind, 0)) = Occupancy - ((IF spc = "flag" THEN BufSize ELSE w_ind) - 0)
    BY <2>1, <2>3, UnmarkedAtEnd
  <2>5. Ahead(Pos(bw_ind, 0)) \in Nat
    BY PosOf, PlacesTyped, RingSize, SMTT(30)
  <2> QED
    BY <1>1, <2>4, <2>5 DEF Flagged
<1> QED
  BY <1>2, <1>3

(* While the capture runs, the source has not ended.                       *)
LEMMA CapturingUnmarked == Typed /\ PhaseInv /\ capVid => Unmarked
BY DEF Typed, FlagsTyped, PhaseInv, Unmarked

LEMMA CountInit == Init => CountInv
<1> SUFFICES ASSUME Init PROVE CountInv
  OBVIOUS
<1>1. ReadPos = 0 /\ WritePos = 0 /\ ~used[0]
  BY RingSize DEF Init, ReadPos, WritePos, Pos
<1>2. Occupancy = 0
  BY <1>1, OccupancyIs
<1>3. Len(written) = 0
  BY DEF Init
<1> QED
  BY <1>2, <1>3 DEF Init, CountInv, Pending

LEMMA CountStep ==
  ASSUME Typed, PhaseInv, OwnerInv, RingInv, FreeInv, FilledInv, CountInv, [Next]_vars
  PROVE  CountInv'
<1>0. /\ Len(written) \in Nat /\ Occupancy \in 0 .. N /\ N \in Nat /\ recorded \in Nat
      /\ Pending \in 0 .. 1
  BY PlacesTyped, RingSize, AllAssumptions DEF Typed, ThreadsTyped, Pending
<1>1. CASE StoreChunk
  <2>1. Occupancy' = Occupancy + 1
    BY <1>1, StoreCounts
  <2>2. UNCHANGED <<recorded, written, promised>> /\ Pending = 1 /\ Pending' = 0
    BY <1>1, ChunkNext DEF StoreChunk, Pending, audio, rest
  <2> QED
    BY <1>0, <2>1, <2>2 DEF CountInv
<1>2. CASE WriteChunk
  <2>1. Occupancy' = Occupancy - 1
    BY <1>2, WriteCounts
  <2>2. Len(written') = Len(written) + 1
    <3>1. data[Pos(br_ind, r_ind)] \in 0 .. MaxChunks
      BY PosOf DEF Typed, RingTyped
    <3> QED
      BY <1>2, <3>1 DEF WriteChunk, Typed, ThreadsTyped
  <2>3. UNCHANGED <<recorded, promised, spc>>
    BY <1>2 DEF WriteChunk, source, rest
  <2> QED
    BY <1>0, <2>1, <2>2, <2>3 DEF CountInv, Pending
<1>3. CASE Still
  <2>1. recorded' = recorded \/ (recorded' = recorded + 1 /\ Pending = 0)
    BY DEF Next, Source, Connect, PulseLoop, Callback, LockTwice, ChunkComplete, Claim, StoreChunk,
           FlagProcess, NextBuffer, CallbackEnds, MarkLast,
           AudioThread, AudioLoopTop, ProcessAudio, GetFlag, SetProcessing, TestUsed, WriteChunk,
           ReleaseBuffer, IOThread, SetSound, StartAudio, InitSound, InitFails, CreateAudioThread,
           JoinAudio, CloseStops, StopSource, FreeBuffers, GtkThread, StopVideo, StopAudio, JoinIO,
           PassSkip, Terminated, vars, ring, source, audio, rest, Pending
  <2>2. Pending' = 1 => Pending = 1 \/ recorded' = recorded + 1
    BY <1>3 DEF Still, Pending
  <2>3. Pending' \in 0 .. 1 /\ UNCHANGED <<written, Occupancy>>
    BY <1>3 DEF Still, Pending
  <2>4. promised' = promised \/ (promised' \in Nat /\ promised' <= Len(written) + Occupancy)
    <3>1. CASE StopVideo
      <4>1. promised' = Len(written) + Flagged /\ capVid
        BY <3>1 DEF StopVideo
      <4>2. Flagged \in Nat /\ Flagged <= Occupancy
        BY <4>1, CapturingUnmarked, FlaggedIsNat
      <4> QED
        BY <1>0, <4>1, <4>2
    <3>2. CASE ~StopVideo
      <4>1. promised' = promised
        BY <3>2
           DEF Next, Source, Connect, PulseLoop, Callback, LockTwice, ChunkComplete, Claim, StoreChunk,
           FlagProcess, NextBuffer, CallbackEnds, MarkLast,
           AudioThread, AudioLoopTop, ProcessAudio, GetFlag, SetProcessing, TestUsed, WriteChunk,
           ReleaseBuffer, IOThread, SetSound, StartAudio, InitSound, InitFails, CreateAudioThread,
           JoinAudio, CloseStops, StopSource, FreeBuffers, GtkThread, StopAudio, JoinIO,
           PassSkip, Terminated, vars, ring, source, audio, rest
      <4> QED
        BY <4>1
    <3> QED
      BY <3>1, <3>2
  <2> QED
    BY <1>0, <2>1, <2>2, <2>3, <2>4 DEF CountInv
<1> QED
  BY <1>1, <1>2, <1>3, OtherSteps

-----------------------------------------------------------------------------
(***************************************************************************)
(* The promise of a stop: a promised chunk not yet written is in a marked  *)
(* buffer, which the audio thread does not pass over; and the audio thread *)
(* thinks the capture is over only when it is.                             *)
(***************************************************************************)
Inside == {"process", "flag", "set", "test", "write", "release"}

PromiseKept ==
  \A b \in Bufs, c \in Chunks : Len(written) + Ahead(Pos(b, c)) < promised => Marked(b)

OverMeansOver ==
  /\ apc \in Inside /\ ~lCap => ~capVid
  /\ apc \in Inside \ {"process"} /\ ~pCap => ~capVid
  /\ apc = "done" => ~capVid

StopInv == PromiseKept /\ OverMeansOver /\ StopKeepsBuffers

RingIInv ==
  Typed /\ PhaseInv /\ OwnerInv /\ RingInv /\ FreeInv /\ FilledInv /\ CountInv

LEMMA OverStep ==
  ASSUME Typed, PhaseInv, OverMeansOver, [Next]_vars
  PROVE  OverMeansOver'
<1> USE DEF OverMeansOver, Inside, ring, source, audio, rest
<1>1. CASE Source
  <2>1. UNCHANGED <<capVid, apc, lCap, pCap>>
    BY <1>1, Zenon
       DEF Source, Connect, PulseLoop, Callback, LockTwice, ChunkComplete, Claim, StoreChunk,
           FlagProcess, NextBuffer, CallbackEnds, MarkLast
  <2> QED
    BY <2>1, Zenon
<1>2. CASE AudioThread
  <2>1. CASE AudioLoopTop
    BY <2>1, Zenon DEF AudioLoopTop
  <2>2. CASE ProcessAudio
    BY <2>2, Zenon DEF ProcessAudio
  <2>3. CASE GetFlag
    BY <2>3, Zenon DEF GetFlag, NothingToDo, EndLoop
  <2>4. CASE SetProcessing
    BY <2>4, Zenon DEF SetProcessing
  <2>5. CASE TestUsed
    BY <2>5, Zenon DEF TestUsed, NothingToDo, EndLoop
  <2>6. CASE WriteChunk
    BY <2>6, Zenon DEF WriteChunk, EndLoop
  <2>7. CASE ReleaseBuffer
    BY <2>7, Zenon DEF ReleaseBuffer, EndLoop
  <2> QED
    BY <1>2, <2>1, <2>2, <2>3, <2>4, <2>5, <2>6, <2>7 DEF AudioThread
<1>3. CASE IOThread
  <2>1. CASE SetSound \/ CreateAudioThread
    <3>1. apc' \in {"none", "top"}
      BY <2>1, Zenon DEF SetSound, CreateAudioThread, PhaseInv
    <3> QED
      BY <3>1
  <2>2. CASE ~SetSound /\ ~CreateAudioThread
    <3>1. UNCHANGED <<capVid, apc, lCap, pCap>>
      BY <1>3, <2>2, Zenon
         DEF IOThread, StartAudio, InitSound, InitFails, JoinAudio, CloseStops, StopSource, FreeBuffers
    <3> QED
      BY <3>1, Zenon
  <2> QED
    BY <2>1, <2>2
<1>4. CASE GtkThread \/ PassSkip \/ Terminated \/ UNCHANGED vars
  <2>1. UNCHANGED <<apc, lCap, pCap>>
    BY <1>4 DEF GtkThread, StopVideo, StopAudio, JoinIO, PassSkip, Terminated, vars
  <2>2. capVid' => capVid
    BY <1>4, Zenon DEF GtkThread, StopVideo, StopAudio, JoinIO, PassSkip, Terminated, vars
  <2> QED
    BY <2>1, <2>2, Zenon
<1> QED
  BY <1>1, <1>2, <1>3, <1>4 DEF Next

(* Only StopVideo promises anything.                                       *)
LEMMA PromiseBefore ==
  ASSUME [Next]_vars, ~StopVideo
  PROVE  promised' = promised
BY DEF Next, Source, Connect, PulseLoop, Callback, LockTwice, ChunkComplete, Claim, StoreChunk,
       FlagProcess, NextBuffer, CallbackEnds, MarkLast,
       AudioThread, AudioLoopTop, ProcessAudio, GetFlag, SetProcessing, TestUsed, WriteChunk,
       ReleaseBuffer, IOThread, SetSound, StartAudio, InitSound, InitFails, CreateAudioThread,
       JoinAudio, CloseStops, StopSource, FreeBuffers, GtkThread, StopAudio, JoinIO,
       PassSkip, Terminated, vars, ring, source, audio, rest

LEMMA PlaceOfChunk ==
  ASSUME Typed, NEW b \in Bufs, NEW c \in Chunks
  PROVE  /\ Pos(b, c) \in Positions /\ Ahead(Pos(b, c)) \in Nat /\ Occupancy \in Nat
         /\ Len(written) \in Nat /\ N \in Nat /\ N >= 2 /\ Ahead(Pos(b, c)) <= N - 1
<1>1. Pos(b, c) \in Positions
  BY PosOf
<1>2. Ahead(Pos(b, c)) \in 0 .. N - 1 /\ Occupancy \in 0 .. N /\ N \in Nat /\ N >= 2
  BY <1>1, PlacesTyped DEF Typed
<1>3. Len(written) \in Nat
  BY DEF Typed, ThreadsTyped
<1> QED
  BY <1>1, <1>2, <1>3

LEMMA PromiseStep ==
  ASSUME RingIInv, PromiseKept, [Next]_vars
  PROVE  PromiseKept'
<1> SUFFICES ASSUME NEW b \in Bufs, NEW c \in Chunks,
                    Len(written') + Ahead(Pos(b, c))' < promised'
             PROVE  Marked(b)'
  BY DEF PromiseKept
<1> DEFINE p == Pos(b, c)
<1>0. /\ p \in Positions /\ Ahead(p) \in Nat /\ Occupancy \in Nat /\ Len(written) \in Nat
      /\ N \in Nat /\ N >= 2 /\ Ahead(p) <= N - 1 /\ promised \in Nat
      /\ promised <= Len(written) + Occupancy
  BY PlaceOfChunk DEF RingIInv, CountInv
<1>1. CASE StopVideo
  <2>1. /\ promised' = Len(written) + Flagged /\ capVid
        /\ UNCHANGED <<written, flag, used, bw_ind, w_ind, br_ind, r_ind, spc, apc>>
    BY <1>1 DEF StopVideo, ring, source, audio
  <2>2. Ahead(p)' = Ahead(p)
    BY <2>1 DEF Ahead, ReadPos
  <2>3. Flagged \in Nat /\ Flagged <= Occupancy
    BY <2>1, CapturingUnmarked, FlaggedIsNat DEF RingIInv
  <2>4. Ahead(p) < Flagged
    BY <1>0, <2>1, <2>2, <2>3
  <2>5. used[p]
    BY <1>0, <2>3, <2>4 DEF RingIInv, RingInv
  <2>6. ASSUME ~Marked(b) PROVE FALSE
    <3> DEFINE top == IF spc = "flag" THEN BufSize ELSE w_ind
    <3>1. Ahead(p) = Occupancy - (top - c)
      BY <2>5, <2>6, UnmarkedAtEnd DEF RingIInv
    <3>2. Flagged = Occupancy - top
      BY DEF Flagged
    <3>3. top \in Nat /\ c \in Nat
      BY ChunksAreNat DEF RingIInv, Typed, RingTyped
    <3> QED
      BY <1>0, <2>4, <3>1, <3>2, <3>3
  <2> QED
    BY <2>1, <2>6 DEF Marked
<1>2. CASE StoreChunk
  <2>1. UNCHANGED <<written, promised, flag>>
    BY <1>2 DEF StoreChunk, audio, rest
  <2>2. Ahead(p)' = Ahead(p)
    BY <1>0, <1>2, StoreCounts DEF RingIInv
  <2>3. Marked(b)
    BY <2>1, <2>2 DEF PromiseKept
  <2> QED
    BY <2>1, <2>3 DEF Marked
<1>3. CASE WriteChunk
  <2>1. UNCHANGED <<promised, flag>> /\ Len(written') = Len(written) + 1
    <3>1. data[Pos(br_ind, r_ind)] \in 0 .. MaxChunks
      BY PosOf DEF RingIInv, Typed, RingTyped
    <3> QED
      BY <1>3, <3>1 DEF WriteChunk, RingIInv, Typed, ThreadsTyped, rest
  <2>2. Ahead(p)' = (IF p = ReadPos THEN N - 1 ELSE Ahead(p) - 1)
    BY <1>0, <1>3, WriteCounts DEF RingIInv
  <2>3. Occupancy <= N
    BY PlacesTyped DEF RingIInv, Typed
  <2>4. p # ReadPos
    BY <1>0, <2>1, <2>2, <2>3
  <2>5. Len(written) + Ahead(p) < promised
    BY <1>0, <2>1, <2>2, <2>4
  <2> QED
    BY <2>1, <2>5 DEF PromiseKept, Marked
<1>4. CASE Still /\ ~StopVideo
  <2>1. Ahead(p)' = Ahead(p) /\ written' = written /\ promised' = promised
    BY <1>0, <1>4, PromiseBefore DEF Still
  <2>2. Marked(b)
    BY <2>1 DEF PromiseKept
  <2>3. CASE ReleaseBuffer
    <3>1. used[p]
      BY <1>0, <2>1 DEF RingIInv, RingInv
    <3>2. b # br_ind
      BY <2>3, <3>1 DEF RingIInv, FreeInv, ReleaseBuffer
    <3> QED
      BY <2>2, <2>3, <3>2, MarkedAfter DEF RingIInv
  <2>4. CASE ~ReleaseBuffer
    BY <2>2, <2>4, MarkedAfter DEF RingIInv
  <2> QED
    BY <2>3, <2>4
<1> QED
  BY <1>1, <1>2, <1>3, <1>4, OtherSteps DEF RingIInv

(* Audio_loop ends by itself only when no promised chunk is left: its      *)
(* buffer is not marked, or the next chunk is not used.                    *)
LEMMA NothingLeft ==
  ASSUME RingIInv, PromiseKept, apc # "release",
         ~Marked(br_ind) \/ ~used[Pos(br_ind, r_ind)]
  PROVE  promised <= Len(written)
<1> DEFINE p == Pos(br_ind, r_ind)
<1>1. br_ind \in Bufs /\ r_ind \in Chunks
  BY DEF RingIInv, Typed, RingTyped
<1>2. ReadPos = p
  BY DEF ReadPos
<1>3. /\ p \in Positions /\ ReadPos \in Nat /\ Occupancy \in Nat /\ Len(written) \in Nat
      /\ promised \in Nat /\ promised <= Len(written) + Occupancy
  BY <1>1, PlaceOfChunk, PlacesTyped, RingSize DEF RingIInv, CountInv, Typed
<1>4. Ahead(p) = 0
  BY <1>2, <1>3 DEF Ahead
<1>5. CASE ~Marked(br_ind)
  <2>1. ~(Len(written) + Ahead(p) < promised)
    BY <1>1, <1>5 DEF PromiseKept
  <2> QED
    BY <1>3, <1>4, <2>1
<1>6. CASE ~used[p]
  <2>1. ~(Ahead(p) < Occupancy)
    BY <1>3, <1>6 DEF RingIInv, RingInv
  <2> QED
    BY <1>3, <1>4, <2>1
<1> QED
  BY <1>5, <1>6

LEMMA StopStep ==
  ASSUME RingIInv, StopInv, [Next]_vars
  PROVE  StopKeepsBuffers'
<1> USE DEF ring, source, audio, rest
<1>0. Len(written) \in Nat /\ promised \in Nat /\ loops \in Nat
  BY AllAssumptions DEF RingIInv, Typed, ThreadsTyped, CountInv
<1> SUFFICES ASSUME apc' = "done", loops' > 0
             PROVE  Len(written') >= promised'
  BY DEF StopKeepsBuffers
<1>1. CASE apc = "done"
  <2>1. ~StopVideo
    BY <1>1, Zenon DEF StopInv, OverMeansOver, StopVideo
  <2>2. UNCHANGED <<loops, written>>
    BY <1>1 DEF Next, Source, Connect, PulseLoop, Callback, LockTwice, ChunkComplete, Claim, StoreChunk,
       FlagProcess, NextBuffer, CallbackEnds, MarkLast,
       AudioThread, AudioLoopTop, ProcessAudio, GetFlag, SetProcessing, TestUsed, WriteChunk,
       ReleaseBuffer, IOThread, SetSound, StartAudio, InitSound, InitFails, CreateAudioThread,
       JoinAudio, CloseStops, StopSource, FreeBuffers, GtkThread, StopVideo, StopAudio, JoinIO,
       PassSkip, Terminated, vars
  <2> QED
    BY <1>1, <2>1, <2>2, PromiseBefore DEF StopInv, StopKeepsBuffers
<1>2. CASE apc # "done"
  <2>1. \/ GetFlag /\ ~Marked(br_ind)
        \/ TestUsed /\ ~used[Pos(br_ind, r_ind)]
    <3>1. apc # apc'
      BY <1>2
    <3>2. AudioThread
      <4>1. CASE Source \/ IOThread
        BY <4>1, <1>2 DEF Source, Connect, PulseLoop, Callback, LockTwice, ChunkComplete, Claim, StoreChunk,
             FlagProcess, NextBuffer, CallbackEnds, MarkLast, IOThread, SetSound, StartAudio, InitSound,
             InitFails, CreateAudioThread, JoinAudio, CloseStops, StopSource, FreeBuffers
      <4>2. CASE GtkThread \/ PassSkip \/ Terminated \/ UNCHANGED vars
        BY <4>2, <1>2 DEF GtkThread, StopVideo, StopAudio, JoinIO, PassSkip, Terminated, vars
      <4> QED
        BY <4>1, <4>2 DEF Next
    <3>3. ~EndLoop(FALSE)
      BY <1>0 DEF EndLoop
    <3>4. CASE GetFlag
      <4>1. ~ToProcess(flag[br_ind]) /\ flag[br_ind] # "PROCESSING"
        BY <3>4 DEF GetFlag
      <4>2. ~Marked(br_ind)
        BY <4>1 DEF ToProcess, Marked
      <4> QED
        BY <3>4, <4>2
    <3>5. CASE TestUsed
      BY <3>5 DEF TestUsed, ChunkUsed
    <3>6. CASE WriteChunk \/ ReleaseBuffer \/ AudioLoopTop \/ ProcessAudio \/ SetProcessing
      BY <3>3, <3>6 DEF WriteChunk, ReleaseBuffer, AudioLoopTop, ProcessAudio, SetProcessing
    <3> QED
      BY <3>2, <3>4, <3>5, <3>6 DEF AudioThread
  <2>2. apc # "release" /\ UNCHANGED <<written, promised>>
    BY <2>1 DEF GetFlag, TestUsed
  <2>3. promised <= Len(written)
    BY <2>1, <2>2, NothingLeft DEF StopInv
  <2> QED
    BY <1>0, <2>2, <2>3
<1> QED
  BY <1>1, <1>2

(***************************************************************************)
(* The invariant of the audio ring.                                        *)
(***************************************************************************)
AudioInv == RingIInv /\ StopInv

LEMMA AudioInit == Init => AudioInv
<1> SUFFICES ASSUME Init PROVE AudioInv
  OBVIOUS
<1>1. Typed /\ PhaseInv /\ OwnerInv /\ FreeInv /\ FilledInv /\ CountInv
  BY TypedInit, PhaseInit, OwnerInit, FreeInit, FilledInit, CountInit
<1>2. promised = 0 /\ written = <<>> /\ apc = "none"
  BY DEF Init
<1>3. Len(written) = 0
  BY <1>2
<1>4. Occupancy = 0
  BY <1>1, <1>2, <1>3, PlacesTyped, AllAssumptions DEF CountInv, Pending, Init, Typed
<1>5. RingInv
  <2>1. \A p \in Positions : Ahead(p) \in Nat /\ ~used[p]
    BY PlacesTyped, <1>1 DEF Init, Typed
  <2> QED
    BY <1>2, <1>4, <2>1 DEF RingInv
<1>6. PromiseKept
  <2>1. \A b \in Bufs, c \in Chunks : Ahead(Pos(b, c)) \in Nat
    BY <1>1, PlaceOfChunk
  <2> QED
    BY <1>2, <1>3, <2>1 DEF PromiseKept
<1>7. OverMeansOver /\ StopKeepsBuffers
  BY <1>2 DEF OverMeansOver, Inside, StopKeepsBuffers
<1> QED
  BY <1>1, <1>5, <1>6, <1>7 DEF AudioInv, RingIInv, StopInv

LEMMA AudioStep == AudioInv /\ [Next]_vars => AudioInv'
<1> SUFFICES ASSUME AudioInv, [Next]_vars PROVE AudioInv'
  OBVIOUS
<1>1. Typed' /\ PhaseInv' /\ OwnerInv' /\ RingInv' /\ FreeInv' /\ FilledInv' /\ CountInv'
  BY TypedStep, PhaseStep, OwnerStep, RingStep, FreeStep, FilledStep, CountStep DEF AudioInv, RingIInv
<1>2. PromiseKept' /\ OverMeansOver' /\ StopKeepsBuffers'
  BY PromiseStep, OverStep, StopStep DEF AudioInv, RingIInv, StopInv
<1> QED
  BY <1>1, <1>2 DEF AudioInv, RingIInv, StopInv

LEMMA AudioInvariance == Spec => []AudioInv
BY AudioInit, AudioStep, PTL DEF Spec

LEMMA AudioTyped == AudioInv => TypeOK
<1> SUFFICES ASSUME AudioInv PROVE TypeOK
  OBVIOUS
<1>1. Typed /\ promised \in Nat /\ promised <= Len(written) + Occupancy
      /\ Len(written) + Occupancy + Pending <= recorded
  BY DEF AudioInv, RingIInv, CountInv
<1>2. Len(written) \in Nat /\ Occupancy \in 0 .. N /\ N \in Nat /\ Pending \in 0 .. 1
      /\ recorded \in 0 .. MaxChunks
  BY <1>1, PlacesTyped, RingSize DEF Typed, ThreadsTyped, Pending
<1> QED
  BY <1>1, <1>2, TypedIs, AllAssumptions

(* Theorem: every variable of the audio ring keeps its type: the indices   *)
(* stay within the two levels of the ring, the audio thread makes no more  *)
(* iterations than it has, and a stop promises no more than was recorded.  *)
THEOREM AudioTypes == Spec => []TypeOK
BY AudioInvariance, AudioTyped, PTL

(* Theorem: when Audio_loop ends by itself, every chunk that was in a      *)
(* complete buffer when the capture was stopped is in the file, however    *)
(* the source, the stop and the audio thread interleave.                   *)
THEOREM BuffersKept == Spec => []StopKeepsBuffers
<1>1. AudioInv => StopKeepsBuffers
  BY DEF AudioInv, StopInv
<1> QED
  BY <1>1, AudioInvariance, PTL

-----------------------------------------------------------------------------
(***************************************************************************)
(* Drops.  The source drops a chunk when the buffer it fills is marked,    *)
(* which is then the one the audio thread reads, and all others are full.  *)
(***************************************************************************)
LEMMA BehindByARing ==
  ASSUME Typed, RingInv, FreeInv, FilledInv, spc = "copy", Marked(bw_ind)
  PROVE  Occupancy >= N - BufSize
<1> DEFINE b == br_ind
<1> USE ChunksAreNat
<1>1. bw_ind = b /\ w_ind = 0 /\ b \in Bufs /\ r_ind \in 0 .. BufSize - 1
  BY DEF Typed, RingTyped, FilledInv, Unmarked, Marked
<1>2. /\ WritePos = Base(b) /\ Base(b) \in Nat /\ Base(b) + BufSize <= N /\ N \in Nat
      /\ WritePos \in Positions
  <2>1. WritePos = Pos(b, 0)
    BY <1>1 DEF WritePos
  <2> QED
    BY <1>1, <2>1, PosOf, RingSize
<1>3. Occupancy \in 0 .. N /\ ReadPos \in 0 .. N - 1
  BY PlacesTyped DEF Typed
<1>4. CASE apc = "release"
  <2>1. r_ind = 0 /\ ReadPos = Pos(NEXT_IND(b, BufNum), 0) /\ NEXT_IND(b, BufNum) \in Bufs
    BY <1>1, <1>4, PosNext DEF FreeInv, ReadPos
  <2>2. ReadPos = Base(NEXT_IND(b, BufNum)) + 0 /\ Base(NEXT_IND(b, BufNum)) \in Nat
    BY <2>1, PosOf
  <2>3. Base(NEXT_IND(b, BufNum)) = IF Base(b) + BufSize < N THEN Base(b) + BufSize ELSE 0
    BY <1>1, PosNext
  <2>4. Base(b) + BufSize < N \/ Base(b) = N - BufSize
    BY <1>2
  <2>5. CASE Base(b) + BufSize < N
    <3>1. ReadPos = WritePos + BufSize
      BY <1>2, <2>2, <2>3, <2>5
    <3> QED
      BY <1>2, <1>3, <3>1, OccupancyIs
  <2>6. CASE ~(Base(b) + BufSize < N)
    <3>1. ReadPos = 0 /\ WritePos = N - BufSize
      BY <1>2, <2>2, <2>3, <2>4, <2>6
    <3>2. WritePos > 0 \/ N = BufSize
      BY <1>2, <3>1
    <3> QED
      BY <1>2, <1>3, <3>1, <3>2, OccupancyIs
  <2> QED
    BY <2>5, <2>6
<1>5. CASE apc # "release"
  <2>1. ReadPos = Base(b) + r_ind
    BY <1>1, <1>5, PosOf DEF ReadPos
  <2>2. CASE r_ind = 0
    <3>1. ReadPos = Pos(b, 0) /\ WritePos = ReadPos
      BY <1>1, <1>2, <1>5, <2>1, <2>2 DEF ReadPos
    <3>2. used[ReadPos]
      BY <1>1, <1>5, <2>2, <3>1 DEF FilledInv, Unmarked, Left
    <3> QED
      BY <1>2, <3>1, <3>2, OccupancyIs
  <2>3. CASE r_ind > 0
    <3>1. ReadPos = WritePos + r_ind
      BY <1>2, <2>1
    <3> QED
      BY <1>1, <1>2, <1>3, <2>3, <3>1, OccupancyIs
  <2> QED
    BY <1>1, <2>2, <2>3
<1> QED
  BY <1>4, <1>5

(* Theorem: a chunk is dropped only when the ring is full but for what the *)
(* audio thread has taken of the one buffer it is reading.                 *)
THEOREM DropsWhenFull == Spec => DropMeansFull
<1> DEFINE Dropped == recorded' = recorded + 1 /\ spc' = "copy"
<1>1. ASSUME AudioInv, [Next]_vars, Dropped
      PROVE  Occupancy >= (BufNum - 1) * BufSize
  <2> USE DEF ring, source, audio, rest
  <2>0. recorded \in Nat
    BY <1>1, AllAssumptions DEF AudioInv, RingIInv, Typed, ThreadsTyped
  <2>1. ChunkComplete
    <3>1. recorded' # recorded
      BY <1>1, <2>0
    <3> QED
      BY <1>1, <3>1 DEF Next, Source, Connect, PulseLoop, Callback, LockTwice, Claim, StoreChunk,
       FlagProcess, NextBuffer, CallbackEnds, MarkLast,
       AudioThread, AudioLoopTop, ProcessAudio, GetFlag, SetProcessing, TestUsed, WriteChunk,
       ReleaseBuffer, IOThread, SetSound, StartAudio, InitSound, InitFails, CreateAudioThread,
       JoinAudio, CloseStops, StopSource, FreeBuffers, GtkThread, StopVideo, StopAudio, JoinIO,
       PassSkip, Terminated, vars
  <2>2. spc = "copy" /\ ~Writable(flag[bw_ind])
    BY <1>1, <2>1 DEF ChunkComplete
  <2>3. Marked(bw_ind)
    BY <1>1, <2>2 DEF Writable, Marked, AudioInv, RingIInv, Typed, RingTyped, OwnerInv, Flags
  <2>4. Occupancy >= N - BufSize
    BY <1>1, <2>2, <2>3, BehindByARing DEF AudioInv, RingIInv
  <2>5. N - BufSize = (BufNum - 1) * BufSize
    <3> DEFINE k == (BufNum - 1) * BufSize
    <3> HIDE DEF k
    <3>1. N = k + BufSize /\ k \in Nat /\ BufSize \in Nat
      BY RingSize DEF k
    <3>2. N - BufSize = k
      BY <3>1
    <3> QED
      BY <3>2 DEF k
  <2> QED
    BY <2>4, <2>5
<1>2. AudioInv /\ [Next]_vars => [Dropped => Occupancy >= (BufNum - 1) * BufSize]_vars
  BY <1>1
<1> QED
  BY <1>2, AudioInvariance, PTL DEF Spec, DropMeansFull

-----------------------------------------------------------------------------
(***************************************************************************)
(* The two-level ring implements the bounded FIFO.                         *)
(***************************************************************************)
LEMMA SlotAhead ==
  ASSUME Typed, NEW j \in 0 .. N - 1
  PROVE  Slot(j) \in Positions /\ Ahead(Slot(j)) = j
<1>1. /\ ReadPos \in 0 .. N - 1 /\ N \in Nat /\ Positions = 0 .. N - 1
  BY PlacesTyped, RingSize DEF Typed
<1>2. Slot(j) = IF ReadPos + j < N THEN ReadPos + j ELSE ReadPos + j - N
  BY DEF Slot, N
<1> QED
  BY <1>1, <1>2 DEF Ahead

ContentsOK ==
  Contents \in Seq(0 .. MaxChunks) /\ (allocated => Len(Contents) = Occupancy)

LEMMA ContentsType == Typed => ContentsOK
<1> SUFFICES ASSUME Typed PROVE ContentsOK
  OBVIOUS
<1>1. Occupancy \in 0 .. N /\ N \in Nat
  BY PlacesTyped, RingSize DEF Typed
<1>2. ASSUME NEW j \in 1 .. Occupancy
      PROVE  data[Slot(j - 1)] \in 0 .. MaxChunks
  <2>1. j - 1 \in 0 .. N - 1
    BY <1>1
  <2> QED
    BY <2>1, SlotAhead DEF Typed, RingTyped
<1> DEFINE T == 0 .. MaxChunks
           s == [j \in 1 .. Occupancy |-> data[Slot(j - 1)]]
<1>3. s \in Seq(T) /\ Len(s) = Occupancy
  <2> HIDE DEF T
  <2>1. \A j \in 1 .. Occupancy : data[Slot(j - 1)] \in T
    BY <1>2 DEF T
  <2>2. Occupancy \in Nat
    BY <1>1
  <2> QED
    BY <2>1, <2>2
<1>4. <<>> \in Seq(T)
  OBVIOUS
<1> QED
  BY <1>3, <1>4 DEF Contents, ContentsOK

LEMMA ContentsTypeAfter == Typed' => ContentsOK'
BY ContentsType, PTL

LEMMA StoreIsPut ==
  ASSUME Typed, Typed', OwnerInv, FreeInv, RingInv, allocated, StoreChunk
  PROVE  /\ Len(Contents) < N /\ recorded \in 0 .. MaxChunks
         /\ Contents' = Append(Contents, recorded)
<1>1. /\ allocated' = allocated /\ ReadPos' = ReadPos /\ data' = [data EXCEPT ![WritePos] = recorded]
      /\ recorded \in 0 .. MaxChunks /\ data \in [Positions -> 0 .. MaxChunks]
  BY StoreMoves DEF StoreChunk, Typed, RingTyped, ThreadsTyped
<1>2. /\ Occupancy' = Occupancy + 1 /\ Ahead(WritePos) = Occupancy /\ Occupancy < N
      /\ Occupancy \in 0 .. N /\ N \in Nat /\ WritePos \in Positions /\ WritePos \in 0 .. N - 1
  BY StoreCounts, PlaceFree, PlacesTyped, RingSize DEF StoreChunk, Typed
<1>3. Contents \in Seq(0 .. MaxChunks) /\ Len(Contents) = Occupancy
  BY ContentsType DEF ContentsOK
<1>4. Contents' \in Seq(0 .. MaxChunks) /\ Len(Contents') = Occupancy + 1
  BY <1>1, <1>2, ContentsTypeAfter DEF ContentsOK
<1>5. /\ Append(Contents, recorded) \in Seq(0 .. MaxChunks)
      /\ Len(Append(Contents, recorded)) = Occupancy + 1
      /\ \A i \in 1 .. Occupancy : Append(Contents, recorded)[i] = Contents[i]
      /\ Append(Contents, recorded)[Occupancy + 1] = recorded
  BY <1>1, <1>3, AppendProperties
<1>6. WritePos = Slot(Occupancy)
  <2>1. ReadPos \in 0 .. N - 1
    BY PlacesTyped DEF Typed
  <2>2. Slot(Occupancy) = IF ReadPos + Occupancy < N THEN ReadPos + Occupancy ELSE ReadPos + Occupancy - N
    BY DEF Slot, N
  <2> QED
    BY <1>2, <2>1, <2>2 DEF Ahead
<1>7. ASSUME NEW i \in 1 .. Occupancy + 1
      PROVE  Contents'[i] = Append(Contents, recorded)[i]
  <2>1. i - 1 \in 0 .. N - 1 /\ Slot(i - 1)' = Slot(i - 1) /\ Slot(i - 1) \in Positions
        /\ Ahead(Slot(i - 1)) = i - 1
    <3>1. i - 1 \in 0 .. N - 1
      BY <1>2
    <3> QED
      BY <1>1, <3>1, SlotAhead DEF Slot
  <2>2. Contents'[i] = data'[Slot(i - 1)]
    BY <1>1, <1>2, <2>1 DEF Contents
  <2>3. CASE i = Occupancy + 1
    <3>1. Slot(i - 1) = WritePos
      BY <1>2, <1>6, <2>3
    <3> QED
      BY <1>1, <1>2, <1>5, <2>2, <2>3, <3>1
  <2>4. CASE i \in 1 .. Occupancy
    <3>1. Slot(i - 1) # WritePos
      BY <1>2, <2>1, <2>4
    <3>2. Contents[i] = data[Slot(i - 1)]
      BY <2>4 DEF Contents
    <3> QED
      BY <1>1, <1>5, <2>1, <2>2, <2>4, <3>1, <3>2
  <2>5. i = Occupancy + 1 \/ i \in 1 .. Occupancy
    BY <1>2
  <2> QED
    BY <2>3, <2>4, <2>5
<1>8. Contents' = Append(Contents, recorded)
  BY <1>4, <1>5, <1>7, SeqEqual
<1> QED
  BY <1>1, <1>2, <1>3, <1>8

LEMMA WriteIsTake ==
  ASSUME Typed, Typed', RingInv, allocated, WriteChunk
  PROVE  Contents # <<>> /\ Contents' = Tail(Contents)
<1>1. allocated' = allocated /\ data' = data /\ ReadPos' = Move(ReadPos)
  BY WriteMoves DEF WriteChunk, Typed
<1>2. /\ Occupancy' = Occupancy - 1 /\ Occupancy \in 1 .. N /\ N \in Nat /\ ReadPos \in 0 .. N - 1
  BY WriteCounts, PlacesTyped, RingSize DEF Typed
<1>3. Contents \in Seq(0 .. MaxChunks) /\ Len(Contents) = Occupancy
  BY ContentsType DEF ContentsOK
<1>4. Contents' \in Seq(0 .. MaxChunks) /\ Len(Contents') = Occupancy - 1
  BY <1>1, <1>2, ContentsTypeAfter DEF ContentsOK
<1>5. /\ Contents # <<>> /\ Tail(Contents) \in Seq(0 .. MaxChunks)
      /\ Len(Tail(Contents)) = Occupancy - 1
      /\ \A i \in 1 .. Occupancy - 1 : Tail(Contents)[i] = Contents[i + 1]
  <2>1. Contents # <<>>
    BY <1>2, <1>3
  <2> QED
    BY <1>3, <2>1, HeadTailProperties
<1>6. ASSUME NEW i \in 1 .. Occupancy - 1
      PROVE  Contents'[i] = Tail(Contents)[i]
  <2>1. i \in 1 .. Occupancy' /\ i + 1 \in 1 .. Occupancy /\ i - 1 \in 0 .. N - 2 /\ i \in 1 .. N - 1
    BY <1>2
  <2>2. Contents'[i] = data'[Slot(i - 1)'] /\ Contents[i + 1] = data[Slot(i)]
    BY <1>1, <2>1 DEF Contents
  <2>3. Slot(i - 1)' = Slot(i)
    <3>1. Slot(i) = IF ReadPos + i < N THEN ReadPos + i ELSE ReadPos + i - N
      BY DEF Slot, N
    <3>2. Slot(i - 1)' = IF ReadPos' + (i - 1) < N THEN ReadPos' + (i - 1) ELSE ReadPos' + (i - 1) - N
      BY DEF Slot, N
    <3> QED
      BY <1>1, <1>2, <2>1, <3>1, <3>2 DEF Move
  <2> QED
    BY <1>1, <1>5, <2>2, <2>3
<1>7. Contents' = Tail(Contents)
  BY <1>4, <1>5, <1>6, SeqEqual
<1> QED
  BY <1>5, <1>7

LEMMA FifoStep ==
  AudioInv /\ AudioInv' /\ [Next]_vars => [Fifo!FifoNext]_(Fifo!fifoVars)
<1> SUFFICES ASSUME Typed, PhaseInv, OwnerInv, FreeInv, RingInv, CountInv,
                    Typed', CountInv', [Next]_vars
             PROVE  [Fifo!FifoNext]_(Fifo!fifoVars)
  BY DEF AudioInv, RingIInv
<1> USE DEF Fifo!FifoNext, Fifo!fifoVars
<1>1. CASE StoreChunk
  <2>1. allocated' = allocated
    BY <1>1 DEF StoreChunk
  <2>2. CASE allocated
    <3>1. recorded \in 0 .. MaxChunks
      BY <1>1, <2>2, StoreIsPut
    <3>2. Fifo!Put(recorded)
      BY <1>1, <2>1, <2>2, StoreIsPut DEF Fifo!Put, N
    <3> QED
      BY <3>1, <3>2
  <2>3. CASE ~allocated
    BY <2>1, <2>3 DEF Contents
  <2> QED
    BY <2>2, <2>3
<1>2. CASE WriteChunk
  <2>1. allocated' = allocated
    BY <1>2 DEF WriteChunk
  <2>2. CASE allocated
    BY <1>2, <2>1, <2>2, WriteIsTake DEF Fifo!Take
  <2>3. CASE ~allocated
    BY <2>1, <2>3 DEF Contents
  <2> QED
    BY <2>2, <2>3
<1>3. CASE InitSound
  <2>1. allocated' = TRUE
    BY <1>3, Zenon DEF InitSound
  <2>2. recorded' = 0
    <3>1. recorded' = recorded /\ spc = "none"
      BY <1>3 DEF InitSound, PhaseInv
    <3> QED
      BY <3>1 DEF PhaseInv
  <2>3. Occupancy' = 0
    <3>1. Typed' => /\ Len(written)' \in Nat /\ Occupancy' \in 0 .. N /\ N \in Nat
                    /\ Pending' \in 0 .. 1
      BY PlacesTypedAfter, RingSize DEF Typed, ThreadsTyped, Pending, PlacesOK
    <3> QED
      BY <2>2, <3>1 DEF CountInv
  <2>4. Contents' = <<>>
    BY <2>1, <2>3 DEF Contents
  <2> QED
    BY <2>1, <2>4 DEF Fifo!Open
<1>4. CASE FreeBuffers
  <2>1. allocated' = FALSE
    BY <1>4, Zenon DEF FreeBuffers
  <2>2. Contents' = <<>>
    BY <2>1 DEF Contents
  <2> QED
    BY <2>1, <2>2, Zenon DEF Fifo!Close
<1>5. CASE Still /\ ~InitSound /\ ~FreeBuffers
  <2>1. allocated' = allocated
    BY <1>5 DEF Next, Source, Connect, PulseLoop, Callback, LockTwice, ChunkComplete, Claim, StoreChunk,
       FlagProcess, NextBuffer, CallbackEnds, MarkLast,
       AudioThread, AudioLoopTop, ProcessAudio, GetFlag, SetProcessing, TestUsed, WriteChunk,
       ReleaseBuffer, IOThread, SetSound, StartAudio, InitFails, CreateAudioThread,
       JoinAudio, CloseStops, StopSource, GtkThread, StopVideo, StopAudio, JoinIO,
       PassSkip, Terminated, vars, ring, source, audio, rest
  <2>2. UNCHANGED <<data, ReadPos, Occupancy>>
    BY <1>5 DEF Still
  <2>3. Contents' = Contents
    BY <2>1, <2>2 DEF Contents, Slot
  <2> QED
    BY <2>1, <2>3
<1> QED
  BY <1>1, <1>2, <1>3, <1>4, <1>5, OtherSteps

(* Theorem: buffers, flags and the two pairs of indices are a bounded FIFO *)
(* of BufNum * BufSize chunks: no chunk the source stored is lost,         *)
(* repeated, overwritten or reordered before the buffers are freed.        *)
THEOREM AudioIsFifo == Spec => ImplementsFifo
<1>1. Init => Fifo!FifoInit
  <2> SUFFICES ASSUME Init PROVE Fifo!FifoInit
    OBVIOUS
  <2>1. allocated = FALSE
    BY Zenon DEF Init
  <2> QED
    BY <2>1, Zenon DEF Fifo!FifoInit, Contents
<1> QED
  BY <1>1, AudioInvariance, FifoStep, PTL DEF Spec, ImplementsFifo, Fifo!FifoSpec
=============================================================================
