------------------------------- MODULE Capture -------------------------------
(***************************************************************************)
(* The life of captures: the GTK thread with its handlers (the capture     *)
(* button, the disk check timer, the capture timer, the shutdown), the IO  *)
(* threads it creates and joins, and the video thread, which stops and     *)
(* joins a capture when it exits.  What they share is videoIn->capVid and  *)
(* the one handle all_data->IO_thread.                                     *)
(*                                                                         *)
(* The rings the threads work on are in VideoRing and AudioRing.           *)
(***************************************************************************)
EXTENDS Integers, Sequences, FiniteSets, SequencesExt

CONSTANTS
  MaxThreads,   (* bound: the IO threads that are created                   *)
  MaxDialogs,   (* bound: dialogs that are open at a time                   *)
  Options,      (* command lines: of "timed", "exit", "untimed", "later"    *)
  CanFail,      (* failures considered: of "init", "thread", "video"        *)
  Patience      (* TRUE: nothing happens while a capture is starting or a   *)
                (* dialog waits for its answer, and the camera keeps        *)
                (* working; FALSE: none of this is sure                     *)

ASSUME BoundsAssumption == MaxThreads \in Nat \ {0} /\ MaxDialogs \in Nat \ {0}
ASSUME OptionsAssumption == Options \subseteq {"timed", "exit", "untimed", "later"}
ASSUME FailAssumption == CanFail \subseteq {"init", "thread", "video"}
ASSUME PatienceAssumption == Patience \subseteq BOOLEAN

VARIABLES
  capVid, signalquit, IOfinished,   (* of videoIn                           *)
  option, display, patient,         (* the command line, the environment    *)
  todo,                             (* what the GTK thread has begun and    *)
                                    (* still has to do, the next step first *)
  button, sensitive,                (* CapVidButt is active; the video and  *)
                                    (* sound controls are (vid_widget_state)*)
  capTimer,                         (* the source of timer_callback is live *)
  disk_timer_id, sources,           (* the field, the live disk check       *)
                                    (* sources, the ids of those that are   *)
  dispatched,                       (* being dispatched, innermost first    *)
  handle, io, joins,                (* all_data->IO_thread, the IO threads, *)
                                    (* the joins made of each               *)
  vpc,                              (* the video thread                     *)
  freed                             (* clean_struct is done                 *)

flags == <<capVid, signalquit, IOfinished>>
config == <<option, display, patient>>
timers == <<capTimer, disk_timer_id, sources, dispatched>>
threads == <<handle, io, joins, vpc>>
window == <<button, sensitive>>
vars == <<flags, config, todo, window, timers, threads, freed>>

Threads == 1 .. MaxThreads

(* An IO thread that has not set capVid yet, or has failed to.             *)
Starting == \E t \in Threads : io[t] \in {"created", "init", "failed"}
Active(t) == io[t] \in {"created", "init", "run", "close"}

(* main: a capture named on the command line is started before gtk_main.   *)
Init ==
  /\ capVid = FALSE /\ signalquit = FALSE /\ IOfinished = FALSE
  /\ option \in Options /\ display \in BOOLEAN /\ patient \in Patience
  /\ todo = IF option = "later" THEN <<>> ELSE <<"main">>
  /\ button = (display /\ option # "later") /\ sensitive = TRUE
  /\ capTimer = FALSE /\ disk_timer_id = 0 /\ sources = {} /\ dispatched = <<>>
  /\ handle = 0 /\ io = [t \in Threads |-> "none"] /\ joins = [t \in Threads |-> 0]
  /\ vpc = "loop" /\ freed = FALSE
-----------------------------------------------------------------------------
(***************************************************************************)
(* The GTK thread takes its next step.                                     *)
(***************************************************************************)
At(step) == ~freed /\ todo # <<>> /\ Head(todo) = step
Then(steps) == todo' = steps \o Tail(todo)

(* capture_vid blocks its own signal until it returns, also while a dialog *)
(* it has opened runs a main loop.                                         *)
(* Mutant: it does not.                                                    *)
CaptureVidSteps == {"stop", "join", "release", "supervise", "refused", "create", "label"}
NotBlocked == FALSE
Blocked == \E i \in DOMAIN todo : todo[i] \in CaptureVidSteps

(* gtk_toggle_button_set_active(FALSE): "toggled" is emitted if that is a  *)
(* change.                                                                 *)
Deactivate(after) ==
  /\ button' = FALSE
  /\ todo' = (IF display /\ button /\ ~Blocked THEN <<"read">> ELSE <<>>) \o after

(* The timers: the button, or without a display the handler itself.        *)
ToggleOff(after) ==
  IF display THEN Deactivate(after)
  ELSE todo' = <<"read">> \o after /\ UNCHANGED button

(* DiskSupervisor: FALSE after a warning, which is a dialog with a main    *)
(* loop of its own.  Bound: no space for more than MaxThreads captures.    *)
DiskIsFull(refused) == Then(IF display THEN <<"dialog", refused>> ELSE <<refused>>)
NewThreads == {t \in Threads : io[t] = "none" /\ \A s \in Threads : s < t => io[s] # "none"}

(* capture_vid stops or starts, whatever the button shows.                 *)
ReadCapVid ==
  /\ At("read")
  /\ Then(IF capVid THEN <<"stop">> ELSE <<"supervise">>)
  /\ UNCHANGED <<flags, config, window, timers, threads, freed>>

StopCapture ==
  /\ At("stop")
  /\ capVid' = FALSE
  /\ Then(<<"join">>)
  /\ UNCHANGED <<signalquit, IOfinished, config, window, timers, threads, freed>>

(* Bound: a thread joined more than twice counts as joined twice.          *)
Joined(t) == joins' = [joins EXCEPT ![t] = IF @ = 0 THEN 1 ELSE 2]

(* Mutant: the thread is not joined.                                       *)
NotJoined == TRUE
JoinReturns == io[handle] = "gone"

JoinIO ==
  /\ At("join")
  /\ JoinReturns
  /\ Joined(handle)
  /\ Then(<<"release">>)
  /\ UNCHANGED <<flags, config, window, timers, handle, io, vpc, freed>>

(* Mutant: a wrong value for no timer.                                     *)
MinusOne == -1
NoTimer == 0

ReleaseTimer ==
  /\ At("release")
  /\ button' = FALSE /\ sensitive' = TRUE
  /\ sources' = sources \ {disk_timer_id}
  /\ disk_timer_id' = NoTimer
  /\ Then(<<>>)
  /\ UNCHANGED <<flags, config, capTimer, dispatched, threads, freed>>

SuperviseStart ==
  /\ At("supervise")
  /\ \/ NewThreads # {} /\ Then(<<"create">>)
     \/ DiskIsFull("refused")
  /\ UNCHANGED <<flags, config, window, timers, threads, freed>>

StartRefused ==
  /\ At("refused")
  /\ button' = FALSE
  /\ Then(<<>>)
  /\ UNCHANGED <<flags, config, sensitive, timers, threads, freed>>

(* The disk check timer, unless there is one; its id is the thread's.      *)
ArmTimer(t) ==
  IF disk_timer_id = 0
  THEN disk_timer_id' = t /\ sources' = sources \cup {t}
  ELSE UNCHANGED <<disk_timer_id, sources>>

CreateThread(t) ==
  /\ ArmTimer(t)
  /\ handle' = t
  /\ io' = [io EXCEPT ![t] = "created"]

CreateFails(t) ==
  /\ "thread" \in CanFail
  /\ ArmTimer(t)
  /\ io' = [io EXCEPT ![t] = "gone"]
  /\ UNCHANGED handle

(* The controls of the video and the sound are disabled while a capture    *)
(* runs.                                                                   *)
LockControls == sensitive' = (sensitive /\ ~display)

CreateIO ==
  /\ At("create")
  /\ LockControls
  /\ \E t \in NewThreads :
       \/ CreateThread(t) /\ Then(<<"label">>)
       \/ CreateFails(t) /\ Then(<<"refused">>)
  /\ UNCHANGED <<flags, config, button, capTimer, dispatched, joins, vpc, freed>>

Activated == display

LabelButton ==
  /\ At("label")
  /\ button' = Activated
  /\ Then(<<>>)
  /\ UNCHANGED <<flags, config, sensitive, timers, threads, freed>>

(* main: the same for the capture of the command line, with the capture    *)
(* timer.                                                                  *)
MainStarts ==
  /\ At("main")
  /\ \/ \E t \in NewThreads :
          \/ CreateThread(t) /\ capTimer' = (option # "untimed") /\ Then(<<"main locks">>)
          \/ CreateFails(t) /\ Then(<<"main fails">>) /\ UNCHANGED capTimer
     \/ DiskIsFull("main fails") /\ UNCHANGED <<capTimer, disk_timer_id, sources, handle, io>>
  /\ UNCHANGED <<flags, config, window, dispatched, joins, vpc, freed>>

MainLocks ==
  /\ At("main locks")
  /\ LockControls
  /\ Then(<<>>)
  /\ UNCHANGED <<flags, config, button, timers, threads, freed>>

(* The button is deactivated with its signal connected.                    *)
MainFails ==
  /\ At("main fails")
  /\ Deactivate(<<"not started">> \o Tail(todo))
  /\ UNCHANGED <<flags, config, sensitive, timers, threads, freed>>

MainGoesOn ==
  /\ At("not started")
  /\ Then(<<>>)
  /\ UNCHANGED <<flags, config, window, timers, threads, freed>>

(* The disk check stops the capture, and its source is destroyed.          *)
DiskStops ==
  /\ At("disk stops")
  /\ ToggleOff(Tail(todo))
  /\ UNCHANGED <<flags, config, sensitive, timers, threads, freed>>

DiskTimerEnds ==
  /\ At("disk ends")
  /\ sources' = sources \ {Head(dispatched)}
  /\ dispatched' = Tail(dispatched)
  /\ Then(<<>>)
  /\ UNCHANGED <<flags, config, window, capTimer, disk_timer_id, threads, freed>>

TimerEnds ==
  /\ At("timer ends")
  /\ Then(IF option = "exit" THEN <<"signal">> ELSE <<>>)
  /\ UNCHANGED <<flags, config, window, timers, threads, freed>>

(* shutd.                                                                  *)
SignalQuit ==
  /\ At("signal")
  /\ signalquit' = TRUE
  /\ Then(<<"await">>)
  /\ UNCHANGED <<capVid, IOfinished, config, window, timers, threads, freed>>

VideoEnds == vpc = "gone"

AwaitVideo ==
  /\ At("await")
  /\ VideoEnds
  /\ Then(<<"clean">>)
  /\ UNCHANGED <<flags, config, window, timers, threads, freed>>

CleanStruct ==
  /\ At("clean")
  /\ freed' = TRUE
  /\ Then(<<>>)
  /\ UNCHANGED <<flags, config, window, timers, threads>>

GtkThread ==
  \/ ReadCapVid \/ StopCapture \/ JoinIO \/ ReleaseTimer
  \/ SuperviseStart \/ StartRefused \/ CreateIO \/ LabelButton
  \/ MainStarts \/ MainLocks \/ MainFails \/ MainGoesOn
  \/ DiskStops \/ DiskTimerEnds \/ TimerEnds
  \/ SignalQuit \/ AwaitVideo \/ CleanStruct
-----------------------------------------------------------------------------
(***************************************************************************)
(* Events the main loop dispatches, that of a dialog included.             *)
(***************************************************************************)
Dialogs == Cardinality({i \in DOMAIN todo : todo[i] = "dialog"})

(* No dialog is open: one that is keeps the user from the window.          *)
WindowReady == ~freed /\ todo = <<>> /\ (patient => ~Starting)
LoopReady == WindowReady \/ (At("dialog") /\ ~patient /\ Dialogs < MaxDialogs)

CloseDialog ==
  /\ At("dialog")
  /\ Then(<<>>)
  /\ UNCHANGED <<flags, config, window, timers, threads, freed>>

(* A click changes the button and emits "toggled".                         *)
Click ==
  /\ display /\ WindowReady
  /\ button' = ~button
  /\ todo' = <<"read">>
  /\ UNCHANGED <<flags, config, sensitive, timers, threads, freed>>

(* A key of the SDL window or the webcam's button emits "toggled" only.    *)
Key ==
  /\ display /\ LoopReady
  /\ ~Blocked
  /\ todo' = <<"read">> \o todo
  /\ UNCHANGED <<flags, config, window, timers, threads, freed>>

(* A new resolution deactivates the button if a capture is running.        *)
ChangeResolution ==
  /\ display /\ WindowReady
  /\ sensitive
  /\ capVid
  /\ Deactivate(<<>>)
  /\ UNCHANGED <<flags, config, sensitive, timers, threads, freed>>

CaptureTimer ==
  /\ LoopReady
  /\ capTimer
  /\ capTimer' = FALSE
  /\ ToggleOff(<<"timer ends">> \o todo)
  /\ UNCHANGED <<flags, config, sensitive, disk_timer_id, sources, dispatched, threads, freed>>

(* FreeDiskCheck_timer: it keeps its source while there is space.          *)
DiskTimer(id) ==
  /\ LoopReady
  /\ id \in sources \ ToSet(dispatched)
  /\ \/ /\ ~capVid
        /\ sources' = sources \ {id}
        /\ UNCHANGED <<todo, dispatched>>
     \/ /\ capVid
        /\ todo' = (IF display THEN <<"dialog">> ELSE <<>>) \o <<"disk stops", "disk ends">> \o todo
        /\ dispatched' = <<id>> \o dispatched
        /\ UNCHANGED sources
  /\ UNCHANGED <<flags, config, window, capTimer, disk_timer_id, threads, freed>>

(* The quit button, the window, a signal or a key of the SDL window.       *)
Quit ==
  /\ LoopReady
  /\ todo' = <<"signal">> \o todo
  /\ UNCHANGED <<flags, config, window, timers, threads, freed>>

Event ==
  \/ CloseDialog \/ Click \/ Key \/ ChangeResolution \/ CaptureTimer \/ Quit
  \/ \E id \in Threads : DiskTimer(id)
-----------------------------------------------------------------------------
(***************************************************************************)
(* An IO thread: IO_loop.                                                  *)
(***************************************************************************)
IOStarts(t) ==
  /\ io[t] = "created"
  /\ IOfinished' = FALSE
  /\ io' = [io EXCEPT ![t] = "init"]
  /\ UNCHANGED <<capVid, signalquit, config, todo, window, timers, handle, joins, vpc, freed>>

(* initVideoFile.                                                          *)
InitSucceeds(t) ==
  /\ io[t] = "init"
  /\ capVid' = TRUE
  /\ io' = [io EXCEPT ![t] = "run"]
  /\ UNCHANGED <<signalquit, IOfinished, config, todo, window, timers, handle, joins, vpc, freed>>

(* The button is deactivated, with the signal blocked.                     *)
InitFails(t) ==
  /\ io[t] = "init" /\ "init" \in CanFail
  /\ capVid' = FALSE
  /\ button' = FALSE /\ sensitive' = TRUE
  /\ io' = [io EXCEPT ![t] = "failed"]
  /\ UNCHANGED <<signalquit, IOfinished, config, todo, timers, handle, joins, vpc, freed>>

(* The video loop ends, and closeVideoFile clears capVid once more.        *)
(* Mutant: the loop goes on after a stop.                                  *)
NeverEnds == FALSE
LoopEnds == ~capVid

EndLoop(t) ==
  /\ io[t] = "run"
  /\ LoopEnds
  /\ io' = [io EXCEPT ![t] = "close"]
  /\ UNCHANGED <<flags, config, todo, window, timers, handle, joins, vpc, freed>>

CloseFile(t) ==
  /\ io[t] = "close"
  /\ capVid' = FALSE
  /\ io' = [io EXCEPT ![t] = "finish"]
  /\ UNCHANGED <<signalquit, IOfinished, config, todo, window, timers, handle, joins, vpc, freed>>

IOFinishes(t) ==
  /\ io[t] \in {"finish", "failed"}
  /\ IOfinished' = TRUE
  /\ io' = [io EXCEPT ![t] = "gone"]
  /\ UNCHANGED <<capVid, signalquit, config, todo, window, timers, handle, joins, vpc, freed>>

IOThread(t) ==
  \/ IOStarts(t) \/ InitSucceeds(t) \/ InitFails(t)
  \/ EndLoop(t) \/ CloseFile(t) \/ IOFinishes(t)
-----------------------------------------------------------------------------
(***************************************************************************)
(* The video thread: main_loop from its last iteration on.                 *)
(***************************************************************************)

(* uvcGrab or restart_v4l2 gives up.                                       *)
VideoFails ==
  /\ "video" \in CanFail /\ ~patient /\ vpc = "loop"
  /\ signalquit' = TRUE
  /\ UNCHANGED <<capVid, IOfinished, config, todo, window, timers, threads, freed>>

Quits == signalquit

VideoLoopEnds ==
  /\ vpc = "loop" /\ Quits
  /\ vpc' = "exit"
  /\ UNCHANGED <<flags, config, todo, window, timers, handle, io, joins, freed>>

(* Mutant: a capture is left running.                                      *)
NotChecked == FALSE
CaptureRuns == capVid

ExitChecks ==
  /\ vpc = "exit"
  /\ vpc' = IF CaptureRuns THEN "stop" ELSE "gone"
  /\ UNCHANGED <<flags, config, todo, window, timers, handle, io, joins, freed>>

ExitStops ==
  /\ vpc = "stop"
  /\ capVid' = FALSE
  /\ vpc' = "join"
  /\ UNCHANGED <<signalquit, IOfinished, config, todo, window, timers, handle, io, joins, freed>>

ExitJoins ==
  /\ vpc = "join"
  /\ io[handle] = "gone"
  /\ Joined(handle)
  /\ vpc' = "gone"
  /\ UNCHANGED <<flags, config, todo, window, timers, handle, io, freed>>

VideoThread == VideoLoopEnds \/ ExitChecks \/ ExitStops \/ ExitJoins

Terminated == freed /\ UNCHANGED vars

Next ==
  \/ GtkThread \/ Event \/ (\E t \in Threads : IOThread(t))
  \/ VideoFails \/ VideoThread \/ Terminated

Spec == Init /\ [][Next]_vars

(* The threads run; the events are up to the user and the clock.           *)
Fairness ==
  WF_vars(GtkThread) /\ WF_vars(VideoThread) /\ (\A t \in Threads : WF_vars(IOThread(t)))

FairSpec == Spec /\ Fairness
-----------------------------------------------------------------------------
(***************************************************************************)
(* Properties.                                                             *)
(***************************************************************************)
Steps == CaptureVidSteps \cup
  {"main", "main locks", "main fails", "not started", "read", "dialog", "disk stops", "disk ends",
   "timer ends", "signal", "await", "clean"}

(* Every variable ranges over what its declaration in the code holds.      *)
TypeOK ==
  /\ capVid \in BOOLEAN /\ signalquit \in BOOLEAN /\ IOfinished \in BOOLEAN
  /\ option \in Options /\ display \in BOOLEAN /\ patient \in Patience
  /\ todo \in Seq(Steps)
  /\ button \in BOOLEAN /\ sensitive \in BOOLEAN /\ capTimer \in BOOLEAN
  /\ disk_timer_id \in 0 .. MaxThreads /\ sources \subseteq Threads
  /\ dispatched \in Seq(Threads)
  /\ handle \in 0 .. MaxThreads /\ joins \in [Threads -> 0 .. 2]
  /\ io \in [Threads -> {"none", "created", "init", "run", "close", "finish", "failed", "gone"}]
  /\ vpc \in {"loop", "exit", "stop", "join", "gone"} /\ freed \in BOOLEAN

(* One IO thread at a time works on the file, the rings and the encoders,  *)
(* in a patient environment, and each is joined once: by the handler that  *)
(* stops its capture or by the video thread, never by both.                *)
OneIOThread ==
  patient => /\ Cardinality({t \in Threads : Active(t)}) <= 1
             /\ \A t \in Threads : joins[t] <= 1

(* When clean_struct has freed the structures, no thread uses them and no  *)
(* handler is left to return to.  (The option to exit after the capture    *)
(* timer breaks this: the timer may start a capture and then shut down.)   *)
NoUseAfterFree ==
  (freed /\ patient /\ option # "exit")
    => vpc = "gone" /\ todo = <<>> /\ \A t \in Threads : io[t] \in {"none", "gone"}

(* "disable signals for this callback": capture_vid is not entered while   *)
(* it runs, also not from the main loop of its own dialog, and there is    *)
(* never more than one disk check, one that is being dispatched and will   *)
(* be destroyed aside.                                                     *)
NotReentered ==
  /\ Cardinality({i \in DOMAIN todo : todo[i] \in CaptureVidSteps}) <= 1
  /\ Cardinality(sources \ ToSet(dispatched)) <= 1

(* A handler that stops a capture returns, and a shutdown comes to its     *)
(* end, in a patient environment.                                          *)
StopsComplete ==
  /\ (patient /\ todo # <<>> /\ Head(todo) = "join") ~> (todo = <<>> \/ Head(todo) # "join")
  /\ (patient /\ signalquit) ~> freed

(* "called by video capture every 10 sec for checking disk free space".    *)
DiskChecked == (capVid /\ \E t \in Threads : io[t] = "run") => sources # {}

(* "stop video capture": a shutdown leaves no capture running.             *)
ShutdownStops == freed => ~\E t \in Threads : Active(t)
=============================================================================
