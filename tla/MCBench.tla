------------------------------- MODULE MCBench -------------------------------
(***************************************************************************)
(* Instances of the components that work alone, for TLC: one run in which  *)
(* each of them is a machine of its own.  part says which of them runs;    *)
(* the others stay as they are when the program starts.                    *)
(***************************************************************************)
EXTENDS ImageCapture, FileWriter, AviFile, MkvFile, LavcQueue, Autofocus, MCControls

VARIABLE part

benchVars == <<part, vars, writerVars, aviVars, mkvVars, lavcVars, focusVars, controlsVars>>

(* Autofocus: a hill of sharpness, and two of them with flat sides.        *)
Hill == [q \in FocusMin .. FocusMax |-> 640 - 80 * Distance(5, q)]
TwoHills == [q \in FocusMin .. FocusMax |-> IF q = 0 THEN 400 ELSE IF q = 5 THEN 480 ELSE 160]
MCScenes == {Hill, TwoHills}

Alone(p) ==
  /\ p # "pictures" => ~timed /\ ~exits /\ patient /\ format = "file" /\ image_inc = 0
  /\ p # "avi" => ~mpegAudio
  /\ p # "lavc" => delay = 0
  /\ p # "focus" => autofocus /\ scene = Hill
  /\ p # "controls" => camera = Gain({}) \o Zoom({"ro"}) \o Zoom({}) /\ \A k \in Controls : panel.dev[k] = 0

BenchInit ==
  /\ Init /\ WriterInit /\ AviInit /\ MkvInit /\ LavcInit /\ FocusInit /\ ControlsInit
  /\ part \in {"pictures", "writer", "avi", "mkv", "lavc", "focus", "controls"}
  /\ Alone(part)

Pictures ==
  /\ part = "pictures" /\ Next
  /\ UNCHANGED <<part, writerVars, aviVars, mkvVars, lavcVars, focusVars, controlsVars>>
Writer ==
  /\ part = "writer" /\ WriterNext
  /\ UNCHANGED <<part, vars, aviVars, mkvVars, lavcVars, focusVars, controlsVars>>
Avi ==
  /\ part = "avi" /\ AviNext
  /\ UNCHANGED <<part, vars, writerVars, mkvVars, lavcVars, focusVars, controlsVars>>
Mkv ==
  /\ part = "mkv" /\ MkvNext
  /\ UNCHANGED <<part, vars, writerVars, aviVars, lavcVars, focusVars, controlsVars>>
Lavc ==
  /\ part = "lavc" /\ LavcNext
  /\ UNCHANGED <<part, vars, writerVars, aviVars, mkvVars, focusVars, controlsVars>>

Focus(action) ==
  /\ part = "focus" /\ action
  /\ UNCHANGED <<part, vars, writerVars, aviVars, mkvVars, lavcVars, controlsVars>>
ControlsPart ==
  /\ part = "controls" /\ ControlsNext
  /\ UNCHANGED <<part, vars, writerVars, aviVars, mkvVars, lavcVars, focusVars>>

BenchNext == Pictures \/ Writer \/ Avi \/ Mkv \/ Lavc \/ Focus(FocusNext) \/ ControlsPart

BenchSpec ==
  /\ BenchInit /\ [][BenchNext]_benchVars
  /\ WF_benchVars(Focus(FocusFrame)) /\ WF_benchVars(Focus(FocusCallback))

(* Every variable of every component keeps to its range: no write outside  *)
(* the writer's buffer, the samples of a search or the delayed stamps.     *)
TypesOK ==
  /\ TypeOK /\ WriterTypeOK /\ PatchKept /\ AviTypeOK /\ MkvTypeOK /\ LavcTypeOK
  /\ FocusTypeOK /\ ControlsTypeOK
=============================================================================
