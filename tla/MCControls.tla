----------------------------- MODULE MCControls -----------------------------
(***************************************************************************)
(* Cameras for TLC: an automatic control before the ones it takes care of  *)
(* or after them (special), two and three classes of controls, controls    *)
(* that cannot be written or read.                                         *)
(***************************************************************************)
EXTENDS Controls

Control(class, max, default, has) ==
  [class |-> class, max |-> max, default |-> default, auto |-> 0, busy |-> {}, special |-> FALSE,
   flags |-> has]
Under(control, auto, busy) == [control EXCEPT !.auto = auto, !.busy = busy]
Special(control) == [control EXCEPT !.special = TRUE]

Hue == <<Under(Control(1, 1, 1, {}), 2, {1}), Special(Control(1, 1, 0, {}))>>
Exposure(k, iris) ==
  <<Control(2, 2, 2, {}), Under(Control(2, 1, 1, {}), k, {1, 2}), Under(Control(2, 1, 0, iris), k, {1})>>
Meter == <<Control(1, 1, 0, {"ro"}), Under(Control(1, 1, 1, {}), 1, {1})>>
Gain(has) == <<Control(1, 1, 1, has)>>
Zoom(has) == <<Control(2, 1, 1, has)>>
Led(has) == <<Control(3, 1, 1, has)>>

MCCameras ==
  {Hue \o Exposure(3, {}),
   Hue \o Zoom({}) \o Led({}),
   Meter \o Led({"ro"}),
   Gain({}) \o Exposure(2, {"wo"}) \o Led({}),
   Gain({"wo"}) \o Gain({}) \o Zoom({"ro"}) \o Zoom({}) \o Led({}),
   Gain({}) \o Zoom({"ro"}) \o Zoom({})}

(* What the proofs assume of a camera holds of these.                      *)
ASSUME OrderlyCameras == \A c \in MCCameras : OrderlyAutos(c)
=============================================================================
