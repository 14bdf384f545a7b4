------------------------------- MODULE Controls -------------------------------
(***************************************************************************)
(* The camera controls (v4l2_controls.c) and their profiles (profile.c).   *)
(* The program keeps a list of the controls, by id and so by class, with   *)
(* the value it shows of each and its flags; the device keeps the values.  *)
(* Values are set and read class by class, in one call for all of them,    *)
(* and one by one when that fails.  A control that an automatic one takes  *)
(* care of is grabbed, and the device refuses it.  GTK callbacks run one   *)
(* after the other.  The device is external.                               *)
(***************************************************************************)
EXTENDS Integers, Sequences

CONSTANTS
  Cameras, \* sequences of controls: class, max, default, the place of the
           \* automatic control (or 0), in which of its values (busy) it
           \* refuses this one, special (its automatic control comes later),
           \* and the flags, a subset of {"ro", "wo"}
  Values   \* bound: what the device starts with, and what junk may be

ControlRec ==
  [class : Nat, max : Nat, default : Nat, auto : Nat, busy : SUBSET Nat, special : BOOLEAN,
   flags : SUBSET {"ro", "wo"}]

ASSUME ControlsAssumption ==
  /\ Values \subseteq Nat
  /\ \A c \in Cameras :
       /\ c \in Seq(ControlRec) /\ Len(c) > 0
       /\ \A k \in 1 .. Len(c) :
            c[k].auto \in 0 .. Len(c) \ {k} /\ c[k].default <= c[k].max
       /\ \A j, k \in 1 .. Len(c) : j <= k => c[j].class <= c[k].class

UserClass == 1
Busy == "grabbed"

VARIABLES
  camera,    (* the controls                                                 *)
  panel,     (* dev: the values in the device; value, flags: those listed    *)
  profile,   (* the file: a sequence of controls and values                  *)
  crashed,   (* NULL was dereferenced                                        *)
  asked,     (* history: what the last Defaults or Load was to set           *)
  moved      (* history: the read-only controls whose widget the user moved  *)
             (* since the panel was last read                                *)

controlsVars == <<camera, panel, profile, crashed, asked, moved>>

Controls == 1 .. Len(camera)
Count == Len(camera)
-----------------------------------------------------------------------------
(***************************************************************************)
(* The device.                                                             *)
(***************************************************************************)
Refuses(dev, k) ==
  \/ "ro" \in camera[k].flags
  \/ camera[k].auto # 0 /\ dev[camera[k].auto] \in camera[k].busy

(* VIDIOC_S_CTRL and a VIDIOC_S_EXT_CTRLS of one control.                  *)
SetOne(dev, e) == IF Refuses(dev, e.id) THEN dev ELSE [dev EXCEPT ![e.id] = e.value]

(* VIDIOC_S_EXT_CTRLS of the items at these places: in order, and all of   *)
(* them or none.                                                           *)
SetUpTo(dev, items, places, n) ==
  LET d[k \in 0 .. n] ==
        IF k = 0 THEN dev ELSE IF k \in places THEN SetOne(d[k - 1], items[k]) ELSE d[k - 1]
  IN d[n]
TakesAll(dev, items, places, class) ==
  \A k \in places :
    /\ camera[items[k].id].class = class
    /\ ~Refuses(SetUpTo(dev, items, places, k - 1), items[k].id)

Readable(k) == "wo" \notin camera[k].flags
-----------------------------------------------------------------------------
(***************************************************************************)
(* One control.                                                            *)
(***************************************************************************)

(* & !(GRABBED) clears every flag there is.                                *)
(* Mutant: the flag stays when the automatic control is turned off.        *)
StaysGrabbed(p, id) ==
  [p EXCEPT !.flags = [k \in Controls |->
     IF camera[k].auto = id /\ p.value[id] \in camera[k].busy THEN @[k] \cup {Busy} ELSE @[k]]]
update_ctrl_flags(p, id) ==
  [p EXCEPT !.flags = [k \in Controls |->
     IF camera[k].auto # id THEN @[k]
     ELSE IF p.value[id] \in camera[k].busy THEN @[k] \cup {Busy} ELSE {}]]

get_ctrl(p, id) ==
  IF "wo" \in p.flags[id] THEN p
  ELSE update_ctrl_flags(IF Readable(id) THEN [p EXCEPT !.value[id] = p.dev[id]] ELSE p, id)

set_ctrl(p, id) ==
  IF "ro" \in p.flags[id] THEN p
  ELSE get_ctrl([p EXCEPT !.dev = SetOne(@, [id |-> id, value |-> p.value[id]])], id)

(* Mutant: the automatic control is left on.                               *)
LeavesAuto(p, id) == p
disable_special_auto(p, id) ==
  IF camera[id].special THEN set_ctrl([p EXCEPT !.value[id] = 0], id) ELSE p
-----------------------------------------------------------------------------
(***************************************************************************)
(* All controls.  The loops go through a list as long as it has a next     *)
(* one, so that the last control is left out, and a class is only handled  *)
(* when a control of the next class follows its last one: with the places  *)
(* collected since the last call, batch, which may be of several classes.  *)
(***************************************************************************)
EndsClass(items, j) == camera[items[j + 1].id].class # camera[items[j].id].class

(* What a call for one control after the other can reach.                  *)
Single(id, class) == class = UserClass \/ camera[id].class = class

SetClass(p, items, batch, n) ==
  LET class == camera[items[n].id].class
      places == IF TakesAll(p.dev, items, batch, class) THEN batch
                ELSE {k \in batch : Single(items[k].id, class)}
  IN [p EXCEPT !.dev = SetUpTo(@, items, places, n)]

SetStep(a, items, j) ==
  LET batch == a.batch \cup {j}
  IN IF "ro" \in a.panel.flags[items[j].id] THEN a
     ELSE IF EndsClass(items, j)
     THEN [panel |-> SetClass(a.panel, items, batch, j), batch |-> {}]
     ELSE [a EXCEPT !.batch = batch]

NoBatch(p) == [panel |-> p, batch |-> {}]
set_ctrl_values(p, items) ==
  LET a[j \in 0 .. Len(items) - 1] == IF j = 0 THEN NoBatch(p) ELSE SetStep(a[j - 1], items, j)
  IN a[Len(items) - 1].panel

Listed(p) == [k \in Controls |-> [id |-> k, value |-> p.value[k]]]

(* The values of a call that failed are taken all the same: junk.          *)
GetClass(p, batch, n, junk) ==
  LET read == {k \in batch : Readable(k) /\ Single(k, camera[n].class)}
  IN [p EXCEPT !.value = [k \in Controls |->
        IF k \in read THEN p.dev[k] ELSE IF k \in batch THEN junk[k] ELSE @[k]]]

GetStep(a, k, junk) ==
  LET batch == a.batch \cup {k}
  IN IF "wo" \in a.panel.flags[k] THEN a
     ELSE IF EndsClass(Listed(a.panel), k)
     THEN [panel |-> GetClass(a.panel, batch, k, junk), batch |-> {}]
     ELSE [a EXCEPT !.batch = batch]

update_ctrl_list_flags(p) ==
  LET q[k \in 0 .. Count - 1] == IF k = 0 THEN p ELSE update_ctrl_flags(q[k - 1], k)
  IN q[Count - 1]

get_ctrl_values(p, junk) ==
  LET a[k \in 0 .. Count - 1] == IF k = 0 THEN NoBatch(p) ELSE GetStep(a[k - 1], k, junk)
  IN update_ctrl_list_flags(a[Count - 1].panel)

(* A read-only control takes the one after it out of the loop too, and the *)
(* last but one ends it on NULL.                                           *)
ToDefault(p, id) == [disable_special_auto(p, id) EXCEPT !.value[id] = camera[id].default]

DefaultStep(a, k) ==
  IF a.skip THEN [a EXCEPT !.skip = FALSE]
  ELSE IF "ro" \in a.panel.flags[k] THEN [a EXCEPT !.skip = TRUE]
  ELSE [a EXCEPT !.panel = ToDefault(@, k)]
ToDefaults(p) ==
  LET a[k \in 0 .. Count - 1] ==
        IF k = 0 THEN [panel |-> p, skip |-> FALSE] ELSE DefaultStep(a[k - 1], k)
  IN a[Count - 1]

set_default_values(p, junk) ==
  LET q == ToDefaults(p).panel
  IN get_ctrl_values(set_ctrl_values(q, Listed(q)), junk)

AllDefaults == [k \in Controls |-> [id |-> k, value |-> camera[k].default]]

(* A profile: the controls without a flag.                                 *)
Saved(p) ==
  LET s[k \in 0 .. Count] ==
        IF k = 0 THEN <<>> ELSE IF p.flags[k] = {} THEN Append(s[k - 1], Listed(p)[k]) ELSE s[k - 1]
  IN s[Count]

AutosOff(p, items) ==
  LET q[k \in 0 .. Len(items)] == IF k = 0 THEN p ELSE disable_special_auto(q[k - 1], items[k].id)
  IN q[Len(items)]
LoadProfile(p, junk) == get_ctrl_values(set_ctrl_values(AutosOff(p, profile), profile), junk)
-----------------------------------------------------------------------------
(***************************************************************************)
(* The user.                                                               *)
(***************************************************************************)
(* Junk outside of the range of a control is as good as junk in it.        *)
Junk == {[k \in Controls |-> j] : j \in {v \in Values : \A k \in Controls : v <= camera[k].max}}

(* Every control was read when its widget was made.                        *)
Unread(dev) ==
  [dev |-> dev, value |-> [k \in Controls |-> 0], flags |-> [k \in Controls |-> camera[k].flags]]
create_control_widgets(dev) ==
  LET p[k \in 0 .. Count] == IF k = 0 THEN Unread(dev) ELSE get_ctrl(p[k - 1], k)
  IN p[Count]

ControlsInit ==
  /\ camera \in Cameras
  /\ \E dev \in [Controls -> Values] :
       /\ \A k \in Controls : dev[k] <= camera[k].max
       /\ panel = create_control_widgets(dev)
  /\ profile = <<>> /\ crashed = FALSE /\ asked = <<>> /\ moved = {}

(* The widget of a grabbed control takes no input, but the loop that says  *)
(* so leaves out the last one; that of a read-only control takes it.       *)
Sensitive(k) == k = Count \/ Busy \notin panel.flags[k]

(* A read-only control keeps the value of its widget: nothing reads it.    *)
UserSets(k, v) ==
  /\ ~crashed
  /\ Sensitive(k)
  /\ panel' = set_ctrl([panel EXCEPT !.value[k] = v], k)
  /\ moved' = IF "ro" \in panel.flags[k] THEN moved \cup {k} ELSE moved \ {k}
  /\ asked' = <<>>
  /\ UNCHANGED <<camera, profile, crashed>>

DefaultsClicked ==
  /\ ~crashed
  /\ IF ToDefaults(panel).skip
     THEN crashed' = TRUE /\ UNCHANGED <<panel, asked, moved>>
     ELSE /\ \E junk \in Junk : panel' = set_default_values(panel, junk)
          /\ asked' = AllDefaults /\ moved' = moved \cap {Count}
          /\ UNCHANGED crashed
  /\ UNCHANGED <<camera, profile>>

SaveControls ==
  /\ ~crashed
  /\ profile' = Saved(panel)
  /\ UNCHANGED <<camera, panel, crashed, asked, moved>>

(* A profile without controls gives no list to go through.                 *)
LoadControls ==
  /\ ~crashed
  /\ IF profile = <<>>
     THEN crashed' = TRUE /\ UNCHANGED <<panel, asked, moved>>
     ELSE /\ \E junk \in Junk : panel' = LoadProfile(panel, junk)
          /\ asked' = profile /\ moved' = moved \cap {Count}
          /\ UNCHANGED crashed
  /\ UNCHANGED <<camera, profile>>

ControlsNext ==
  \/ \E k \in Controls : \E v \in 0 .. camera[k].max : UserSets(k, v)
  \/ DefaultsClicked \/ SaveControls \/ LoadControls

ControlsSpec == ControlsInit /\ [][ControlsNext]_controlsVars
-----------------------------------------------------------------------------
(***************************************************************************)
(* Properties.                                                             *)
(***************************************************************************)
ControlsTypeOK ==
  /\ panel.dev \in [Controls -> Nat] /\ panel.value \in [Controls -> Nat]
  /\ \A k \in Controls : panel.flags[k] \subseteq camera[k].flags \cup {Busy} /\ panel.dev[k] <= camera[k].max
  /\ crashed \in BOOLEAN

(* Automatic controls as cameras have them.  They can be read, and special *)
(* ones can be set.  One that comes after a control it takes care of is    *)
(* special, lets go of that control at 0, is under no other one itself and *)
(* not behind a read-only one.                                             *)
OrderlyAutos(c) ==
  \A k \in 1 .. Len(c) :
    LET a == c[k].auto
    IN /\ c[k].special => "ro" \notin c[k].flags
       /\ a # 0 => "wo" \notin c[a].flags
       /\ a > k => /\ c[a].special /\ c[a].auto = 0 /\ 0 \notin c[k].busy
                  /\ "ro" \notin c[a - 1].flags

(* A control that another class follows, when the loop does not skip the   *)
(* last control of its class.                                              *)
Followed(items, j, skip) ==
  \E m \in j .. Len(items) - 1 :
    /\ camera[items[m].id].class = camera[items[j].id].class
    /\ camera[items[m + 1].id].class # camera[items[m].id].class
    /\ skip \notin camera[items[m].id].flags

NoneReadOnly(items, j) == \A i \in 1 .. j : "ro" \notin camera[items[i].id].flags

(* After Defaults, or a profile that was loaded, the device has the value  *)
(* asked for in every control, whatever the user had set and in whatever   *)
(* order the automatic ones come, or refuses it because an automatic one   *)
(* was asked for; for the classes that are set at all.                     *)
SettingsArrive ==
  \A j \in 1 .. Len(asked) :
    (Followed(asked, j, "ro") /\ NoneReadOnly(asked, j)) =>
      \/ panel.dev[asked[j].id] = asked[j].value
      \/ Refuses(panel.dev, asked[j].id)

Listened(k) == Followed(Listed(panel), k, "wo")

(* The panel has the value the device has, of the last control and of the  *)
(* classes that are read at all, and grabs exactly the controls that the   *)
(* device refuses for an automatic one, through whatever the user sets,    *)
(* saves and loads.  Of the widgets of read-only controls it has what the  *)
(* user made of them until it is read again.                               *)
PanelShowsDevice ==
  \A k \in Controls :
    LET auto == camera[k].auto
    IN /\ (Readable(k) /\ (Listened(k) \/ k = Count) /\ k \notin moved) => panel.value[k] = panel.dev[k]
       /\ (auto # 0 /\ Listened(auto)) => (Busy \in panel.flags[k] <=> panel.dev[auto] \in camera[k].busy)
       /\ auto \notin moved \cup {0} => (Busy \in panel.flags[k] <=> panel.value[auto] \in camera[k].busy)

=============================================================================
