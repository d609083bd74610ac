---------------------------- MODULE DevicePanel ----------------------------
(***************************************************************************)
(* The panel of a device: a window with a light or a text for every data   *)
(* unit of the device's type.  One panel is open at a time, but its        *)
(* widgets are remembered by the units of the TYPE, which the devices of   *)
(* the type share and which nothing resets when the window is destroyed.   *)
(* Clicks and decodings are both handlers of the Photon thread.            *)
(***************************************************************************)
EXTENDS Integers

CONSTANTS PanelDevices,          \* ids; the kind stands for the device type
          Kind,                  \* [PanelDevices -> Kinds]
          Blocks,                \* the contents a data block may have
          Reconnects             \* RECONNECTS_TO_DEVICE_COUNT

Kinds == {"escalator", "udku", "shavr"}
Nobody == 0

ASSUME KindAssumption == Nobody \notin PanelDevices /\ Kind \in [PanelDevices -> Kinds]
ASSUME ReconnectsAssumption == Reconnects \in Nat

\* A data block: the status of the breaking path, the signal with index 1 of
\* a UDKU, and a value that stands for all parameters.
Signals == {"green", "blue", "red", "grey"}

\* A new data block is all zero.
CleanBlock == [signal |-> "green", value |-> "0"]

ASSUME BlocksAssumption ==
  CleanBlock \in Blocks /\ Blocks \subseteq [signal : Signals, value : STRING]

\* Units of a type: a light, parameters with and without a norm, and one
\* whose index no data block has.  Units that are not visible have no widget.
Units == {"light", "breaking path", "mode", "speed", "out of range"}

\* The blocks of the type: each has a pane, and its units stand in it.
Panes == {{"light"}, Units \ {"light"}}

VARIABLES
  line,               \* of a device: x5 answers, x6 without exception, failures
  data_blocks,        \* of a device: the block of the last answer with one
  paneled_device_id,
  device_panel,       \* the pointer: "NULL", "live" or "destroyed"
  window,             \* whose window it is in and whether that was realised
  widget,             \* of the units of a type: what their pointers point to
  shown,              \* what the widgets of the open window show
  missed,             \* history: "block" or "line" if the panel missed a new
                      \* block, or a new state of the line, else "nothing"
  failed,             \* history: Photon could not make a widget
  undefined           \* history: a destroyed widget, or none, was used

panelVars == <<line, data_blocks, paneled_device_id, device_panel, window,
               widget, shown, missed, failed, undefined>>
pointers  == <<paneled_device_id, device_panel, window, widget, shown, failed>>

NoWindow == [device |-> Nobody, realised |-> FALSE]
-----------------------------------------------------------------------------
(***************************************************************************)
(* What a widget shows of a data block                                     *)
(***************************************************************************)

\* signal_image: each type has the colours it knows, the rest is grey.
SignalColours(k) ==
  CASE k = "escalator" -> {"green", "blue", "red"}
    [] k = "shavr"     -> {"green", "blue"}
    [] k = "udku"      -> {"green", "red"}

SignalImage(k, b) == IF b.signal \in SignalColours(k) THEN b.signal ELSE "grey"

\* value_is_norma.  For mode and speed of a UDKU it reads the SIGNAL with the
\* index of the mode (1), the status of the breaking path, as if it were the
\* mode: grey (3) is taken for UP20, the others for GPSTOP, GPUP and GPDOWN.
ValueIsNorma(k, u, b) ==
  CASE k = "escalator" /\ u = "breaking path" -> b.signal = "blue"
    [] k = "udku" /\ u = "breaking path"      -> b.signal = "green"
    [] k = "udku" /\ u \in {"mode", "speed"}  -> b.signal # "grey"
    [] OTHER -> TRUE

TextOfValue(u, b) == IF u = "out of range" THEN "Error" ELSE b.value

\* A parameter that is not online has the colour of its text for a ground.
UnitShows(k, u, b, online) ==
  IF u = "light"
  THEN [colour |-> IF online THEN SignalImage(k, b) ELSE "grey", text |-> "name"]
  ELSE IF ~online THEN [colour |-> "disabled", text |-> "hidden"]
  ELSE [colour |-> IF ValueIsNorma(k, u, b) THEN "norma" ELSE "not norma",
        text   |-> TextOfValue(u, b)]

BlockShows(k, b, online) == [u \in Units |-> UnitShows(k, u, b, online)]
NothingShown == [u \in Units |-> [colour |-> "none", text |-> "none"]]

Online(l) == l.x5 /\ l.x6
-----------------------------------------------------------------------------
(***************************************************************************)
(* update_device_panel: every visible unit of the type, by its pointer.    *)
(***************************************************************************)
Usable(k, w) == \A u \in Units : w[k][u] = "live"

UpdatePanel(d, w) ==
  IF Usable(Kind[d], w)
  THEN /\ shown' = BlockShows(Kind[d], data_blocks'[d], Online(line'[d]))
       /\ undefined' = FALSE
  ELSE shown' = NothingShown /\ undefined' = TRUE
-----------------------------------------------------------------------------
(***************************************************************************)
(* The window                                                              *)
(***************************************************************************)

\* Destroying a realised window calls its closing callback, one that was
\* never realised does not.
Dead(k) == [widget EXCEPT ![k] = [u \in Units |->
              IF widget[k][u] = "live" THEN "destroyed" ELSE widget[k][u]]]

WindowDestroyed ==
  [widget |-> Dead(Kind[window.device]),
   id     |-> IF window.realised THEN Nobody ELSE paneled_device_id,
   panel  |-> IF window.realised THEN "NULL" ELSE "destroyed"]

Untouched == [widget |-> widget, id |-> paneled_device_id, panel |-> device_panel]

\* The window's own button or its frame.
ClosePanel ==
  /\ ~undefined /\ window.realised
  /\ widget' = WindowDestroyed.widget
  /\ paneled_device_id' = WindowDestroyed.id
  /\ device_panel' = WindowDestroyed.panel
  /\ window' = NoWindow
  /\ shown' = NothingShown /\ missed' = "nothing"
  /\ UNCHANGED <<line, data_blocks, failed, undefined>>

AnotherPanelOpen(d) == paneled_device_id # d /\ device_panel # "NULL"
SamePanelOpen(d)    == paneled_device_id = d /\ device_panel # "NULL"

\* create_device_panel and what of it may fail: before the id is set (the
\* old window is gone), or while the panes are filled, by an exception that
\* leaves the window unrealised, or by a pane that is missing without one.
Create(d, old) ==
  \/ /\ paneled_device_id' = d /\ device_panel' = "live"
     /\ window' = [device |-> d, realised |-> TRUE]
     /\ widget' = [old.widget EXCEPT ![Kind[d]] = [u \in Units |-> "live"]]
     /\ UpdatePanel(d, widget')
     /\ UNCHANGED failed
  \/ /\ paneled_device_id' = old.id /\ device_panel' = old.panel
     /\ window' = NoWindow
     /\ widget' = old.widget
     /\ failed' = TRUE /\ shown' = NothingShown
     /\ UNCHANGED undefined
  \/ \E made \in Panes \union {{}} :
       /\ paneled_device_id' = d /\ device_panel' = "live"
       /\ widget' = [old.widget EXCEPT ![Kind[d]] =
                       [u \in Units |-> IF u \in made THEN "live" ELSE @[u]]]
       /\ failed' = TRUE
       /\ \/ /\ window' = [device |-> d, realised |-> FALSE]
             /\ shown' = NothingShown /\ UNCHANGED undefined
          \/ /\ window' = [device |-> d, realised |-> TRUE]
             /\ UpdatePanel(d, widget')

\* activate_device_button: the device's picture is clicked.
ActivateDevice(d) ==
  /\ ~undefined /\ ~SamePanelOpen(d)
  /\ UNCHANGED <<line, data_blocks>>
  /\ missed' = "nothing"
  /\ IF AnotherPanelOpen(d) /\ device_panel = "destroyed"
     THEN undefined' = TRUE /\ UNCHANGED pointers
     ELSE Create(d, IF AnotherPanelOpen(d) THEN WindowDestroyed ELSE Untouched)
-----------------------------------------------------------------------------
(***************************************************************************)
(* Decoding                                                                *)
(***************************************************************************)
TooMany(l) == l.failures > Reconnects

OneMore(l) == [l EXCEPT !.failures = @ + 1]

Answered(l, k, answer) ==
  CASE answer = "none" ->
         IF TooMany(l) THEN [l EXCEPT !.x5 = FALSE] ELSE OneMore(l)
    [] answer = "exception" ->
         IF TooMany(l) \/ ~l.x5
         THEN [l EXCEPT !.x5 = TRUE, !.x6 = FALSE, !.failures = 0]
         ELSE [OneMore(l) EXCEPT !.x5 = TRUE]
    [] answer = "other function" /\ k = "escalator" -> [l EXCEPT !.x5 = TRUE]
    [] OTHER -> [x5 |-> TRUE, x6 |-> TRUE, failures |-> 0]

\* Mutation: a panel is updated only by a good answer.
MustUpdateGood(d) ==
  /\ paneled_device_id = d /\ device_panel # "NULL"
  /\ line'[d].failures = 0

MustUpdatePanel(d) ==
  /\ paneled_device_id = d /\ device_panel # "NULL"
  /\ line'[d].failures = 0 \/ TooMany(line'[d])

Decode(d, answer) ==
  /\ ~undefined
  /\ line' = [line EXCEPT ![d] = Answered(line[d], Kind[d], answer)]
  /\ IF answer = "registers"
     THEN \E b \in Blocks : data_blocks' = [data_blocks EXCEPT ![d] = b]
     ELSE UNCHANGED data_blocks
  /\ IF MustUpdatePanel(d)
     THEN UpdatePanel(d, widget) /\ missed' = "nothing"
     ELSE UNCHANGED <<shown, undefined, missed>>
  /\ UNCHANGED <<paneled_device_id, device_panel, window, widget, failed>>

\* What a throw may come after.  Registers throw before their block is stored,
\* or after it in the log, the alerts or the drawing of the device.  Any other
\* answer throws in the drawing alone; a cabinet's drawing and that of a lost
\* device do not.
StoredBeforeThrow(d, answer) ==
  IF answer = "registers"
  THEN \E b \in Blocks : data_blocks' = [data_blocks EXCEPT ![d] = b]
  ELSE Kind[d] # "shavr" /\ Online(line'[d]) /\ UNCHANGED data_blocks

\* The update of the panel is skipped.
Misses == IF data_blocks' = data_blocks /\ missed # "block" THEN "line" ELSE "block"

DecodeThrown(d, answer) ==
  /\ ~undefined
  /\ line' = [line EXCEPT ![d] = Answered(line[d], Kind[d], answer)]
  /\ StoredBeforeThrow(d, answer)
  /\ missed' = IF MustUpdatePanel(d) THEN Misses ELSE missed
  /\ UNCHANGED <<undefined, pointers>>
-----------------------------------------------------------------------------
\* A cabinet's flags and a UDKU's x6 are not initialised.
PanelInit ==
  /\ line \in [PanelDevices -> [x5 : BOOLEAN, x6 : BOOLEAN, failures : {0}]]
  /\ \A d \in PanelDevices : /\ Kind[d] # "shavr" => ~line[d].x5
                             /\ Kind[d] = "escalator" => ~line[d].x6
  /\ data_blocks = [d \in PanelDevices |-> CleanBlock]
  /\ paneled_device_id = Nobody /\ device_panel = "NULL"
  /\ window = NoWindow
  /\ widget = [k \in Kinds |-> [u \in Units |-> "NULL"]]
  /\ shown = NothingShown
  /\ missed = "nothing" /\ failed = FALSE /\ undefined = FALSE

Answers == {"none", "exception", "registers", "other function"}

DeviceStep(d) ==
  \/ ActivateDevice(d)
  \/ \E answer \in Answers : Decode(d, answer) \/ DecodeThrown(d, answer)

PanelNext == ClosePanel \/ \E d \in PanelDevices : DeviceStep(d)

PanelSpec == PanelInit /\ [][PanelNext]_panelVars
-----------------------------------------------------------------------------
Lines == [x5 : BOOLEAN, x6 : BOOLEAN, failures : 0 .. Reconnects + 1]

PanelTyped ==
  /\ line \in [PanelDevices -> Lines] /\ data_blocks \in [PanelDevices -> Blocks]
  /\ paneled_device_id \in PanelDevices \union {Nobody}
  /\ device_panel \in {"NULL", "live", "destroyed"}
  /\ window \in [device : PanelDevices \union {Nobody}, realised : BOOLEAN]
  /\ widget \in [Kinds -> [Units -> {"NULL", "live", "destroyed"}]]
  /\ missed \in {"nothing", "line", "block"}
  /\ failed \in BOOLEAN /\ undefined \in BOOLEAN

\* What a throw leaves on the panel until the next answer that is decoded to
\* its end: a block of before - the present one, drawn grey, if no new block
\* was stored -, and that only of a device in contact.
Behind(d) ==
  /\ missed # "nothing" /\ Online(line[d])
  /\ \E b \in Blocks, online \in BOOLEAN : shown = BlockShows(Kind[d], b, online)
  /\ missed = "line" => shown = BlockShows(Kind[d], data_blocks[d], FALSE)

\* The window on the screen is that of the paneled device, all its widgets
\* are its own, and they show its block as the line stands.  Only a throw
\* between the storing of the answer and the update of the panel leaves it
\* behind; no light of a device that is lost, and no mixture of two blocks or
\* two types, is ever shown.
PanelFollowsDevice ==
  window.realised /\ ~undefined =>
    LET d == window.device
    IN  /\ paneled_device_id = d /\ device_panel = "live"
        /\ Usable(Kind[d], widget)
        /\ \/ shown = BlockShows(Kind[d], data_blocks[d], Online(line[d]))
           \/ Behind(d)

\* However clicks, closings and answers of the devices of one type follow
\* each other, no answer is written to the widgets of a window that is gone,
\* unless Photon has failed to make a widget before.
NoDeadWidgetUsed ==
  /\ undefined => failed
  /\ ~failed => /\ device_panel = "live" <=> window.realised
                /\ \A k \in Kinds, u \in Units :
                     widget[k][u] = "live" => Kind[window.device] = k

PanelSound == PanelTyped /\ PanelFollowsDevice /\ NoDeadWidgetUsed
=============================================================================
