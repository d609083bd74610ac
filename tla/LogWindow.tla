----------------------------- MODULE LogWindow -----------------------------
(***************************************************************************)
(* The window of a log, the main one or an archive, and the dialog of its  *)
(* filter.  The log keeps pointers to widgets it does not own: the dialog  *)
(* is destroyed with the log's window, and after OK by the callback that   *)
(* follows.  OK writes the settings to the filter before it looks whether  *)
(* they choose anything.  The list's records are told apart by device.     *)
(***************************************************************************)
EXTENDS Integers, Sequences, SequencesExt

CONSTANT DevicesOf  \* the devices of each station, in the stations' order

VARIABLES
  log,            \* "main" or "archive"
  alive,          \* FALSE: a destroyed widget or a closed file was used
  window, dialog, \* environment: the windows on the screen
  filter_window,  \* the log's pointer to the dialog: "null" or "set"
  filtration_state_indicator, \* what the window's button says: a filter is on
  settings,       \* the log's log_filter
  draft,          \* what is chosen in the dialog
  through,        \* the devices whose records the list shows
  report,         \* a report just made: its file, and what was told of it
  seen            \* history

logwindow == <<log, alive, window, dialog, filter_window, settings, draft,
               filtration_state_indicator, through, report, seen>>

StationList == DOMAIN DevicesOf
AllDevices == UNION {ToSet(DevicesOf[s]) : s \in StationList}

ASSUME DevicesAssumption == DevicesOf \in Seq(Seq(AllDevices))

\* The devices of the stations ss one after the other: as the dialog lists
\* them, and as OK counts them.
Rows(ss) == FlattenSeq([s \in StationList |-> IF s \in ss THEN DevicesOf[s] ELSE <<>>])

\* Mutation: OK counts the devices of all stations.
IdsOfAll(ss) == Rows(StationList)

devices_ids(ss) == Rows(ss)

Settings == [on : BOOLEAN, all_stations : BOOLEAN, all_devices : BOOLEAN,
             stations : SUBSET StationList, devices : SUBSET AllDevices]

\* log_filter: the devices are looked at only where the stations are.
Passes(f) ==
  IF ~f.on \/ f.all_stations THEN AllDevices
  ELSE {d \in ToSet(Rows(f.stations)) : f.all_devices \/ d \in f.devices}

\* The rows that are chosen when the list is made: the filter's.
Preselected(rows) == {i \in DOMAIN rows : rows[i] \in settings.devices}

NoDraft == [on |-> FALSE, all_stations |-> TRUE, all_devices |-> TRUE,
            stations |-> {}, rows |-> <<>>, selected |-> {}]

NoReport == [file |-> "none", told |-> {}]

\* prepare_devices_list_in_filter_window.
Prepared(d, ss) == [d EXCEPT !.stations = ss, !.rows = Rows(ss),
                             !.selected = Preselected(Rows(ss))]
-----------------------------------------------------------------------------
(***************************************************************************)
(* The log's window                                                        *)
(***************************************************************************)

\* close_window destroys the dialog too; the pointer to it is left.
Reopens ==
  /\ dialog' = FALSE /\ draft' = NoDraft
  /\ report' = NoReport
  /\ UNCHANGED <<log, alive, filter_window>>

LeftBy == seen.left \/ dialog

ButtonMainLog ==
  /\ alive /\ log = "main"
  /\ Reopens
  /\ window' = TRUE
  /\ filtration_state_indicator' = settings.on
  /\ seen' = [seen EXCEPT !.left = LeftBy, !.turned = FALSE]
  /\ UNCHANGED <<settings, through>>

\* No file was chosen.
ArchiveNotChosen ==
  /\ alive /\ log = "archive"
  /\ Reopens
  /\ window' = FALSE /\ filtration_state_indicator' = FALSE
  /\ seen' = [seen EXCEPT !.left = LeftBy, !.turned = FALSE]
  /\ UNCHANGED <<settings, through>>

\* load switches the filter off, before anything of it may fail.
ButtonArchiveLog(loaded) ==
  /\ alive /\ log = "archive"
  /\ Reopens
  /\ settings' = [settings EXCEPT !.on = FALSE]
  /\ through' = AllDevices
  /\ window' = loaded
  /\ filtration_state_indicator' = FALSE
  /\ seen' = [seen EXCEPT !.left = LeftBy, !.refused = FALSE]

ButtonExit ==
  /\ alive /\ window
  /\ window' = FALSE /\ dialog' = FALSE /\ draft' = NoDraft
  /\ filter_window' = "null" /\ filtration_state_indicator' = FALSE
  /\ report' = NoReport
  /\ seen' = [seen EXCEPT !.left = FALSE, !.turned = FALSE]
  /\ UNCHANGED <<log, alive, settings, through>>

\* rotate switches the filter off and tells no widget of it.
MonthTurns ==
  /\ alive /\ log = "main"
  /\ settings' = [settings EXCEPT !.on = FALSE]
  /\ through' = AllDevices
  /\ seen' = [seen EXCEPT !.refused = FALSE, !.turned = @ \/ window]
  /\ report' = NoReport
  /\ UNCHANGED <<log, alive, window, dialog, filter_window, draft,
                 filtration_state_indicator>>
-----------------------------------------------------------------------------
(***************************************************************************)
(* The dialog                                                              *)
(***************************************************************************)

\* A dialog the log knows of is destroyed first.  If it is destroyed already,
\* the pointer is to freed memory: the program dies, or nothing comes of it.
ButtonFilter ==
  /\ alive /\ window
  /\ \/ /\ dialog' = TRUE /\ filter_window' = "set"
        /\ draft' = Prepared([on |-> settings.on, all_stations |-> settings.all_stations,
                              all_devices |-> settings.all_devices, stations |-> {},
                              rows |-> <<>>, selected |-> {}], settings.stations)
        /\ seen' = [seen EXCEPT !.left = FALSE]
        /\ UNCHANGED alive
     \/ /\ filter_window = "set" /\ ~dialog
        /\ alive' = FALSE
        /\ UNCHANGED <<dialog, filter_window, draft, seen>>
  /\ report' = NoReport
  /\ UNCHANGED <<log, window, filtration_state_indicator, settings, through>>

InDialog(d) ==
  /\ alive /\ dialog
  /\ draft' = d /\ report' = NoReport
  /\ UNCHANGED <<log, alive, window, dialog, filter_window, settings,
                 filtration_state_indicator, through, seen>>

\* The toggles; one of all stations blocks the lists and the other.
ToggleOn == InDialog([draft EXCEPT !.on = ~@])
ToggleAllStations == InDialog([draft EXCEPT !.all_stations = ~@])
ToggleAllDevices == ~draft.all_stations /\ InDialog([draft EXCEPT !.all_devices = ~@])

\* The devices that were chosen and not yet taken by OK are forgotten.
SelectionOnStations(ss) == ~draft.all_stations /\ InDialog(Prepared(draft, ss))
SelectionOnDevices(rs) ==
  /\ ~draft.all_stations /\ ~draft.all_devices
  /\ InDialog([draft EXCEPT !.selected = rs])

Taken ==
  [on |-> draft.on, all_stations |-> draft.all_stations, all_devices |-> draft.all_devices,
   stations |-> draft.stations,
   devices |-> {devices_ids(draft.stations)[i] : i \in draft.selected}]

\* What OK complains of, besides times and types: no station, no device.  The
\* device is asked for even if all stations are to be shown.
Refuses(f) ==
  /\ f.on
  /\ \/ ~f.all_stations /\ f.stations = {}
     \/ ~f.all_devices /\ f.devices = {}

Partition == through' = Passes(settings')

\* OK; bad: the times or the types of messages choose nothing.
OkInDialog(bad) ==
  /\ alive /\ dialog
  /\ settings' = Taken
  /\ filtration_state_indicator' = draft.on
  /\ IF Refuses(Taken) \/ (draft.on /\ bad)
     THEN /\ seen' = [seen EXCEPT !.left = TRUE, !.refused = TRUE, !.turned = FALSE]
          /\ UNCHANGED <<through, filter_window>>
     ELSE /\ Partition
          /\ filter_window' = "null"
          /\ seen' = [seen EXCEPT !.refused = FALSE, !.turned = FALSE]
  /\ dialog' = FALSE /\ draft' = NoDraft /\ report' = NoReport
  /\ UNCHANGED <<log, alive, window>>

CancelInDialog ==
  /\ alive /\ dialog
  /\ filter_window' = "null"
  /\ dialog' = FALSE /\ draft' = NoDraft /\ report' = NoReport
  /\ UNCHANGED <<log, alive, window, filtration_state_indicator, settings, through,
                 seen>>
-----------------------------------------------------------------------------
(***************************************************************************)
(* The report                                                              *)
(***************************************************************************)
Told(file, told) == report' = [file |-> file, told |-> told]

\* An error in the making, a full disk or an id that is not known, is told;
\* and then that the report is built.
MadePartly == Told("part", {"error", "built"})

\* to: "usb" or "directory".  The file cannot be opened, or not be closed: a
\* file that failed to close is closed again, and on "usb" also one that was
\* never opened: the program dies, or nothing comes of it.
ButtonReport(to) ==
  /\ alive /\ window
  /\ \/ Told("whole", {"built"}) /\ UNCHANGED alive
     \/ MadePartly /\ UNCHANGED alive
     \/ Told("none", {"error"}) /\ (alive' = TRUE \/ (to = "usb" /\ alive' = FALSE))
     \/ Told("part", {"error"}) /\ alive' \in BOOLEAN
  /\ UNCHANGED <<log, window, dialog, filter_window, settings, draft,
                 filtration_state_indicator, through, seen>>
-----------------------------------------------------------------------------
LogWindowInit ==
  /\ log \in {"main", "archive"}
  /\ alive = TRUE /\ window = FALSE /\ dialog = FALSE
  /\ filter_window = "null" /\ filtration_state_indicator = FALSE
  /\ settings = [on |-> FALSE, all_stations |-> TRUE, all_devices |-> TRUE,
                 stations |-> {}, devices |-> {}]
  /\ draft = NoDraft
  /\ through = AllDevices
  /\ report = NoReport
  /\ seen = [left |-> FALSE, refused |-> FALSE, turned |-> FALSE]

LogWindowNext ==
  \/ ButtonMainLog \/ ArchiveNotChosen \/ \E loaded \in BOOLEAN : ButtonArchiveLog(loaded)
  \/ ButtonExit \/ MonthTurns \/ ButtonFilter
  \/ ToggleOn \/ ToggleAllStations \/ ToggleAllDevices
  \/ \E ss \in SUBSET StationList : SelectionOnStations(ss)
  \/ \E rs \in SUBSET DOMAIN draft.rows : SelectionOnDevices(rs)
  \/ \E bad \in BOOLEAN : OkInDialog(bad)
  \/ CancelInDialog
  \/ \E to \in {"usb", "directory"} : ButtonReport(to)
-----------------------------------------------------------------------------
(***************************************************************************)
(* Properties                                                              *)
(***************************************************************************)

\* The log points to the dialog exactly while it is on the screen, unless OK
\* was refused or the log opened again over its dialog: only then the filter
\* button uses a destroyed window.
DialogKnown == ~seen.left => (filter_window = "set") = dialog

\* Records are shown by the filter the log has, unless OK complained of it.
ShownByFilter == ~seen.refused => through = Passes(settings)

\* The button says whether the filter is on, unless the month turned meanwhile.
IndicatorTrue ==
  window /\ ~seen.turned => filtration_state_indicator = settings.on

\* A report that is not whole is told with an error.
ReportTold ==
  "error" \notin report.told
    => report.file = "whole" \/ (report.file = "none" /\ report.told = {})

\* The windows, the filter, the list and the report agree: the types of the
\* variables; the pointer to the dialog; the list and the indicator; the report.
WindowSound ==
  /\ settings \in Settings /\ through \subseteq AllDevices
  /\ draft.selected \subseteq DOMAIN draft.rows
  /\ dialog => window
  /\ DialogKnown /\ ShownByFilter /\ IndicatorTrue /\ ReportTold

\* What OK accepts is what was chosen: the rows marked in the list of devices,
\* or all the rows; everything if the stations were not to be looked at.
ChosenIsShown ==
  [][(window' /\ dialog /\ ~dialog' /\ settings' # settings /\ settings'.on
        /\ ~seen'.refused)
     => through' = IF draft.all_stations THEN AllDevices
                   ELSE {draft.rows[i] : i \in IF draft.all_devices
                           THEN DOMAIN draft.rows ELSE draft.selected}]_logwindow
=============================================================================
