---------------------------- MODULE DeviceSettings ----------------------------
(***************************************************************************)
(* The file of the devices, config.ini: a sequence of sections, one for    *)
(* each line, station and device, and one for the settings.  The start of  *)
(* the program reads it section by section, and one section it cannot take *)
(* refuses the file.  The properties dialogs write the start settings of   *)
(* all escalators and UDKUs back, entry by entry.                          *)
(*                                                                         *)
(* A section is a record.  Of its entries those are kept that a later      *)
(* section or the dialogs depend on; sound says of all the others that     *)
(* each is known, in its range, and there if it is required.  An owner 0   *)
(* is one that is not named.  The loading of the containers alone, which   *)
(* the spider does not use, is not modelled.                               *)
(***************************************************************************)
EXTENDS Integers, Sequences

CONSTANTS Hours,          \* hours of a day
          MinutesPerHour

ASSUME HoursAssumption == Hours \in Nat \ {0}
ASSUME MinutesAssumption == MinutesPerHour \in Nat \ {0, 1}

StartModes == {"EVERYDAY", "NEVER", "EVEN", "ODD"}
StartKinds == {"escalator", "udku"}          \* a timer command and a dialog
DeviceKinds == StartKinds \cup {"shavr", "door"}

StartSettings == [hour : 0 .. Hours - 1, minute : 0 .. MinutesPerHour - 1,
                  mode : StartModes]

SectionKinds == DeviceKinds \cup {"line", "station", "settings"}
Sections == [kind : SectionKinds \cup {"unknown"}, id : Int, owner : Int,
             sound : BOOLEAN, enabled : BOOLEAN, hour : Int, minute : Int,
             mode : StartModes \cup {"unknown"}, related : SUBSET Int]

\* The sections before the i-th, of one of the kinds.
Before(file, i, kinds) == {file[j] : j \in {k \in 1 .. i - 1 : file[k].kind \in kinds}}
Ids(sections) == {s.id : s \in sections}
-----------------------------------------------------------------------------
(***************************************************************************)
(* Loading                                                                 *)
(***************************************************************************)
\* The id is new in its container, and the owner is one that was loaded before;
\* without an owner the section belongs to the one loaded last.
Attached(file, i, own, owners) ==
  LET s == file[i]
  IN /\ s.id > 0 /\ s.id \notin Ids(Before(file, i, own))
     /\ IF s.owner = 0 THEN Before(file, i, owners) # {}
        ELSE s.owner \in Ids(Before(file, i, owners))

LineLoads(file, i) ==
  file[i].sound /\ file[i].id \notin Ids(Before(file, i, {"line"}))

StationLoads(file, i) == file[i].sound /\ Attached(file, i, {"station"}, {"line"})

DoorLoads(file, i) == file[i].sound /\ Attached(file, i, DeviceKinds, {"station"})

\* Hour and minute in their ranges, and a mode the program knows.
EscalatorEntries(s) ==
  /\ s.sound
  /\ s.hour \in 0 .. Hours - 1 /\ s.minute \in 0 .. MinutesPerHour - 1
  /\ s.mode \in StartModes

\* What was read must be complete, and the hour 0 counts as missing.
EscalatorLoads(file, i) ==
  /\ EscalatorEntries(file[i])
  /\ file[i].hour > 0
  /\ Attached(file, i, DeviceKinds, {"station"})

UdkuEntries(s) == EscalatorEntries(s)

UdkuLoads(file, i) ==
  /\ UdkuEntries(file[i])
  /\ file[i].hour > 0
  /\ Attached(file, i, DeviceKinds, {"station"})

\* A power transfer cabinet names its escalators, which must come before it.
ShavrEntries(file, i) ==
  /\ EscalatorEntries(file[i])
  /\ file[i].related \subseteq Ids(Before(file, i, DeviceKinds))

ShavrLoads(file, i) ==
  /\ ShavrEntries(file, i)
  /\ file[i].hour > 0
  /\ Attached(file, i, DeviceKinds, {"station"})

\* load_map: the section is of a known kind and can be taken.
SectionLoads(file, i) ==
  \/ file[i].kind = "line"      /\ LineLoads(file, i)
  \/ file[i].kind = "station"   /\ StationLoads(file, i)
  \/ file[i].kind = "escalator" /\ EscalatorLoads(file, i)
  \/ file[i].kind = "shavr"     /\ ShavrLoads(file, i)
  \/ file[i].kind = "udku"      /\ UdkuLoads(file, i)
  \/ file[i].kind = "door"      /\ DoorLoads(file, i)
  \/ file[i].kind = "settings"  /\ file[i].sound

Loads(file) == \A i \in DOMAIN file : SectionLoads(file, i)

\* The devices a file that loads puts into the container, and their settings.
StartDevices(file) == Ids(Before(file, Len(file) + 1, StartKinds))
SectionOf(file, d) ==
  CHOOSE s \in Before(file, Len(file) + 1, StartKinds) : s.id = d
Loaded(file, d) == [hour |-> SectionOf(file, d).hour,
                    minute |-> SectionOf(file, d).minute,
                    mode |-> SectionOf(file, d).mode]
-----------------------------------------------------------------------------
(***************************************************************************)
(* Saving                                                                  *)
(***************************************************************************)
StartEntries == 3      \* hour, minute and mode, written in this order

\* Mutation: the mode is not written.
EscalatorTimeSaved(s, set, n) ==
  [s EXCEPT !.hour   = IF n > 0 THEN set.hour ELSE @,
            !.minute = IF n > 1 THEN set.minute ELSE @]

\* The first n entries of a section are written.
EscalatorSaved(s, set, n) ==
  [s EXCEPT !.hour   = IF n > 0 THEN set.hour ELSE @,
            !.minute = IF n > 1 THEN set.minute ELSE @,
            !.mode   = IF n > 2 THEN set.mode ELSE @]

UdkuSaved(s, set, n) == EscalatorSaved(s, set, n)

SectionSaved(s, settings, n) ==
  CASE s.kind = "escalator" -> EscalatorSaved(s, settings[s.id], n)
    [] s.kind = "udku"      -> UdkuSaved(s, settings[s.id], n)
    [] OTHER                -> s

\* metro_devices_container::save: the sections before the i-th are written, and
\* n entries of the i-th, where a write failed; i is Len(file) + 1 when none did.
Saved(file, settings, i, n) ==
  [j \in DOMAIN file |->
     IF j < i THEN SectionSaved(file[j], settings, StartEntries)
     ELSE IF j = i THEN SectionSaved(file[j], settings, n)
     ELSE file[j]]
=============================================================================
