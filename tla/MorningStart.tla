----------------------------- MODULE MorningStart -----------------------------
(***************************************************************************)
(* The morning start: the list of timer commands that is built every       *)
(* midnight (or by the dispatcher's "generate" button) from the start      *)
(* settings of the devices, has to be accepted by the dispatcher, and is   *)
(* executed minute by minute.                                              *)
(*                                                                         *)
(* The timer pulse, the buttons and the properties dialog are handlers of  *)
(* the Photon thread and so single actions.  The clock is the environment. *)
(* A command is the device it is for; what send_command does with it is    *)
(* the business of EscalatorAutomaton; a device whose start direction      *)
(* yields no command is one in the mode NEVER.  The settings are kept in a *)
(* file that the dialog writes and the start of the program reads; the     *)
(* list is kept in memory only.                                            *)
(***************************************************************************)
EXTENDS DeviceSettings

CONSTANTS Config,         \* the file of the devices before the first start
          Choices,        \* what the dispatcher may choose for each device
          MaxDays,        \* bound: days of a behaviour
          MaxStarts       \* bound: starts of the program after the first

Devices == StartDevices(Config)

ASSUME ConfigAssumption == Config \in Seq(Sections) /\ Loads(Config)
ASSUME ChoicesAssumption == \A d \in Devices : Choices[d] \subseteq StartSettings
ASSUME BoundsAssumption == MaxDays \in Nat /\ MaxStarts \in Nat

Midnight == 0                          \* 00:00
LastMinute == Hours * MinutesPerHour - 1  \* 23:59
Minutes == Midnight .. LastMinute
Parities == {"EVEN", "ODD"}

VARIABLES
  now,                        \* minute of the day
  parity,                     \* parity of the day of the month
  day,                        \* number of the day, for the history and the bound
  seen,                       \* a timer pulse has come in this minute
  missed,                     \* history: a minute has passed without a timer pulse
  minute_tick,                \* minute of the hour last handled
  settings,                   \* start hour, minute and mode of each device
  container_timer_command,    \* the list: a set of device and time
  was_created_in_this_day,
  timer_commands_accepted,
  built,                      \* history: when the list was built
  accepted,                   \* history: when this list was accepted
  executed,                   \* history: the commands of this list executed this day
  done,                       \* history: the devices that had one in this minute from
                              \* the program that runs
  repeated,                   \* history: a command was executed again in its minute
  running,                    \* the program runs
  file,                       \* the file of the devices
  unsaved,                    \* history: no saving has succeeded since one failed
  starts,                     \* history: starts of the program after the first
  started                     \* history: minute of this day of the last of them

morning == <<now, parity, day, seen, missed, minute_tick, settings,
             container_timer_command, was_created_in_this_day,
             timer_commands_accepted, built, accepted, executed, done, repeated,
             running, file, unsaved, starts, started>>

disk == <<file, unsaved>>
clock == <<now, parity, day, missed>>
list == <<container_timer_command, was_created_in_this_day,
          timer_commands_accepted, built, accepted>>

history == <<executed, done, repeated>>
program == <<running, starts, started>>
NotStarted == -1

\* A moment: a minute of a day.  Never comes before all of them.
Never == [day |-> -1, at |-> 0]
Now == [day |-> day, at |-> now]
Precedes(t, u) == t.day < u.day \/ (t.day = u.day /\ t.at < u.at)
-----------------------------------------------------------------------------
\* make_timer_command: only enabled devices whose mode fits today, with their
\* time.
StartTime(set) == set.hour * MinutesPerHour + set.minute

StartsToday(d) ==
  SectionOf(file, d).enabled /\ settings[d].mode \in {"EVERYDAY", parity}

PreparedCommands ==
  {[device |-> d, at |-> StartTime(settings[d])] :
     d \in {e \in Devices : StartsToday(e)}}

\* Mutation: the acceptance of the old list passes to the new one.
BuildKeepsAcceptance ==
  /\ container_timer_command' = PreparedCommands
  /\ was_created_in_this_day' = TRUE
  /\ built' = Now
  /\ accepted' = Never
  /\ UNCHANGED timer_commands_accepted

\* prepare_timer_command and the flags both its callers set after it.
Build ==
  /\ container_timer_command' = PreparedCommands
  /\ was_created_in_this_day' = TRUE
  /\ timer_commands_accepted' = FALSE
  /\ built' = Now
  /\ accepted' = Never

\* Before midnight the list is declared not built; its commands stay in it.
CleanDay ==
  /\ was_created_in_this_day' = FALSE
  /\ timer_commands_accepted' = FALSE
  /\ UNCHANGED <<container_timer_command, built, accepted>>

\* The part of a minute's pulse that changes the list.
RefreshList ==
  IF now = LastMinute /\ was_created_in_this_day THEN CleanDay
  ELSE IF now = Midnight /\ ~was_created_in_this_day THEN Build
  ELSE UNCHANGED list

\* The commands of this minute, in the list as it was refreshed.
Due ==
  IF was_created_in_this_day' /\ timer_commands_accepted'
  THEN {c \in container_timer_command' : c.at = now}
  ELSE {}

\* execute_timer_commands for the current minute: the list keeps the commands.
Execute ==
  /\ executed' = Due \cup (IF built' = built THEN executed ELSE {})
  /\ done' = done \cup {c.device : c \in Due}
  /\ repeated' = (repeated \/ \E c \in Due : c.device \in done)

\* Mutation: every pulse of the minute executes its commands.
TimerPulseRepeats ==
  /\ running
  /\ seen' = TRUE
  /\ minute_tick' = now % MinutesPerHour
  /\ RefreshList
  /\ Execute
  /\ UNCHANGED <<clock, settings, disk, program>>

\* PULSE_CODE_TIMER_INTERVAL.  Only a new minute of the hour is handled.
TimerPulse ==
  /\ running
  /\ seen' = TRUE
  /\ IF minute_tick # now % MinutesPerHour
     THEN /\ minute_tick' = now % MinutesPerHour
          /\ RefreshList
          /\ Execute
     ELSE UNCHANGED <<minute_tick, list, history>>
  /\ UNCHANGED <<clock, settings, disk, program>>

\* The button "accept", whatever list there is.
Accept ==
  /\ running
  /\ timer_commands_accepted' = TRUE
  /\ accepted' = IF timer_commands_accepted THEN accepted ELSE Now
  /\ UNCHANGED <<clock, settings, seen, minute_tick, container_timer_command,
                 was_created_in_this_day, built, history, disk, program>>

\* The button "generate", at any time of the day.
Generate ==
  /\ running
  /\ Build
  /\ executed' = {}
  /\ UNCHANGED <<clock, settings, seen, minute_tick, done, repeated, disk,
                 program>>

\* The properties dialog of an escalator or a UDKU sets the device, draws it
\* and saves all.  The drawing may throw, the file may not open, and a write may
\* fail after some of the entries: what was written stays.
SaveFails(set) ==
  /\ unsaved' = TRUE
  /\ \/ UNCHANGED file
     \/ \E i \in DOMAIN file : \E n \in 0 .. StartEntries - 1 :
          file[i].kind \in StartKinds /\ file' = Saved(file, set, i, n)

SaveSucceeds(set) ==
  unsaved' = FALSE /\ file' = Saved(file, set, Len(file) + 1, 0)

ChangeSettings(d, set) ==
  /\ running
  /\ settings' = [settings EXCEPT ![d] = set]
  /\ SaveSucceeds(settings') \/ SaveFails(settings')
  /\ UNCHANGED <<clock, seen, minute_tick, list, history, program>>

\* The clock.  After the 31st comes the 1st: an odd day after an odd day.
NextMinute ==
  /\ now < LastMinute
  /\ now' = now + 1
  /\ seen' = FALSE
  /\ missed' = (missed \/ ~seen)
  /\ done' = {}
  /\ UNCHANGED <<parity, day, settings, minute_tick, list, executed, repeated,
                 disk, program>>

NextDay ==
  /\ now = LastMinute /\ day < MaxDays
  /\ now' = Midnight
  /\ day' = day + 1
  /\ parity' \in IF parity = "ODD" THEN Parities ELSE {"ODD"}
  /\ seen' = FALSE
  /\ missed' = (missed \/ ~seen)
  /\ executed' = {} /\ done' = {}
  /\ started' = NotStarted
  /\ UNCHANGED <<settings, minute_tick, list, repeated, disk, running, starts>>

\* The exit button, or a crash.
Stop ==
  /\ running
  /\ running' = FALSE
  /\ UNCHANGED <<clock, settings, seen, minute_tick, list, history, disk,
                 starts, started>>

\* The start of the program reads the settings, or ends.  Nothing of the list
\* is kept.
Start ==
  /\ ~running /\ starts < MaxStarts
  /\ Loads(file)
  /\ settings' = [d \in Devices |-> Loaded(file, d)]
  /\ running' = TRUE /\ unsaved' = FALSE
  /\ starts' = starts + 1 /\ started' = now
  /\ seen' = FALSE
  /\ minute_tick' = 0
  /\ container_timer_command' = {}
  /\ was_created_in_this_day' = FALSE
  /\ timer_commands_accepted' = FALSE
  /\ built' = Never /\ accepted' = Never
  /\ executed' = {} /\ done' = {}
  /\ UNCHANGED <<clock, repeated, file>>
-----------------------------------------------------------------------------
\* The program starts at any minute; the ticks of the handler start at 0.
MorningInit ==
  /\ now \in Minutes /\ parity \in Parities /\ day = 0
  /\ seen = FALSE
  /\ missed = FALSE
  /\ minute_tick = 0
  /\ file = Config
  /\ settings = [d \in Devices |-> Loaded(Config, d)]
  /\ container_timer_command = {}
  /\ was_created_in_this_day = FALSE
  /\ timer_commands_accepted = FALSE
  /\ built = Never
  /\ accepted = Never
  /\ executed = {} /\ done = {}
  /\ repeated = FALSE
  /\ running = TRUE /\ unsaved = FALSE
  /\ starts = 0 /\ started = NotStarted

MorningNext ==
  \/ TimerPulse
  \/ Accept
  \/ Generate
  \/ \E d \in Devices : \E set \in Choices[d] : ChangeSettings(d, set)
  \/ NextMinute
  \/ NextDay
  \/ Stop
  \/ Start

MorningSpec == MorningInit /\ [][MorningNext]_morning
-----------------------------------------------------------------------------
(***************************************************************************)
(* Properties                                                              *)
(***************************************************************************)

\* Types of the variables; a list that was built knows when.
Moments == [day : 0 .. MaxDays, at : Minutes]
TimerCommands == [device : Devices, at : Minutes]

MorningTypes ==
  /\ now \in Minutes /\ parity \in Parities /\ day \in 0 .. MaxDays
  /\ seen \in BOOLEAN /\ missed \in BOOLEAN
  /\ minute_tick \in 0 .. MinutesPerHour - 1
  /\ settings \in [Devices -> StartSettings]
  /\ Len(file) = Len(Config)
  /\ container_timer_command \subseteq TimerCommands
  /\ was_created_in_this_day \in BOOLEAN
  /\ timer_commands_accepted \in BOOLEAN
  /\ built \in Moments \cup {Never}
  /\ accepted \in Moments \cup {Never}
  /\ executed \subseteq TimerCommands /\ done \subseteq Devices
  /\ repeated \in BOOLEAN
  /\ running \in BOOLEAN /\ unsaved \in BOOLEAN
  /\ starts \in 0 .. MaxStarts /\ started \in Minutes \cup {NotStarted}
  /\ was_created_in_this_day => built # Never

\* The dispatcher has accepted every list a command of which is executed,
\* and accepted it after it was built: an acceptance given before midnight,
\* or to the list replaced by "generate", executes nothing of the new list.
\* As long as no minute passes without a pulse, the list is of this day,
\* except one that was generated after the cleaning of 23:59.
OfThisDay(t) == t.day = day \/ (t.day = day - 1 /\ t.at = LastMinute)

AcceptedThisList ==
  [][done' \ done # {}
     => /\ built' # Never /\ ~Precedes(accepted', built')
        /\ ~missed => OfThisDay(built')]_morning

\* The pulses of one minute execute its commands once, and so does a list
\* generated and accepted anew in that minute; missed minutes change nothing.
\* Only a program started anew in that minute executes them again.
ExecutedOnce == ~repeated

\* As long as no minute passes without a pulse, every command of the list
\* whose time has come this day since the list was accepted was executed.
DueExecuted ==
  ~missed /\ was_created_in_this_day /\ timer_commands_accepted =>
    \A c \in container_timer_command :
      /\ Precedes(accepted, [day |-> day, at |-> c.at])
      /\ c.at < now \/ (c.at = now /\ seen)
      => c \in executed

\* As long as no minute passes without a pulse, there is a list from the first
\* pulse of a day to its last minute: the dispatcher has something to accept.
\* After a start in the day there is none until the dispatcher generates it.
ListBuilt ==
  ~missed /\ started = NotStarted /\ running /\ day > 0 /\ now < LastMinute /\ (seen \/ now > Midnight)
    => was_created_in_this_day

\* Each day has its list, every accepted command of it is executed in time,
\* and none twice.
ListKept == MorningTypes /\ ListBuilt /\ DueExecuted /\ ExecutedOnce

\* A start brings back the settings the dispatcher left, unless the last saving
\* failed.  Whatever was saved, how far a failed saving came and how often the
\* program was started since: the file stays one the program can load, except
\* for the hour 0, which the dialog offers and the start refuses.
SettingsKept ==
  /\ ~unsaved => \A d \in Devices : Loaded(file, d) = settings[d]
  /\ (\A d \in Devices : Loaded(file, d).hour > 0) => Loads(file)
=============================================================================
