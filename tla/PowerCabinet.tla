---------------------------- MODULE PowerCabinet ----------------------------
(***************************************************************************)
(* A power transfer cabinet, class metro_shavr: it feeds the escalators of *)
(* a station from two inputs.  The dispatcher's commands, which connect an *)
(* escalator to an input or disconnect it, are chosen from the cabinet's   *)
(* menu, wait in the pool of commands and go to the cabinet's slot when he *)
(* sends them; the cabinet tells the contacts in its answers.              *)
(***************************************************************************)
EXTENDS Integers, FiniteSets

CONSTANTS
  Escalators,       \* positions in the cabinet; a position has a line per input
  Related,          \* positions with an escalator of the current type: for the
                    \* others every command is refused and none is offered
  ReconnectsCount,  \* RECONNECTS_TO_DEVICE_COUNT
  Moving,           \* related escalators that report motion (A0_x0) throughout
  MaxPool           \* bound: commands waiting in the pool

ASSUME PositionsAssumption ==
  Escalators \subseteq 1 .. 4 /\ Related \subseteq Escalators
  /\ Moving \subseteq Related
ASSUME CountsAssumption == ReconnectsCount \in Nat /\ MaxPool \in Nat

VARIABLES
  shavr,                       \* the automaton and the stored inputs
  last_failures_count,
  request_for_send_to_device,  \* the slot
  conduction_is_switched_off,
  pool,                        \* the cabinet's commands in the pool
  picture,                     \* what was drawn last
  contacts,                    \* environment: the lines that are connected
  synced, fresh                \* history: see DecodeThrown

vars == <<shavr, last_failures_count, request_for_send_to_device,
          conduction_is_switched_off, pool, picture, contacts, synced, fresh>>

Inputs == {1, 2}
Lines == Escalators \X Inputs
None == <<>>

\* A command for a line; old is history: the escalator's lines have been seen
\* to change since the command was chosen.
Commands == [on : BOOLEAN, line : Lines, old : BOOLEAN]

ContactStates == {"neither", "first", "second", "both"}
States == {"OFFLINE", "EXCEPTION"} \cup ContactStates

\* x1: contact; x2: and without an error; power: the inputs under 380 V (x3,
\* x4); connected: x10 .. x17; telemetry: lines that may be switched from here
\* (x18 .. x25); x5: the mark of a command.
Automaton == [state : States, x1 : BOOLEAN, x2 : BOOLEAN, x5 : BOOLEAN,
              power : SUBSET Inputs, connected : SUBSET Lines,
              telemetry : SUBSET Lines]
-----------------------------------------------------------------------------
(***************************************************************************)
(* The automaton: metro_shavr::A0                                          *)
(***************************************************************************)
EventCommand == 1
EventData == 7

Powered(s) == IF s.power = Inputs THEN "both"
              ELSE IF 1 \in s.power THEN "first"
              ELSE IF 2 \in s.power THEN "second" ELSE "neither"

Target(s, event) ==
  IF ~s.x1 THEN "OFFLINE"
  ELSE IF ~s.x2 THEN "EXCEPTION"
  ELSE IF event = EventCommand /\ s.state \in ContactStates THEN s.state
  ELSE Powered(s)

\* z1 sets the mark, z2 clears it on entry to OFFLINE and EXCEPTION.
A0(s, event) ==
  LET to == Target(s, event)
  IN [s EXCEPT !.state = to,
               !.x5 = IF to \in ContactStates
                      THEN @ \/ (event = EventCommand /\ s.state \in ContactStates)
                      ELSE @ /\ to = s.state]

\* update_device_widget: the lines only while there is contact.
Image(s) == [state |-> s.state, mark |-> s.x5,
             lines |-> IF s.x1 /\ s.x2 THEN s.connected ELSE {}]

Draw(s) == picture' = Image(s) /\ fresh' = TRUE
-----------------------------------------------------------------------------
(***************************************************************************)
(* Answers                                                                 *)
(***************************************************************************)
Rest == UNCHANGED <<conduction_is_switched_off, contacts>>

\* The history of a command.
Aged(c) ==
  [c EXCEPT !.old = @ \/ \E i \in Inputs : LET l == <<c.line[1], i>>
                            IN (l \in shavr'.connected) # (l \in shavr.connected)]

AgeCommands ==
  /\ pool' = {Aged(c) : c \in pool}
  /\ request_for_send_to_device' =
       IF request_for_send_to_device = None THEN None
       ELSE Aged(request_for_send_to_device)

\* Escalator 3's second input is not among the lines compared.
Changed(s, t) ==
  s.state # t.state \/ s.connected \ {<<3, 2>>} # t.connected \ {<<3, 2>>}

\* Mutation: the picture is drawn before the mark is put out.
EndDrawsFirst(s) ==
  LET t == A0(s, EventData)
  IN /\ synced' = TRUE
     /\ IF Changed(shavr, t) THEN shavr' = [t EXCEPT !.x5 = FALSE] /\ Draw(t)
        ELSE shavr' = t /\ UNCHANGED <<picture, fresh>>

\* A0(7); a change puts the mark out and is drawn.
EndOfDecoding(s) ==
  LET t == A0(s, EventData)
  IN /\ synced' = TRUE
     /\ IF Changed(shavr, t) THEN shavr' = [t EXCEPT !.x5 = FALSE] /\ Draw(shavr')
        ELSE shavr' = t /\ UNCHANGED <<picture, fresh>>

DecodeEmpty ==
  /\ IF last_failures_count > ReconnectsCount
     THEN /\ EndOfDecoding([shavr EXCEPT !.x1 = FALSE])
          /\ UNCHANGED last_failures_count
     ELSE /\ EndOfDecoding(shavr)
          /\ last_failures_count' = last_failures_count + 1
  /\ AgeCommands /\ Rest

DecodeError ==
  /\ IF last_failures_count > ReconnectsCount \/ ~shavr.x1
     THEN /\ EndOfDecoding([shavr EXCEPT !.x1 = TRUE, !.x2 = FALSE])
          /\ last_failures_count' = 0
     ELSE /\ EndOfDecoding(shavr)
          /\ last_failures_count' = last_failures_count + 1
  /\ AgeCommands /\ Rest

Contact(s) == [s EXCEPT !.x1 = TRUE, !.x2 = TRUE]

\* The echo of a command or of a setting of the clock.
DecodeEcho ==
  /\ EndOfDecoding(Contact(shavr))
  /\ last_failures_count' = 0
  /\ AgeCommands /\ Rest

\* Registers 30008 and 30009.
Stored(s, power, telemetry) ==
  [Contact(s) EXCEPT !.power = power, !.connected = contacts,
                     !.telemetry = telemetry]

Decode(power, telemetry) ==
  /\ EndOfDecoding(Stored(shavr, power, telemetry))
  /\ last_failures_count' = 0
  /\ AgeCommands /\ Rest

\* The decoding threw: before the inputs were stored (another request's
\* answer) or after (message registers out of range).  A0(7) is left out, and
\* the next decoding compares with the inputs that are stored already.
DecodeThrown(power, telemetry, stored) ==
  /\ shavr' = IF stored THEN Stored(shavr, power, telemetry) ELSE Contact(shavr)
  /\ last_failures_count' = 0
  /\ synced' = FALSE /\ fresh' = FALSE
  /\ UNCHANGED picture
  /\ AgeCommands /\ Rest
-----------------------------------------------------------------------------
(***************************************************************************)
(* The dispatcher                                                          *)
(***************************************************************************)

\* Mutation: the other input is not asked.
Connectable1(line) == line \notin shavr.connected

\* Neither input of the escalator is connected.
Connectable(line) == \A i \in Inputs : <<line[1], i>> \notin shavr.connected

\* get_appropriated_commands: contact and motion are not asked.
Offered(on, line) ==
  /\ line[1] \in Related /\ line \in shavr.telemetry
  /\ IF on THEN Connectable(line) ELSE line \in shavr.connected

Untouched == UNCHANGED <<last_failures_count, contacts, synced>>

\* A command chosen in the menu goes to the pool.
Choose(on, line) ==
  /\ Offered(on, line)
  /\ pool' = pool \cup {[on |-> on, line |-> line, old |-> FALSE]}
  /\ Cardinality(pool') <= MaxPool
  /\ UNCHANGED <<shavr, request_for_send_to_device, conduction_is_switched_off,
                 picture, fresh>>
  /\ Untouched

\* send_command: A0(1) and the drawing, whatever the command.
Marked(s) == A0(s, EventCommand)

\* A command from the pool, which may hold it twice.  The last check before it
\* goes asks whether the escalator moves, and then says that it does not.
SendCommand(c) ==
  /\ pool' \in {pool, pool \ {c}}
  /\ IF conduction_is_switched_off
     THEN UNCHANGED <<shavr, request_for_send_to_device, picture, fresh>>
     ELSE /\ c.line[1] \in Related
          /\ request_for_send_to_device' = c
          /\ shavr' = Marked(shavr) /\ Draw(shavr')
  /\ UNCHANGED conduction_is_switched_off /\ Untouched

\* Mutation: the mark goes, as the menu says.
MarkCancelled(s) == [A0(s, EventData) EXCEPT !.x5 = FALSE]

\* The mark is put out and, in contact, set again by A0(1).
Cancelled(s) == A0([s EXCEPT !.x5 = FALSE], EventCommand)

\* CHANCEL goes from the menu at once; an old menu may offer it without need.
\* The slot keeps the command.
Chancel ==
  /\ ~conduction_is_switched_off
  /\ shavr' = Cancelled(shavr) /\ Draw(shavr')
  /\ UNCHANGED <<pool, request_for_send_to_device, conduction_is_switched_off>>
  /\ Untouched

SwitchConduction ==
  /\ conduction_is_switched_off' = ~conduction_is_switched_off
  /\ UNCHANGED <<shavr, request_for_send_to_device, pool, picture, fresh>>
  /\ Untouched
-----------------------------------------------------------------------------
(***************************************************************************)
(* The thread of the device and the cabinet                                *)
(***************************************************************************)

\* The command is taken, and executed or lost on the way.
NetworkTakes(executed) ==
  /\ request_for_send_to_device # None
  /\ LET c == request_for_send_to_device
     IN contacts' = IF ~executed THEN contacts
                    ELSE IF c.on THEN contacts \cup {c.line}
                    ELSE contacts \ {c.line}
  /\ request_for_send_to_device' = None
  /\ UNCHANGED <<shavr, last_failures_count, conduction_is_switched_off, pool,
                 picture, synced, fresh>>

\* The lines may be switched at the cabinet too, one input at a time.
SwitchedLocally(line) ==
  /\ contacts' = IF line \in contacts THEN contacts \ {line}
                 ELSE contacts \cup {line}
  /\ ~(\A i \in Inputs : <<line[1], i>> \in contacts')
  /\ UNCHANGED <<shavr, last_failures_count, request_for_send_to_device,
                 conduction_is_switched_off, pool, picture,
                 synced, fresh>>
-----------------------------------------------------------------------------
\* The constructor leaves x1 .. x4 and the lines uninitialised; x1 and x2 are
\* taken to be FALSE here.
Init ==
  /\ shavr \in [state : {"OFFLINE"}, x1 : {FALSE}, x2 : {FALSE}, x5 : {FALSE},
                power : SUBSET Inputs, connected : SUBSET Lines,
                telemetry : SUBSET Lines]
  /\ last_failures_count = 0
  /\ request_for_send_to_device = None
  /\ conduction_is_switched_off \in BOOLEAN
  /\ pool = {}
  /\ picture = Image(shavr)
  /\ contacts = {}
  /\ synced = TRUE /\ fresh = TRUE

\* Bound: all lines are switched from here, or none.
Telemetries == {{}, Lines}

Next ==
  \/ DecodeEmpty \/ DecodeError \/ DecodeEcho
  \/ \E p \in SUBSET Inputs, t \in Telemetries :
       Decode(p, t) \/ \E stored \in BOOLEAN : DecodeThrown(p, t, stored)
  \/ \E on \in BOOLEAN, l \in Lines : Choose(on, l)
  \/ \E c \in pool : SendCommand(c)
  \/ Chancel \/ SwitchConduction
  \/ \E executed \in BOOLEAN : NetworkTakes(executed)
  \/ \E l \in Lines : SwitchedLocally(l)

Spec == Init /\ [][Next]_vars
-----------------------------------------------------------------------------
(***************************************************************************)
(* Properties                                                              *)
(***************************************************************************)

\* Types of the variables.
TypeOK ==
  /\ shavr \in Automaton
  /\ last_failures_count \in 0 .. (ReconnectsCount + 1)
  /\ request_for_send_to_device \in Commands \cup {None}
  /\ conduction_is_switched_off \in BOOLEAN
  /\ pool \subseteq Commands
  /\ picture \in [state : States, mark : BOOLEAN, lines : SUBSET Lines]
  /\ contacts \subseteq Lines /\ synced \in BOOLEAN /\ fresh \in BOOLEAN

\* Unless the last decoding threw, the state is that of the inputs; unless one
\* threw since the last drawing, the picture is that of the state, the mark and
\* the lines.  Only the line of escalator 3 to its second input may be wrong,
\* both ways.
ScreenCurrent ==
  /\ synced => shavr.state = Target(shavr, EventData)
  /\ fresh => /\ picture.state = shavr.state /\ picture.mark = shavr.x5
              /\ picture.lines \ {<<3, 2>>} = Image(shavr).lines \ {<<3, 2>>}

\* The mark of a command outlives the dispatcher's CHANCEL, a lost answer and
\* the echo of the command: in contact it goes only with a change of the
\* supply or of the lines.
MarkStands ==
  [][shavr.x5 /\ ~shavr'.x5
     => shavr'.state # shavr.state \/ shavr'.connected # shavr.connected]_vars

\* The spider connects an escalator to an input while it is connected to the
\* other only if that was not known yet when the answer before came, or became
\* known after the command had been chosen: nothing looks at the lines again
\* between the menu and the slot.
DoubleSupply(c) == c.on /\ \E i \in Inputs : <<c.line[1], i>> \in contacts \ {c.line}
KnownDouble(c) ==
  \E i \in Inputs : <<c.line[1], i>> \in (contacts \cap shavr.connected) \ {c.line}
NoKnownDouble ==
  LET c == request_for_send_to_device
  IN c # None /\ DoubleSupply(c) => c.old \/ ~KnownDouble(c)

\* The cabinet is shown as it is known.
CabinetShown == TypeOK /\ ScreenCurrent
=============================================================================
