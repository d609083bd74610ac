------------------------- MODULE Conduction_proofs --------------------------
(***************************************************************************)
(* Theorems about Conduction for every number of commands, every answer of *)
(* the station and every set of preferred directions and movements.        *)
(***************************************************************************)
EXTENDS Conduction, SequenceTheorems, WellFoundedInduction, TLAPS

-----------------------------------------------------------------------------
(***************************************************************************)
(* Induction, for sets: the library's theorem on minimal elements needs no *)
(* operator as a parameter.                                                *)
(***************************************************************************)
LEMMA UpTo ==
  ASSUME NEW n \in Nat, NEW S, 0 \in S,
         \A k \in 0 .. n - 1 : k \in S => k + 1 \in S
  PROVE  0 .. n \subseteq S
<1> DEFINE T == {k \in Nat : k \in 0 .. n /\ k \notin S}
           R == OpToRel(<, Nat)
<1>1. SUFFICES ASSUME T # {} PROVE FALSE
  OBVIOUS
<1>2. IsWellFoundedOn(R, Nat)
  BY NatLessThanWellFounded
<1>3. \A x, y \in Nat : x < y => <<x, y>> \in R
  BY DEF OpToRel
<1>4. T \subseteq Nat
  OBVIOUS
<1> HIDE DEF R, T
<1>5. PICK x \in T : \A y \in T : ~(<<y, x>> \in R)
  BY <1>1, <1>2, <1>4, WFMin
<1>6. x \in Nat /\ x # 0 /\ x \in 0 .. n /\ x \notin S
  BY DEF T
<1>7. x - 1 \in Nat /\ x - 1 < x /\ x - 1 \in 0 .. n - 1 /\ (x - 1) + 1 = x
  BY <1>6
<1>8. x - 1 \notin T
  BY <1>3, <1>5, <1>6, <1>7
<1>9. x - 1 \in S
  BY <1>7, <1>8 DEF T
<1>10. QED
  BY <1>6, <1>7, <1>9
-----------------------------------------------------------------------------
(***************************************************************************)
(* The device                                                              *)
(***************************************************************************)
LEMMA EscFields ==
  ASSUME NEW a \in E!Automaton
  PROVE  /\ a.state \in E!States /\ a.x1 \in E!Directions
         /\ a.previous_direction \in E!Directions
         /\ a.x0 \in BOOLEAN /\ a.x2 \in BOOLEAN /\ a.x3 \in BOOLEAN
         /\ a.x4 \in BOOLEAN /\ a.x5 \in BOOLEAN /\ a.x6 \in BOOLEAN
         /\ a.x8 \in BOOLEAN
  BY DEF E!Automaton

\* A0 makes an automaton of an automaton.
LEMMA EscA0 ==
  ASSUME NEW a \in E!Automaton, NEW event \in E!Events, NEW pref \in E!Directions
  PROVE  E!A0(a, event, pref) \in E!Automaton
<1>1. E!InContact(a, event) \in E!States
  BY EscFields DEF E!InContact, E!FromNotReady, E!FromReadyNotAccepted, E!FromReady,
     E!FromStarting, E!FromRun, E!FromStopping, E!FromOffline, E!FromException,
     E!States
<1>2. E!Target(a, event) \in E!States
  BY <1>1 DEF E!Target, E!States
<1> DEFINE to == E!Target(a, event)
<1>3. E!DirectionOnEntry(a, to, event, pref) \in E!Directions
  BY EscFields DEF E!DirectionOnEntry, E!Directions
<1>4. E!FlagOnEntry(a, to) \in BOOLEAN
  BY EscFields DEF E!FlagOnEntry
<1>5. (a.x8 \/ to \in {"OFFLINE", "EXCEPTION"}) \in BOOLEAN
  BY EscFields
<1>6. (IF to = "RUN" THEN a.x1 ELSE a.previous_direction) \in E!Directions
  BY EscFields
<1> HIDE DEF to
<1>7. E!Enter(a, to, event, pref) \in E!Automaton
  BY <1>2, <1>3, <1>4, <1>5, <1>6 DEF E!Enter, E!Automaton, to
<1>8. QED
  BY <1>7 DEF E!A0, to

\* What the window gives the escalator's automaton are events of it.
LEMMA EscEvents ==
  /\ E!EventData \in E!Events
  /\ \A c : E!EventOf(c) \in E!Events
  BY DEF E!Events, E!EventOf, E!EventUp, E!EventDown, E!EventStop, E!EventAccept,
     E!EventData

\* The answers of a station make an automaton of an automaton.
LEMMA EscRefreshed ==
  ASSUME NEW inp \in E!Automaton, pref_direction \in E!Directions
  PROVE  E!DataRefreshed(inp) \in E!Automaton
<1> DEFINE b == E!A0(inp, E!EventData, pref_direction)
<1>1. b \in E!Automaton
  BY EscA0, EscEvents
<1> HIDE DEF b
<1>2. [b EXCEPT !.x1 = pref_direction] \in E!Automaton
  BY <1>1 DEF E!Automaton
<1>3. QED
  BY <1>1, <1>2 DEF E!DataRefreshed, E!ShowPreferred, b

\* Its registers stored, an automaton is an automaton.
LEMMA EscStored ==
  ASSUME NEW a \in E!Automaton, NEW p \in Answers
  PROVE  E!StoreRegisters(E!Contact(a), p) \in E!Automaton
<1>1. E!Contact(a) \in E!Automaton
  BY DEF E!Contact, E!Automaton
<1> DEFINE b == E!Contact(a)
<1>2. p.running \in {"UP", "DOWN", "NO"} /\ p.remote \in BOOLEAN /\ p.ready \in BOOLEAN
  BY AnswersAssumption
<1>3. (p.running # "NO") \in BOOLEAN
  OBVIOUS
<1>4. (IF p.running = "NO" THEN b.x1 ELSE p.running) \in E!Directions
  BY <1>1, <1>2, EscFields DEF E!Directions
<1> HIDE DEF b
<1>5. E!StoreRegisters(b, p) \in E!Automaton
  BY <1>1, <1>2, <1>3, <1>4 DEF E!StoreRegisters, E!Automaton, b
<1>6. QED
  BY <1>5 DEF b

\* A device as a button handler passes it on.
Devices(ids) == [esc : E!Automaton, recent : BOOLEAN, slot : ids, ok : BOOLEAN]

\* A movement: while conduction is off nothing happens; otherwise its request,
\* and no other, may enter the slot.
LEMMA SendResult ==
  ASSUME NEW ids, NEW d \in Devices(ids), NEW c, NEW r \in ids,
         pref_direction \in E!Directions
  PROVE  /\ Send(d, c, r) \in Devices(ids)
         /\ Send(d, c, r).slot \in {d.slot, r}
         /\ c \notin E!Movements => Send(d, c, r).slot = d.slot
         /\ conduction_is_switched_off => Send(d, c, r) = d
<1>0. d.esc \in E!Automaton /\ d.recent \in BOOLEAN /\ d.slot \in ids /\ d.ok \in BOOLEAN
  BY DEF Devices
<1>1. CASE ~d.ok \/ conduction_is_switched_off
  BY <1>0, <1>1 DEF Send
<1>2. CASE ~(~d.ok \/ conduction_is_switched_off)
  <2> DEFINE a == AfterCommand(d.esc, c)
             recent == d.recent \/ (d.esc.state = "RUN" /\ a.state # "RUN")
             slot == IF c \in E!Movements THEN r ELSE d.slot
             ok == a.state = d.esc.state \/ E!Drawable(a)
  <2>1. a \in E!Automaton
    BY <1>0, EscA0, EscEvents DEF AfterCommand
  <2>2. recent \in BOOLEAN /\ slot \in ids
    BY <1>0
  <2>3. ok \in BOOLEAN
    BY DEF E!Drawable
  <2>4. Send(d, c, r) = [esc |-> a, recent |-> recent, slot |-> slot, ok |-> ok]
    BY <1>2 DEF Send
  <2>5. slot \in {d.slot, r} /\ (c \notin E!Movements => slot = d.slot)
    OBVIOUS
  <2> HIDE DEF a, recent, slot, ok
  <2>6. QED
    BY <1>2, <2>1, <2>2, <2>3, <2>4, <2>5 DEF Devices
<1>3. QED
  BY <1>1, <1>2
-----------------------------------------------------------------------------
(***************************************************************************)
(* "Send all", by induction over the pool                                  *)
(***************************************************************************)

\* The device after the first n commands of the pool, as a function.
IsSent(sent, n) ==
  sent = [k \in 0 .. n |-> IF k = 0 THEN Device
                           ELSE Send(sent[k - 1], cmds[pool[k]].code, pool[k])]

\* There is a way to send every command of a pool.
LEMMA SentExists ==
  ASSUME NEW n \in Nat
  PROVE  \E sent : IsSent(sent, n)
<1> DEFINE S == {k \in Nat : \E sent : IsSent(sent, k)}
<1>1. 0 \in S
  <2> DEFINE s == [k \in 0 .. 0 |-> Device]
  <2>1. s = [k \in 0 .. 0 |-> IF k = 0 THEN Device
                              ELSE Send(s[k - 1], cmds[pool[k]].code, pool[k])]
    OBVIOUS
  <2>2. IsSent(s, 0)
    BY <2>1 DEF IsSent
  <2>3. QED
    BY <2>2
<1>2. ASSUME NEW k \in 0 .. n - 1, k \in S PROVE k + 1 \in S
  <2>1. PICK s : IsSent(s, k)
    BY <1>2
  <2> DEFINE t == [i \in 0 .. (k + 1) |->
                     IF i = k + 1 THEN Send(s[k], cmds[pool[k + 1]].code, pool[k + 1])
                     ELSE s[i]]
  <2>2. ASSUME NEW i \in 0 .. (k + 1)
        PROVE  t[i] = IF i = 0 THEN Device
                      ELSE Send(t[i - 1], cmds[pool[i]].code, pool[i])
    <3>1. CASE i = k + 1
      <4>1. t[i - 1] = s[k]
        BY <3>1
      <4>2. QED
        BY <3>1, <4>1
    <3>2. CASE i # k + 1
      <4>1. i \in 0 .. k /\ t[i] = s[i]
        BY <3>2
      <4>2. s[i] = IF i = 0 THEN Device ELSE Send(s[i - 1], cmds[pool[i]].code, pool[i])
        BY <2>1, <4>1 DEF IsSent
      <4>3. i # 0 => i - 1 \in 0 .. (k + 1) /\ i - 1 # k + 1
        BY <4>1
      <4>4. i # 0 => t[i - 1] = s[i - 1]
        BY <4>3
      <4>5. QED
        BY <4>1, <4>2, <4>4
    <3>3. QED
      BY <3>1, <3>2
  <2> HIDE DEF t
  <2>3. t = [i \in 0 .. (k + 1) |-> IF i = 0 THEN Device
                                    ELSE Send(t[i - 1], cmds[pool[i]].code, pool[i])]
    <3>1. t = [i \in 0 .. (k + 1) |-> t[i]]
      BY DEF t
    <3>2. QED
      BY <2>2, <3>1
  <2>4. IsSent(t, k + 1)
    BY <2>3 DEF IsSent
  <2>5. QED
    BY <2>4
<1> HIDE DEF S
<1>3. 0 .. n \subseteq S
  BY <1>1, <1>2, UpTo
<1>4. QED
  BY <1>3 DEF S

\* Sending all leaves a device, whose slot holds what it held or one of the
\* pool's commands; while conduction is off, what it held.
LEMMA AllSentResult ==
  ASSUME NEW ids, Device \in Devices(ids), Len(pool) \in Nat,
         \A k \in 1 .. Len(pool) : pool[k] \in ids,
         pref_direction \in E!Directions
  PROVE  /\ AllSent \in Devices(ids)
         /\ \/ AllSent.slot = Device.slot
            \/ \E k \in 1 .. Len(pool) : AllSent.slot = pool[k]
         /\ conduction_is_switched_off => AllSent = Device
<1> DEFINE n == Len(pool)
           sent == CHOOSE f : IsSent(f, n)
<1>1. IsSent(sent, n)
  BY SentExists
<1>2. AllSent = sent[n]
  BY DEF AllSent, IsSent
<1> HIDE DEF sent
<1> DEFINE Good(d) == /\ d \in Devices(ids)
                      /\ d.slot = Device.slot \/ \E k \in 1 .. n : d.slot = pool[k]
                      /\ conduction_is_switched_off => d = Device
           S == {k \in Nat : k \in 0 .. n => Good(sent[k])}
<1>3. 0 \in S
  BY <1>1 DEF IsSent
<1>4. ASSUME NEW k \in 0 .. n - 1, k \in S PROVE k + 1 \in S
  <2>1. Good(sent[k])
    BY <1>4
  <2>2. k + 1 \in 1 .. n
    OBVIOUS
  <2>3. sent[k + 1] = Send(sent[k], cmds[pool[k + 1]].code, pool[k + 1])
    BY <1>1, <2>2 DEF IsSent
  <2>4. /\ sent[k + 1] \in Devices(ids)
        /\ sent[k + 1].slot \in {sent[k].slot, pool[k + 1]}
        /\ conduction_is_switched_off => sent[k + 1] = sent[k]
    BY <2>1, <2>2, <2>3, SendResult
  <2>5. Good(sent[k + 1])
    BY <2>1, <2>2, <2>4
  <2>6. QED
    BY <2>5
<1> HIDE DEF S, Good
<1>5. 0 .. n \subseteq S
  BY <1>3, <1>4, UpTo
<1>6. Good(sent[n])
  BY <1>5 DEF S
<1> USE DEF Good
<1>7. QED
  BY <1>2, <1>6
-----------------------------------------------------------------------------
(***************************************************************************)
(* The invariant                                                           *)
(***************************************************************************)

\* A command's number is at least its place in the pool, so the pool is never
\* longer than what was chosen; what the thread took had been chosen.
Places ==
  /\ Len(pool) <= Len(cmds)
  /\ \A i \in 1 .. Len(pool) : pool[i] >= i
  /\ prompt # 0 => prompt > Len(pool)
  /\ taken \subseteq 1 .. Len(cmds)

\* What waits in the pool was asked about, or is not against the direction,
\* unless the device has changed since.
AskedOrSame ==
  \A i \in 1 .. Len(pool) :
    \/ cmds[pool[i]].confirmed \/ cmds[pool[i]].changed
    \/ ~Against(cmds[pool[i]].code, Now)

IInv == PoolSound /\ Places /\ AskedOrSame

\* TypeOK in the three parts that handlers change.
DeviceTyped == /\ esc \in E!Automaton /\ pref_direction \in E!Directions
               /\ recent_stop \in BOOLEAN /\ running \in BOOLEAN
SwitchesTyped == /\ conduction_is_switched_off \in BOOLEAN
                 /\ sending_commands_disabled \in BOOLEAN
                 /\ setting_start_time_disabled \in BOOLEAN
                 /\ menu \subseteq E!Movements \cup {"ACCEPT", "CHANCEL"}
                 /\ wnd \in BOOLEAN
NumbersTyped == /\ request_for_send_to_device \in 0 .. Len(cmds)
                /\ prompt \in 0 .. Len(cmds)
                /\ pool \in Seq(1 .. Len(cmds))
                /\ rows \in 0 .. MaxCommands
                /\ cmds \in Seq(Chosen) /\ Len(cmds) <= MaxCommands
                /\ taken \subseteq Ids

\* The type invariant by groups of variables.
LEMMA TypeParts == TypeOK <=> DeviceTyped /\ SwitchesTyped /\ NumbersTyped
<1>1. TypeOK => DeviceTyped
  BY DEF TypeOK, DeviceTyped
<1>2. TypeOK => SwitchesTyped
  BY DEF TypeOK, SwitchesTyped
<1>3. TypeOK => NumbersTyped
  BY DEF TypeOK, NumbersTyped
<1>4. DeviceTyped /\ SwitchesTyped /\ NumbersTyped => TypeOK
  BY DEF TypeOK, DeviceTyped, SwitchesTyped, NumbersTyped
<1>5. QED
  BY <1>1, <1>2, <1>3, <1>4

\* The same after a step.
LEMMA TypePartsNext == DeviceTyped' /\ SwitchesTyped' /\ NumbersTyped' => TypeOK'
  BY DEF TypeOK, DeviceTyped, SwitchesTyped, NumbersTyped

\* The invariant holds at the start.
LEMMA InitIInv == Init => IInv
<1> SUFFICES ASSUME Init PROVE IInv
  OBVIOUS
<1>1. pref_direction \in E!Directions
  BY PrefsAssumption DEF Init, E!Directions
<1>2. esc \in E!Automaton
  BY <1>1 DEF Init, Fresh, E!Automaton, E!States
<1>3. DeviceTyped
  BY <1>1, <1>2 DEF Init, DeviceTyped
<1>4. SwitchesTyped
  BY DEF Init, SwitchesTyped
<1>5. /\ pool = <<>> /\ cmds = <<>> /\ Len(pool) = 0 /\ Len(cmds) = 0
      /\ pool \in Seq(1 .. Len(cmds)) /\ cmds \in Seq(Chosen)
  BY DEF Init
<1>6. NumbersTyped
  BY <1>5, BoundsAssumption DEF Init, NumbersTyped, Ids
<1>7. SentOnce /\ RowsMatch /\ ConductionAgrees
  BY <1>5 DEF Init, SentOnce, RowsMatch, ConductionAgrees
<1>8. Places /\ AskedOrSame
  BY <1>5 DEF Init, Places, AskedOrSame
<1>9. QED
  BY <1>3, <1>4, <1>6, <1>7, <1>8, TypeParts DEF IInv, PoolSound

\* Noting a change keeps every command but the mark.
LEMMA NotedResult ==
  ASSUME cmds \in Seq(Chosen), NEW chosen, chosen = Noted(cmds)
  PROVE  /\ chosen \in Seq(Chosen) /\ Len(chosen) = Len(cmds)
         /\ \A r \in 1 .. Len(cmds) :
              /\ chosen[r].code = cmds[r].code
              /\ chosen[r].confirmed = cmds[r].confirmed
              /\ cmds[r].changed => chosen[r].changed
              /\ Now' # Now => chosen[r].changed
<1>1. Len(cmds) \in Nat /\ DOMAIN cmds = 1 .. Len(cmds)
      /\ \A r \in 1 .. Len(cmds) : cmds[r] \in Chosen
  BY ElementOfSeq, LenProperties
<1>2. CASE Now' = Now
  BY <1>1, <1>2 DEF Noted
<1>3. CASE Now' # Now
  <2> DEFINE s == [r \in 1 .. Len(cmds) |-> [cmds[r] EXCEPT !.changed = TRUE]]
  <2>1. chosen = s
    BY <1>1, <1>3 DEF Noted
  <2>2. ASSUME NEW r \in 1 .. Len(cmds)
        PROVE  /\ s[r] \in Chosen /\ s[r].code = cmds[r].code
               /\ s[r].confirmed = cmds[r].confirmed /\ s[r].changed
    <3> DEFINE e == cmds[r]
    <3>1. e \in Chosen
      BY <1>1
    <3>2. s[r] = [e EXCEPT !.changed = TRUE]
      OBVIOUS
    <3> HIDE DEF e, s
    <3>3. /\ s[r] \in Chosen /\ s[r].code = e.code
          /\ s[r].confirmed = e.confirmed /\ s[r].changed
      BY <3>1, <3>2 DEF Chosen
    <3>4. QED
      BY <3>3 DEF e
  <2>3. s \in Seq(Chosen) /\ Len(s) = Len(cmds)
    <3>1. s \in [1 .. Len(cmds) -> Chosen]
      BY <2>2
    <3> HIDE DEF s
    <3>2. QED
      BY <1>1, <3>1
  <2>4. QED
    BY <2>1, <2>2, <2>3
<1>4. QED
  BY <1>2, <1>3

\* Appending a command to the history.
LEMMA AppendedResult ==
  ASSUME NEW S, NEW s \in Seq(S), NEW e \in S
  PROVE  /\ Append(s, e) \in Seq(S) /\ Len(Append(s, e)) = Len(s) + 1
         /\ Len(s) \in Nat
         /\ \A i \in 1 .. Len(s) : Append(s, e)[i] = s[i]
         /\ Append(s, e)[Len(s) + 1] = e
  BY AppendProperties, LenProperties

\* Taking a command out of the pool closes the gap.
LEMMA WithoutResult ==
  ASSUME NEW S, NEW s \in Seq(S), NEW i \in 1 .. Len(s)
  PROVE  /\ Without(s, i) \in Seq(S) /\ Len(Without(s, i)) = Len(s) - 1
         /\ \A j \in 1 .. Len(s) - 1 :
              Without(s, i)[j] = IF j < i THEN s[j] ELSE s[j + 1]
<1> DEFINE a == SubSeq(s, 1, i - 1)
           b == SubSeq(s, i + 1, Len(s))
<1>0. Len(s) \in Nat /\ \A j \in 1 .. Len(s) : s[j] \in S
  BY LenProperties, ElementOfSeq
<1>1. /\ a \in Seq(S) /\ Len(a) = i - 1
      /\ \A j \in 1 .. i - 1 : a[j] = s[j]
  BY <1>0, SubSeqProperties
<1>2. /\ b \in Seq(S) /\ Len(b) = Len(s) - i
      /\ \A j \in 1 .. Len(s) - i : b[j] = s[i + j]
  <2>1. i + 1 \in Int /\ Len(s) \in Int /\ \A j \in i + 1 .. Len(s) : s[j] \in S
    BY <1>0
  <2>2. /\ b \in Seq(S)
        /\ Len(b) = IF i + 1 <= Len(s) THEN Len(s) - (i + 1) + 1 ELSE 0
        /\ \A j \in 1 .. Len(s) - (i + 1) + 1 : b[j] = s[(i + 1) + j - 1]
    BY <2>1, SubSeqProperties
  <2> HIDE DEF b
  <2>3. QED
    BY <1>0, <2>2
<1>3. Without(s, i) = a \o b
  BY DEF Without, RemoveAt
<1> HIDE DEF a, b
<1>4. /\ a \o b \in Seq(S) /\ Len(a \o b) = Len(a) + Len(b)
      /\ \A j \in 1 .. Len(a) + Len(b) :
           (a \o b)[j] = IF j <= Len(a) THEN a[j] ELSE b[j - Len(a)]
  BY <1>1, <1>2, ConcatProperties
<1>5. ASSUME NEW j \in 1 .. Len(s) - 1
      PROVE  (a \o b)[j] = IF j < i THEN s[j] ELSE s[j + 1]
  <2>0. i \in Int /\ j \in Int
    BY <1>0
  <2>1. CASE j < i
    BY <1>0, <1>1, <1>2, <1>4, <2>1
  <2>2. CASE ~(j < i)
    <3>1. j - (i - 1) \in 1 .. Len(s) - i /\ i + (j - (i - 1)) = j + 1
      BY <1>0, <2>2
    <3>2. (a \o b)[j] = b[j - (i - 1)]
      BY <1>0, <1>1, <1>2, <1>4, <2>2
    <3>3. b[j - (i - 1)] = s[i + (j - (i - 1))]
      BY <1>2, <3>1
    <3>4. QED
      BY <2>2, <3>1, <3>2, <3>3
  <2>3. QED
    BY <2>1, <2>2
<1>6. QED
  BY <1>0, <1>1, <1>2, <1>3, <1>4, <1>5
-----------------------------------------------------------------------------
(***************************************************************************)
(* The steps, in the shapes the handlers have                              *)
(***************************************************************************)

\* The facts about numbers that every step needs.
LEMMA NumbersKnown ==
  ASSUME IInv
  PROVE  /\ NumbersTyped /\ DeviceTyped /\ SwitchesTyped
         /\ Len(cmds) \in Nat /\ Len(pool) \in Nat /\ MaxCommands \in Nat
         /\ \A i \in 1 .. Len(pool) : pool[i] \in 1 .. Len(cmds)
         /\ \A r \in 1 .. Len(cmds) : cmds[r] \in Chosen
         /\ cmds \in Seq(Chosen) /\ pool \in Seq(1 .. Len(cmds))
         /\ 0 \notin taken
<1>1. NumbersTyped /\ DeviceTyped /\ SwitchesTyped
  BY TypeParts DEF IInv, PoolSound
<1>2. cmds \in Seq(Chosen) /\ pool \in Seq(1 .. Len(cmds))
  BY <1>1 DEF NumbersTyped
<1>3. 0 \notin taken
  BY DEF IInv, Places
<1>4. QED
  BY <1>1, <1>2, <1>3, BoundsAssumption, LenProperties, ElementOfSeq

\* The commands of the pool stay asked about, or marked, while others are
\* chosen and the device changes.
LEMMA AskedKept ==
  ASSUME IInv,
         \/ cmds' = Noted(cmds)
         \/ \E e \in Chosen : cmds' = Append(Noted(cmds), e),
         \A j \in 1 .. Len(pool') : \E k \in 1 .. Len(pool) : pool'[j] = pool[k]
  PROVE  AskedOrSame'
<1>0. /\ cmds \in Seq(Chosen) /\ Len(cmds) \in Nat
      /\ \A i \in 1 .. Len(pool) : pool[i] \in 1 .. Len(cmds)
  BY NumbersKnown
<1>1. \A r \in 1 .. Len(cmds) :
        /\ cmds'[r].code = cmds[r].code
        /\ cmds'[r].confirmed = cmds[r].confirmed
        /\ cmds[r].changed => cmds'[r].changed
        /\ Now' # Now => cmds'[r].changed
  <2> DEFINE n == Noted(cmds)
  <2>1. /\ n \in Seq(Chosen) /\ Len(n) = Len(cmds)
        /\ \A r \in 1 .. Len(cmds) :
              /\ n[r].code = cmds[r].code
              /\ n[r].confirmed = cmds[r].confirmed
              /\ cmds[r].changed => n[r].changed
              /\ Now' # Now => n[r].changed
    BY <1>0, NotedResult
  <2> HIDE DEF n
  <2>2. \A r \in 1 .. Len(cmds) : cmds'[r] = n[r]
    BY <2>1, AppendedResult DEF n
  <2>3. QED
    BY <2>1, <2>2
<1>2. ASSUME NEW j \in 1 .. Len(pool')
      PROVE  \/ cmds'[pool'[j]].confirmed \/ cmds'[pool'[j]].changed
             \/ ~Against(cmds'[pool'[j]].code, Now')
  <2>1. PICK k \in 1 .. Len(pool) : pool'[j] = pool[k]
    OBVIOUS
  <2> DEFINE r == pool[k]
  <2>2. r \in 1 .. Len(cmds) /\ pool'[j] = r
    BY <1>0, <2>1
  <2>3. \/ cmds[r].confirmed \/ cmds[r].changed \/ ~Against(cmds[r].code, Now)
    BY DEF IInv, AskedOrSame
  <2> HIDE DEF r
  <2>4. CASE Now' = Now
    BY <1>1, <2>2, <2>3, <2>4
  <2>5. CASE Now' # Now
    BY <1>1, <2>2, <2>5
  <2>6. QED
    BY <2>4, <2>5
<1>3. QED
  BY <1>2 DEF AskedOrSame, Against

\* Answers, silence, the passing of the delay, a new preferred direction.
LEMMA DeviceStep ==
  ASSUME IInv, DeviceTyped', cmds' = Noted(cmds),
         UNCHANGED <<request_for_send_to_device, switches, menu, prompt, window,
                     running, taken>>
  PROVE  IInv'
<1>1. cmds' \in Seq(Chosen) /\ Len(cmds') = Len(cmds)
  BY NotedResult, NumbersKnown
<1>2. /\ NumbersTyped /\ SwitchesTyped
  BY NumbersKnown
<1>3. NumbersTyped'
  BY <1>1, <1>2 DEF NumbersTyped, window
<1>4. SwitchesTyped'
  BY <1>2 DEF SwitchesTyped, switches, window
<1>5. SentOnce' /\ RowsMatch' /\ ConductionAgrees'
  BY DEF IInv, PoolSound, SentOnce, RowsMatch, ConductionAgrees, switches, window
<1>6. Places'
  BY <1>1 DEF IInv, Places, window
<1>7. AskedOrSame'
  <2>1. \A j \in 1 .. Len(pool') : \E k \in 1 .. Len(pool) : pool'[j] = pool[k]
    BY DEF window
  <2>2. QED
    BY <2>1, AskedKept
<1>8. QED
  BY <1>3, <1>4, <1>5, <1>6, <1>7, TypePartsNext DEF IInv, PoolSound

\* Menus, questions, windows, passwords: the device and the commands stay.
LEMMA WindowStep ==
  ASSUME IInv, SwitchesTyped', ConductionAgrees', RowsMatch',
         prompt' \in {0, prompt}, rows' \in {0, Len(pool), rows},
         UNCHANGED <<device, request_for_send_to_device, pool, running, history>>
  PROVE  IInv'
<1>1. /\ NumbersTyped /\ DeviceTyped /\ Len(pool) \in 0 .. MaxCommands
  <2>1. Len(pool) <= Len(cmds)
    BY DEF IInv, Places
  <2>2. QED
    BY <2>1, NumbersKnown DEF NumbersTyped
<1>2. NumbersTyped'
  BY <1>1, NumbersKnown DEF NumbersTyped, history
<1>3. DeviceTyped'
  BY <1>1 DEF DeviceTyped, device
<1>4. SentOnce'
  BY NumbersKnown DEF IInv, PoolSound, SentOnce, history, NumbersTyped
<1>5. Places'
  BY DEF IInv, Places, history
<1>6. AskedOrSame'
  BY DEF IInv, AskedOrSame, Against, Now, device, history
<1>7. QED
  BY <1>2, <1>3, <1>4, <1>5, <1>6, TypePartsNext DEF IInv, PoolSound

\* The handlers that send without touching the pool.
LEMMA SendStep ==
  ASSUME IInv, NEW d \in Devices(0 .. Len(cmds')), DeviceBecomes(d),
         UNCHANGED <<pref_direction, switches, menu, prompt, window, taken>>,
         \/ cmds' = Noted(cmds) /\ d.slot = request_for_send_to_device /\ d.ok
         \/ /\ \E e \in Chosen : cmds' = Append(Noted(cmds), e)
            /\ Len(cmds) < MaxCommands /\ running
            /\ d.slot \in {request_for_send_to_device, Len(cmds) + 1} /\ d.ok,
         running
  PROVE  IInv'
<1>0. /\ NumbersTyped /\ SwitchesTyped /\ DeviceTyped
      /\ Len(cmds) \in Nat /\ Len(pool) \in Nat /\ MaxCommands \in Nat
      /\ \A i \in 1 .. Len(pool) : pool[i] \in 1 .. Len(cmds)
      /\ pool \in Seq(1 .. Len(cmds))
  BY NumbersKnown
<1>1. /\ esc' \in E!Automaton /\ recent_stop' \in BOOLEAN
      /\ request_for_send_to_device' = d.slot /\ running' = TRUE
  BY DEF Devices, DeviceBecomes
<1>2. DeviceTyped'
  BY <1>0, <1>1 DEF DeviceTyped
<1>3. SwitchesTyped'
  BY <1>0 DEF SwitchesTyped, switches, window
<1>4. /\ cmds' \in Seq(Chosen) /\ Len(cmds') \in Nat
      /\ Len(cmds) <= Len(cmds') /\ Len(cmds') <= MaxCommands
      /\ d.slot = request_for_send_to_device
           \/ (d.slot = Len(cmds) + 1 /\ Len(cmds') = Len(cmds) + 1)
  <2> DEFINE n == Noted(cmds)
  <2>1. n \in Seq(Chosen) /\ Len(n) = Len(cmds)
    BY NotedResult, NumbersKnown
  <2> HIDE DEF n
  <2>2. Len(cmds) <= MaxCommands
    BY <1>0 DEF NumbersTyped
  <2>3. CASE cmds' = n /\ d.slot = request_for_send_to_device
    <3>1. cmds' \in Seq(Chosen) /\ Len(cmds') = Len(cmds)
      BY <2>1, <2>3
    <3>2. QED
      BY <1>0, <2>2, <2>3, <3>1
  <2>4. ASSUME NEW e \in Chosen, cmds' = Append(n, e), Len(cmds) < MaxCommands,
               d.slot \in {request_for_send_to_device, Len(cmds) + 1}
        PROVE  /\ cmds' \in Seq(Chosen) /\ Len(cmds') \in Nat
               /\ Len(cmds) <= Len(cmds') /\ Len(cmds') <= MaxCommands
               /\ d.slot = request_for_send_to_device
                    \/ (d.slot = Len(cmds) + 1 /\ Len(cmds') = Len(cmds) + 1)
    <3>1. cmds' \in Seq(Chosen) /\ Len(cmds') = Len(cmds) + 1
      BY <2>1, <2>4, AppendedResult
    <3>2. QED
      BY <1>0, <2>4, <3>1
  <2>5. CASE cmds' = n /\ d.slot = request_for_send_to_device /\ d.ok
    BY <2>3, <2>5
  <2>6. CASE /\ \E e \in Chosen : cmds' = Append(n, e)
             /\ Len(cmds) < MaxCommands
             /\ d.slot \in {request_for_send_to_device, Len(cmds) + 1}
    BY <2>4, <2>6
  <2>7. QED
    BY <2>5, <2>6 DEF n
<1>5. pool \in Seq(1 .. Len(cmds'))
  <2>1. 1 .. Len(cmds) \subseteq 1 .. Len(cmds')
    BY <1>0, <1>4
  <2>2. QED
    BY <1>0, <2>1, SeqMonotonic
<1>6. NumbersTyped'
  BY <1>0, <1>1, <1>4, <1>5 DEF NumbersTyped, window
<1>7. SentOnce'
  <2>1. SentOnce /\ running /\ taken \subseteq 1 .. Len(cmds)
    BY DEF IInv, PoolSound, Places
  <2>2. prompt \in 0 .. Len(cmds)
    BY <1>0 DEF NumbersTyped
  <2>3. QED
    BY <1>0, <1>1, <1>4, <2>1, <2>2 DEF SentOnce, window
<1>8. RowsMatch' /\ ConductionAgrees'
  BY DEF IInv, PoolSound, RowsMatch, ConductionAgrees, switches, window
<1>9. Places'
  BY <1>0, <1>4 DEF IInv, Places, window
<1>10. AskedOrSame'
  <2>1. \A j \in 1 .. Len(pool') : \E k \in 1 .. Len(pool) : pool'[j] = pool[k]
    BY DEF window
  <2>2. QED
    BY <2>1, AskedKept
<1>11. QED
  BY <1>2, <1>3, <1>6, <1>7, <1>8, <1>9, <1>10, TypePartsNext DEF IInv, PoolSound

\* The handlers that send and let commands leave the pool.
LEMMA LeaveStep ==
  ASSUME IInv, running, wnd, prompt = 0, cmds' = Noted(cmds),
         NEW d \in Devices(0 .. Len(cmds)), DeviceBecomes(d),
         \/ d.slot = request_for_send_to_device
         \/ \E k \in 1 .. Len(pool) : d.slot = pool[k],
         UNCHANGED <<pref_direction, switches, menu, prompt, wnd, taken>>,
         pool' \in Seq(1 .. Len(cmds)), Len(pool') <= Len(pool),
         \A j \in 1 .. Len(pool') : \E k \in 1 .. Len(pool) : k >= j /\ pool'[j] = pool[k],
         running' => \A a, b \in 1 .. Len(pool') : pool'[a] = pool'[b] => a = b,
         running' => \A j \in 1 .. Len(pool') : pool'[j] # d.slot,
         rows' = IF running' THEN Len(pool') ELSE rows
  PROVE  IInv'
<1>0. /\ NumbersTyped /\ SwitchesTyped /\ DeviceTyped
      /\ Len(cmds) \in Nat /\ Len(pool) \in Nat /\ MaxCommands \in Nat
      /\ \A i \in 1 .. Len(pool) : pool[i] \in 1 .. Len(cmds)
      /\ Len(pool) <= Len(cmds) /\ 0 \notin taken
  BY NumbersKnown DEF IInv, Places
<1>1. /\ esc' \in E!Automaton /\ recent_stop' \in BOOLEAN
      /\ request_for_send_to_device' = d.slot /\ d.slot \in 0 .. Len(cmds)
      /\ running' \in BOOLEAN
  BY DEF Devices, DeviceBecomes
<1>2. DeviceTyped'
  BY <1>0, <1>1 DEF DeviceTyped
<1>3. SwitchesTyped'
  BY <1>0 DEF SwitchesTyped, switches
<1>4. cmds' \in Seq(Chosen) /\ Len(cmds') = Len(cmds)
  BY NotedResult, NumbersKnown
<1>5. Len(pool') \in Nat
  BY LenProperties
<1>6. NumbersTyped'
  BY <1>0, <1>1, <1>4, <1>5 DEF NumbersTyped
<1>7. SentOnce'
  <2>1. SUFFICES ASSUME running'
                 PROVE  SentOnce'
    BY DEF SentOnce
  <2>2. /\ d.slot \notin taken /\ 0 \notin taken
        /\ \A i \in 1 .. Len(pool) : pool[i] \notin taken
    BY <1>0 DEF IInv, PoolSound, SentOnce
  <2>3. \A j \in 1 .. Len(pool') : pool'[j] \notin taken /\ pool'[j] # 0
    BY <1>0, <2>2
  <2>4. QED
    BY <1>1, <2>1, <2>2, <2>3 DEF SentOnce
<1>8. RowsMatch' /\ ConductionAgrees'
  BY DEF IInv, PoolSound, RowsMatch, ConductionAgrees, switches
<1>9. Places'
  <2>1. \A j \in 1 .. Len(pool') : pool'[j] >= j
    BY <1>0, <1>5 DEF IInv, Places
  <2>2. QED
    BY <1>0, <1>4, <1>5, <2>1 DEF IInv, Places
<1>10. AskedOrSame'
  <2>1. \A j \in 1 .. Len(pool') : \E k \in 1 .. Len(pool) : pool'[j] = pool[k]
    OBVIOUS
  <2>2. QED
    BY <2>1, AskedKept
<1>11. QED
  BY <1>2, <1>3, <1>6, <1>7, <1>8, <1>9, <1>10, TypePartsNext DEF IInv, PoolSound

\* One command leaves the pool, sent or dropped.
LEMMA OneLeaves ==
  ASSUME IInv, running, wnd, prompt = 0, cmds' = Noted(cmds),
         NEW i \in 1 .. Len(pool),
         NEW d \in Devices(0 .. Len(cmds)), DeviceBecomes(d),
         d.slot \in {request_for_send_to_device, pool[i]},
         UNCHANGED <<pref_direction, switches, menu, prompt, wnd, taken>>,
         IF running' THEN pool' = Without(pool, i) /\ Display
         ELSE UNCHANGED <<pool, rows>>
  PROVE  IInv'
<1>0. /\ Len(pool) \in Nat /\ pool \in Seq(1 .. Len(cmds))
      /\ \A a, b \in 1 .. Len(pool) : pool[a] = pool[b] => a = b
      /\ \A j \in 1 .. Len(pool) : pool[j] # request_for_send_to_device
  BY NumbersKnown DEF IInv, PoolSound, SentOnce
<1>1. CASE ~running'
  <2>1. pool' = pool /\ rows' = rows
    BY <1>1
  <2>2. \A j \in 1 .. Len(pool') : \E k \in 1 .. Len(pool) : k >= j /\ pool'[j] = pool[k]
    BY <1>0, <2>1
  <2>3. QED
    BY <1>0, <1>1, <2>1, <2>2, LeaveStep
<1>2. CASE running'
  <2>1. /\ pool' \in Seq(1 .. Len(cmds)) /\ Len(pool') = Len(pool) - 1
        /\ \A j \in 1 .. Len(pool) - 1 :
             pool'[j] = IF j < i THEN pool[j] ELSE pool[j + 1]
        /\ rows' = Len(pool')
    <3>1. pool' = Without(pool, i) /\ rows' = Len(pool')
      BY <1>2 DEF Display
    <3>2. /\ Without(pool, i) \in Seq(1 .. Len(cmds))
          /\ Len(Without(pool, i)) = Len(pool) - 1
          /\ \A j \in 1 .. Len(pool) - 1 :
               Without(pool, i)[j] = IF j < i THEN pool[j] ELSE pool[j + 1]
      BY <1>0, WithoutResult
    <3>3. QED
      BY <3>1, <3>2
  <2>0. i \in Int /\ 1 .. Len(pool') = 1 .. Len(pool) - 1
    BY <1>0, <2>1
  <2>2. \A j \in 1 .. Len(pool') :
          \E k \in 1 .. Len(pool) : k >= j /\ k # i /\ pool'[j] = pool[k]
    <3>1. SUFFICES ASSUME NEW j \in 1 .. Len(pool')
                   PROVE  \E k \in 1 .. Len(pool) : k >= j /\ k # i /\ pool'[j] = pool[k]
      OBVIOUS
    <3>2. CASE j < i
      <4>1. j \in 1 .. Len(pool) /\ j >= j /\ j # i /\ pool'[j] = pool[j]
        BY <1>0, <2>0, <2>1, <3>2
      <4>2. QED
        BY <4>1
    <3>3. CASE ~(j < i)
      <4>1. j + 1 \in 1 .. Len(pool) /\ j + 1 >= j /\ j + 1 # i /\ pool'[j] = pool[j + 1]
        BY <1>0, <2>0, <2>1, <3>3
      <4>2. QED
        BY <4>1
    <3>4. QED
      BY <3>2, <3>3
  <2>3. ASSUME NEW a \in 1 .. Len(pool'), NEW b \in 1 .. Len(pool'), pool'[a] = pool'[b]
        PROVE  a = b
    <3> DEFINE Old(j) == IF j < i THEN j ELSE j + 1
    <3>1. \A j \in 1 .. Len(pool) - 1 :
            Old(j) \in 1 .. Len(pool) /\ pool'[j] = pool[Old(j)]
      <4>1. SUFFICES ASSUME NEW j \in 1 .. Len(pool) - 1
                     PROVE  Old(j) \in 1 .. Len(pool) /\ pool'[j] = pool[Old(j)]
        OBVIOUS
      <4>2. CASE j < i
        <5>1. Old(j) = j /\ j \in 1 .. Len(pool)
          BY <1>0, <4>2
        <5>2. pool'[j] = pool[j]
          BY <2>1, <4>2
        <5>3. QED
          BY <5>1, <5>2
      <4>3. CASE ~(j < i)
        <5>1. Old(j) = j + 1 /\ j + 1 \in 1 .. Len(pool)
          BY <1>0, <4>3
        <5>2. pool'[j] = pool[j + 1]
          BY <2>1, <4>3
        <5>3. QED
          BY <5>1, <5>2
      <4>4. QED
        BY <4>2, <4>3
    <3>2. a \in 1 .. Len(pool) - 1 /\ b \in 1 .. Len(pool) - 1
      BY <2>0
    <3> HIDE DEF Old
    <3>3. Old(a) = Old(b)
      <4>1. /\ Old(a) \in 1 .. Len(pool) /\ Old(b) \in 1 .. Len(pool)
            /\ pool[Old(a)] = pool[Old(b)]
        BY <2>3, <3>1, <3>2
      <4>2. QED
        BY <1>0, <4>1
    <3>4. QED
      BY <1>0, <2>0, <3>2, <3>3 DEF Old
  <2>4. ASSUME NEW j \in 1 .. Len(pool') PROVE pool'[j] # d.slot
    <3>1. PICK k \in 1 .. Len(pool) : k # i /\ pool'[j] = pool[k]
      BY <2>2
    <3>2. pool[k] # pool[i] /\ pool[k] # request_for_send_to_device
      BY <1>0, <3>1
    <3>3. QED
      BY <3>1, <3>2
  <2>5. Len(pool') <= Len(pool) /\ rows' = IF running' THEN Len(pool') ELSE rows
    BY <1>0, <1>2, <2>1
  <2>6. \A j \in 1 .. Len(pool') : \E k \in 1 .. Len(pool) : k >= j /\ pool'[j] = pool[k]
    BY <2>2
  <2>7. pool' \in Seq(1 .. Len(cmds))
    BY <2>1
  <2>8. \A a, b \in 1 .. Len(pool') : pool'[a] = pool'[b] => a = b
    BY <2>3
  <2>9. d.slot = request_for_send_to_device \/ \E k \in 1 .. Len(pool) : d.slot = pool[k]
    OBVIOUS
  <2>10. QED
    BY <2>4, <2>5, <2>6, <2>7, <2>8, <2>9, LeaveStep
<1>3. QED
  BY <1>1, <1>2

\* Device, as the handlers take it.
LEMMA DeviceKnown ==
  ASSUME IInv, running
  PROVE  /\ Device \in Devices(0 .. Len(cmds)) /\ Device.ok
         /\ Device.slot = request_for_send_to_device
         /\ pref_direction \in E!Directions
<1>1. DeviceTyped /\ NumbersTyped
  BY NumbersKnown
<1>2. QED
  BY <1>1 DEF Device, Devices, DeviceTyped, NumbersTyped

\* The device's thread empties the slot.
LEMMA TakeStep == IInv /\ NetworkTakes => IInv'
<1> SUFFICES ASSUME IInv, NetworkTakes PROVE IInv'
  OBVIOUS
<1>1. /\ running /\ request_for_send_to_device # 0 /\ request_for_send_to_device' = 0
      /\ taken' = taken \cup {request_for_send_to_device}
      /\ UNCHANGED <<device, switches, menu, prompt, window, running, cmds>>
  BY DEF NetworkTakes
<1>2. /\ NumbersTyped /\ SwitchesTyped /\ DeviceTyped
      /\ Len(cmds) \in Nat /\ MaxCommands \in Nat /\ taken \subseteq 1 .. Len(cmds)
      /\ \A i \in 1 .. Len(pool) : pool[i] \in 1 .. Len(cmds)
  BY NumbersKnown DEF IInv, Places
<1>3. taken' \subseteq 1 .. Len(cmds) /\ Len(cmds) <= MaxCommands
  BY <1>1, <1>2 DEF NumbersTyped
<1>4. NumbersTyped'
  BY <1>1, <1>2, <1>3 DEF NumbersTyped, Ids, window
<1>5. DeviceTyped' /\ SwitchesTyped'
  BY <1>1, <1>2 DEF DeviceTyped, SwitchesTyped, device, switches, window
<1>6. SentOnce'
  BY <1>1, <1>2 DEF IInv, PoolSound, SentOnce, window
<1>7. RowsMatch' /\ ConductionAgrees' /\ Places'
  BY <1>1, <1>3 DEF IInv, PoolSound, RowsMatch, ConductionAgrees, Places, switches, window
<1>8. AskedOrSame'
  BY <1>1 DEF IInv, AskedOrSame, Against, Now, device, window
<1>9. QED
  BY <1>4, <1>5, <1>6, <1>7, <1>8, TypePartsNext DEF IInv, PoolSound

\* A command enters the pool, with a number none in it has.
LEMMA EnterStep ==
  ASSUME IInv, running, NEW r \in Nat, cmds' \in Seq(Chosen), Len(cmds') <= MaxCommands,
         Len(cmds) <= Len(cmds'), r \in 1 .. Len(cmds'),
         r = prompt \/ r > Len(cmds), r > Len(pool), prompt' = 0,
         \A q \in 1 .. Len(cmds) :
           /\ cmds'[q].code = cmds[q].code
           /\ cmds[q].confirmed => cmds'[q].confirmed
           /\ cmds'[q].changed = cmds[q].changed,
         \/ cmds'[r].confirmed
         \/ ~Against(cmds'[r].code, Now),
         AddToPool(r), menu' \in {menu, {}},
         UNCHANGED <<device, request_for_send_to_device, switches, running, taken>>
  PROVE  IInv'
<1>0. /\ NumbersTyped /\ SwitchesTyped /\ DeviceTyped
      /\ Len(cmds) \in Nat /\ Len(pool) \in Nat /\ MaxCommands \in Nat
      /\ pool \in Seq(1 .. Len(cmds))
      /\ \A i \in 1 .. Len(pool) : pool[i] \in 1 .. Len(cmds)
      /\ Len(pool) <= Len(cmds) /\ 0 \notin taken /\ taken \subseteq 1 .. Len(cmds)
  BY NumbersKnown DEF IInv, Places
<1>1. Len(cmds') \in Nat
  BY LenProperties
<1>2. /\ pool' = Append(pool, r) /\ wnd' = wnd
      /\ rows' = IF wnd THEN Len(pool') ELSE rows
  BY DEF AddToPool, Display
<1>3. pool \in Seq(1 .. Len(cmds'))
  <2>1. 1 .. Len(cmds) \subseteq 1 .. Len(cmds')
    BY <1>0, <1>1
  <2>2. QED
    BY <1>0, <2>1, SeqMonotonic
<1>4. /\ pool' \in Seq(1 .. Len(cmds')) /\ Len(pool') = Len(pool) + 1
      /\ \A i \in 1 .. Len(pool) : pool'[i] = pool[i]
      /\ pool'[Len(pool) + 1] = r
  BY <1>2, <1>3, AppendedResult
<1>5. \A i \in 1 .. Len(pool') : i \in 1 .. Len(pool) \/ i = Len(pool) + 1
  BY <1>0, <1>4
<1>6. /\ r \notin taken /\ r # request_for_send_to_device /\ r # 0
      /\ \A i \in 1 .. Len(pool) : pool[i] # r
  <2>1. CASE r > Len(cmds)
    BY <1>0, <2>1 DEF NumbersTyped
  <2>2. CASE r = prompt
    BY <1>0, <2>2 DEF IInv, PoolSound, SentOnce
  <2>3. QED
    BY <2>1, <2>2
<1>7. NumbersTyped'
  <2>1. rows' \in 0 .. MaxCommands
    BY <1>0, <1>1, <1>2, <1>4 DEF NumbersTyped
  <2>2. request_for_send_to_device' \in 0 .. Len(cmds') /\ prompt' \in 0 .. Len(cmds')
    BY <1>0, <1>1 DEF NumbersTyped
  <2>3. QED
    BY <1>0, <1>4, <2>1, <2>2 DEF NumbersTyped
<1>8. DeviceTyped'
  BY <1>0 DEF DeviceTyped, device
<1>9. SwitchesTyped'
  BY <1>0, <1>2 DEF SwitchesTyped, switches
<1>10. SentOnce'
  <2>1. \A i, j \in 1 .. Len(pool') : pool'[i] = pool'[j] => i = j
    BY <1>4, <1>5, <1>6 DEF IInv, PoolSound, SentOnce
  <2>2. \A i \in 1 .. Len(pool') :
          pool'[i] \notin taken \cup {request_for_send_to_device, 0}
    <3>1. \A i \in 1 .. Len(pool) :
            pool[i] \notin taken \cup {request_for_send_to_device, 0}
      BY <1>0 DEF IInv, PoolSound, SentOnce
    <3>2. SUFFICES ASSUME NEW i \in 1 .. Len(pool')
                   PROVE  pool'[i] \notin taken \cup {request_for_send_to_device, 0}
      OBVIOUS
    <3>3. CASE i \in 1 .. Len(pool)
      BY <1>4, <3>1, <3>3
    <3>4. CASE i = Len(pool) + 1
      BY <1>4, <1>6, <3>4
    <3>5. QED
      BY <1>5, <3>3, <3>4
  <2>3. request_for_send_to_device \notin taken
    BY DEF IInv, PoolSound, SentOnce
  <2>4. QED
    BY <1>0, <2>1, <2>2, <2>3 DEF SentOnce
<1>11. RowsMatch' /\ ConductionAgrees'
  BY <1>2 DEF IInv, PoolSound, RowsMatch, ConductionAgrees, switches
<1>12. Places'
  <2>1. \A i \in 1 .. Len(pool') : pool'[i] >= i
    <3>1. SUFFICES ASSUME NEW i \in 1 .. Len(pool') PROVE pool'[i] >= i
      OBVIOUS
    <3>2. CASE i \in 1 .. Len(pool)
      BY <1>4, <3>2 DEF IInv, Places
    <3>3. CASE i = Len(pool) + 1
      BY <1>0, <1>4, <3>3
    <3>4. QED
      BY <1>5, <3>2, <3>3
  <2>2. taken' \subseteq 1 .. Len(cmds')
    BY <1>0, <1>1
  <2>3. Len(pool') <= Len(cmds')
    BY <1>0, <1>1, <1>4
  <2>4. QED
    BY <2>1, <2>2, <2>3 DEF Places
<1>13. AskedOrSame'
  <2>1. Now' = Now
    BY DEF Now, device
  <2>2. ASSUME NEW i \in 1 .. Len(pool')
        PROVE  \/ cmds'[pool'[i]].confirmed \/ cmds'[pool'[i]].changed
               \/ ~Against(cmds'[pool'[i]].code, Now)
    <3>1. CASE i = Len(pool) + 1
      BY <1>4, <3>1
    <3>2. CASE i \in 1 .. Len(pool)
      <4> DEFINE p == pool[i]
      <4>1. p \in 1 .. Len(cmds) /\ pool'[i] = p
        BY <1>0, <1>4, <3>2
      <4>2. \/ cmds[p].confirmed \/ cmds[p].changed \/ ~Against(cmds[p].code, Now)
        BY <3>2 DEF IInv, AskedOrSame
      <4> HIDE DEF p
      <4>3. /\ cmds'[p].code = cmds[p].code
            /\ cmds[p].confirmed => cmds'[p].confirmed
            /\ cmds'[p].changed = cmds[p].changed
        BY <4>1
      <4>4. \/ cmds'[p].confirmed \/ cmds'[p].changed
            \/ ~Against(cmds'[p].code, Now)
        BY <4>2, <4>3
      <4>5. QED
        BY <4>1, <4>4
    <3>3. QED
      BY <1>5, <3>1, <3>2
  <2>3. QED
    BY <2>1, <2>2 DEF AskedOrSame, Against
<1>14. QED
  BY <1>7, <1>8, <1>9, <1>10, <1>11, <1>12, <1>13, TypePartsNext DEF IInv, PoolSound

\* Every button, answer and pulse.
LEMMA ChooseMovementStep ==
  ASSUME IInv, NEW c \in Moves, ChooseMovement(c)
  PROVE  IInv'
<1> DEFINE e == [code |-> c, confirmed |-> FALSE, changed |-> FALSE]
           r == Len(cmds) + 1
<1>0. /\ NumbersTyped /\ SwitchesTyped /\ DeviceTyped
      /\ Len(cmds) \in Nat /\ Len(pool) \in Nat /\ MaxCommands \in Nat
      /\ cmds \in Seq(Chosen) /\ pool \in Seq(1 .. Len(cmds))
      /\ Len(pool) <= Len(cmds) /\ taken \subseteq 1 .. Len(cmds)
      /\ \A i \in 1 .. Len(pool) : pool[i] \in 1 .. Len(cmds)
      /\ request_for_send_to_device \in 0 .. Len(cmds)
  BY NumbersKnown DEF IInv, Places, NumbersTyped
<1>1. running /\ prompt = 0 /\ Len(cmds) < MaxCommands /\ c \in E!Movements
  BY DEF ChooseMovement, Idle
<1>2. e \in Chosen /\ cmds' = Append(cmds, e)
  BY <1>1 DEF Chosen, ChooseMovement
<1>3. /\ cmds' \in Seq(Chosen) /\ Len(cmds') = r
      /\ \A q \in 1 .. Len(cmds) : cmds'[q] = cmds[q]
      /\ cmds'[r] = e
  BY <1>0, <1>2, AppendedResult
<1>4. /\ UNCHANGED <<device, request_for_send_to_device, switches, running, taken>>
      /\ menu' = {}
      /\ IF Against(c, Now) THEN prompt' = r /\ UNCHANGED window
         ELSE AddToPool(r) /\ UNCHANGED prompt
  BY <1>3 DEF ChooseMovement
<1>5. CASE Against(c, Now)
  <2>1. /\ prompt' = r /\ UNCHANGED <<pool, wnd, rows>>
    BY <1>4, <1>5 DEF window
  <2>2. pool \in Seq(1 .. r)
    <3>1. 1 .. Len(cmds) \subseteq 1 .. r
      BY <1>0
    <3>2. QED
      BY <1>0, <3>1, SeqMonotonic
  <2>3. NumbersTyped'
    <3>1. taken' \subseteq Ids /\ rows' \in 0 .. MaxCommands
      BY <1>0, <1>4, <2>1 DEF NumbersTyped, Ids
    <3>2. request_for_send_to_device' \in 0 .. r /\ prompt' \in 0 .. r /\ r <= MaxCommands
      BY <1>0, <1>1, <1>4, <2>1
    <3>3. QED
      BY <1>3, <2>1, <2>2, <3>1, <3>2 DEF NumbersTyped
  <2>4. DeviceTyped'
    BY <1>0, <1>4 DEF DeviceTyped, device
  <2>5. SwitchesTyped'
    BY <1>0, <1>4, <2>1 DEF SwitchesTyped, switches
  <2>6. SentOnce'
    BY <1>0, <1>4, <2>1 DEF IInv, PoolSound, SentOnce
  <2>7. RowsMatch' /\ ConductionAgrees'
    BY <1>4, <2>1 DEF IInv, PoolSound, RowsMatch, ConductionAgrees, switches
  <2>8. Places'
    BY <1>0, <1>3, <1>4, <2>1 DEF IInv, Places
  <2>9. AskedOrSame'
    <3>1. Now' = Now
      BY <1>4 DEF Now, device
    <3>2. \A i \in 1 .. Len(pool) : cmds'[pool[i]] = cmds[pool[i]]
      BY <1>0, <1>3
    <3>3. QED
      BY <2>1, <3>1, <3>2 DEF IInv, AskedOrSame, Against
  <2>10. QED
    BY <2>3, <2>4, <2>5, <2>6, <2>7, <2>8, <2>9, TypePartsNext DEF IInv, PoolSound
<1>6. CASE ~Against(c, Now)
  <2>1. AddToPool(r) /\ prompt' = 0
    BY <1>1, <1>4, <1>6
  <2>2. /\ r \in Nat /\ r \in 1 .. Len(cmds') /\ Len(cmds') <= MaxCommands
        /\ Len(cmds) <= Len(cmds') /\ r > Len(cmds) /\ r > Len(pool)
    BY <1>0, <1>1, <1>3
  <2>3. cmds'[r].code = c
    BY <1>3
  <2>4. ~Against(cmds'[r].code, Now)
    BY <1>6, <2>3
  <2> HIDE DEF r, e
  <2>5. QED
    BY <1>1, <1>3, <1>4, <2>1, <2>2, <2>4, EnterStep
<1>7. QED
  BY <1>5, <1>6

\* "Yes" to the question keeps the invariant;
LEMMA ConfirmStep ==
  ASSUME IInv, Confirm
  PROVE  IInv'
<1>0. /\ Len(cmds) \in Nat /\ MaxCommands \in Nat /\ cmds \in Seq(Chosen)
      /\ prompt \in 1 .. Len(cmds) /\ prompt > Len(pool) /\ Len(cmds) <= MaxCommands
  BY NumbersKnown DEF IInv, Places, NumbersTyped, Confirm
<1> DEFINE e == [cmds[prompt] EXCEPT !.confirmed = TRUE]
<1>1. /\ e \in Chosen /\ e.confirmed /\ e.code = cmds[prompt].code
      /\ e.changed = cmds[prompt].changed
  <2> DEFINE d == cmds[prompt]
  <2>1. d \in Chosen
    BY <1>0, ElementOfSeq
  <2> HIDE DEF d
  <2>2. [d EXCEPT !.confirmed = TRUE] \in Chosen
        /\ [d EXCEPT !.confirmed = TRUE].confirmed
        /\ [d EXCEPT !.confirmed = TRUE].code = d.code
        /\ [d EXCEPT !.confirmed = TRUE].changed = d.changed
    BY <2>1 DEF Chosen
  <2>3. QED
    BY <2>2 DEF d
<1>2. cmds' = [cmds EXCEPT ![prompt] = e]
  BY DEF Confirm
<1> HIDE DEF e
<1>3. /\ cmds' \in Seq(Chosen) /\ Len(cmds') = Len(cmds)
      /\ \A q \in 1 .. Len(cmds) : cmds'[q] = IF q = prompt THEN e ELSE cmds[q]
  BY <1>0, <1>1, <1>2, ExceptSeq
<1>4. \A q \in 1 .. Len(cmds) :
        /\ cmds'[q].code = cmds[q].code
        /\ cmds[q].confirmed => cmds'[q].confirmed
        /\ cmds'[q].changed = cmds[q].changed
  <2>1. SUFFICES ASSUME NEW q \in 1 .. Len(cmds)
                 PROVE  /\ cmds'[q].code = cmds[q].code
                        /\ cmds[q].confirmed => cmds'[q].confirmed
                        /\ cmds'[q].changed = cmds[q].changed
    OBVIOUS
  <2>2. CASE q = prompt
    BY <1>1, <1>3, <2>2
  <2>3. CASE q # prompt
    BY <1>3, <2>3
  <2>4. QED
    BY <2>2, <2>3
<1>5. cmds'[prompt].confirmed
  BY <1>0, <1>1, <1>3
<1>6. /\ running /\ AddToPool(prompt) /\ prompt' = 0 /\ menu' = menu
      /\ UNCHANGED <<device, request_for_send_to_device, switches, running, taken>>
  BY DEF Confirm
<1>7. prompt \in Nat /\ prompt \in 1 .. Len(cmds') /\ Len(cmds') <= MaxCommands
      /\ Len(cmds) <= Len(cmds')
  BY <1>0, <1>3
<1>8. QED
  BY <1>0, <1>3, <1>4, <1>5, <1>6, <1>7, EnterStep

\* so does "send" on the pool's window,
LEMMA SendSelectedStep ==
  ASSUME IInv, NEW i \in 1 .. MaxCommands, SendSelected(i)
  PROVE  IInv'
<1>1. /\ running /\ prompt = 0 /\ wnd /\ i \in 1 .. Len(pool)
      /\ UNCHANGED <<pref_direction, switches, menu, prompt, wnd, taken>>
      /\ cmds' = Noted(cmds)
      /\ IF running' THEN pool' = Without(pool, i) /\ Display
         ELSE UNCHANGED <<pool, rows>>
  BY NumbersKnown DEF SendSelected, Idle
<1> DEFINE d == Send(Device, cmds[pool[i]].code, pool[i])
<1>2. pool[i] \in 0 .. Len(cmds)
  BY <1>1, NumbersKnown
<1>3. d \in Devices(0 .. Len(cmds)) /\ d.slot \in {request_for_send_to_device, pool[i]}
  BY <1>1, <1>2, DeviceKnown, SendResult
<1>4. DeviceBecomes(d)
  BY DEF SendSelected
<1> HIDE DEF d
<1>5. QED
  BY <1>1, <1>3, <1>4, OneLeaves

\* "delete" on it,
LEMMA DropSelectedStep ==
  ASSUME IInv, NEW i \in 1 .. MaxCommands, DropSelected(i)
  PROVE  IInv'
<1>1. /\ running /\ prompt = 0 /\ wnd /\ i \in 1 .. Len(pool)
      /\ UNCHANGED <<device, request_for_send_to_device, switches, menu, prompt,
                     wnd, running, history>>
      /\ pool' = Without(pool, i) /\ Display
  BY NumbersKnown DEF DropSelected, Idle
<1>2. cmds' = Noted(cmds)
  BY <1>1 DEF Noted, Now, device, history
<1>3. Device \in Devices(0 .. Len(cmds)) /\ Device.slot = request_for_send_to_device
  BY <1>1, DeviceKnown
<1>4. DeviceBecomes(Device)
  <2>1. running \in BOOLEAN
    BY NumbersKnown DEF DeviceTyped
  <2>2. QED
    BY <1>1, <2>1 DEF DeviceBecomes, Device, device
<1>5. UNCHANGED <<pref_direction, switches, menu, prompt, wnd, taken>> /\ running'
  BY <1>1 DEF device, history
<1>6. QED
  BY <1>1, <1>2, <1>3, <1>4, <1>5, OneLeaves

\* and "send all".
LEMMA SendAllStep ==
  ASSUME IInv, SendAll
  PROVE  IInv'
<1>0. /\ Len(pool) \in Nat /\ pool \in Seq(1 .. Len(cmds)) /\ Len(cmds) \in Nat
      /\ \A k \in 1 .. Len(pool) : pool[k] \in 0 .. Len(cmds)
  BY NumbersKnown
<1>1. /\ running /\ prompt = 0 /\ wnd
      /\ UNCHANGED <<pref_direction, switches, menu, prompt, wnd, taken>>
      /\ cmds' = Noted(cmds) /\ DeviceBecomes(AllSent)
      /\ IF running' THEN pool' = <<>> /\ Display ELSE UNCHANGED <<pool, rows>>
  BY DEF SendAll, Idle
<1>2. /\ AllSent \in Devices(0 .. Len(cmds))
      /\ \/ AllSent.slot = request_for_send_to_device
         \/ \E k \in 1 .. Len(pool) : AllSent.slot = pool[k]
  BY <1>0, <1>1, DeviceKnown, AllSentResult
<1>3. CASE running'
  <2>1. pool' = <<>> /\ Len(pool') = 0 /\ rows' = 0
    BY <1>1, <1>3 DEF Display
  <2>2. pool' \in Seq(1 .. Len(cmds)) /\ Len(pool') <= Len(pool) /\ 1 .. Len(pool') = {}
    BY <1>0, <2>1
  <2>3. QED
    BY <1>1, <1>2, <1>3, <2>1, <2>2, LeaveStep
<1>4. CASE ~running'
  <2>1. pool' = pool /\ rows' = rows
    BY <1>1, <1>4
  <2>2. \A j \in 1 .. Len(pool') : \E k \in 1 .. Len(pool) : k >= j /\ pool'[j] = pool[k]
    BY <1>0, <2>1
  <2>3. QED
    BY <1>0, <1>1, <1>2, <1>4, <2>1, <2>2, LeaveStep
<1>5. QED
  BY <1>3, <1>4

\* The escalator takes an answer, falls silent, or is given another direction.
LEMMA RefreshedStep ==
  ASSUME IInv, NEW inp \in E!Automaton, Refreshed(inp)
  PROVE  IInv'
<1>1. pref_direction \in E!Directions /\ recent_stop \in BOOLEAN /\ running \in BOOLEAN
  BY NumbersKnown DEF DeviceTyped
<1>2. esc' \in E!Automaton
  BY <1>1, EscRefreshed DEF Refreshed
<1>3. recent_stop' \in BOOLEAN
  BY <1>1 DEF Refreshed, NoteStop
<1>4. DeviceTyped'
  BY <1>1, <1>2, <1>3 DEF Refreshed, DeviceTyped
<1>5. QED
  BY <1>4, DeviceStep DEF Refreshed

\* A step of the device alone keeps the invariant,
LEMMA DeviceChanges ==
  ASSUME IInv,
         \/ \E p \in Answers : Answered(p)
         \/ Lost \/ StopForgotten
         \/ \E d \in Prefs : SetPrefDirection(d)
  PROVE  IInv'
<1>0. DeviceTyped
  BY NumbersKnown
<1>1. ASSUME NEW p \in Answers, Answered(p) PROVE IInv'
  <2>1. E!StoreRegisters(E!Contact(esc), p) \in E!Automaton
    BY <1>0, EscStored DEF DeviceTyped
  <2>2. QED
    BY <1>1, <2>1, RefreshedStep DEF Answered
<1>2. CASE Lost
  <2> DEFINE inp == [esc EXCEPT !.x5 = FALSE]
  <2>1. inp \in E!Automaton
    BY <1>0 DEF DeviceTyped, E!Automaton
  <2>2. Refreshed(inp)
    BY <1>2 DEF Lost
  <2> HIDE DEF inp
  <2>3. QED
    BY <2>1, <2>2, RefreshedStep
<1>3. CASE StopForgotten
  <2>1. DeviceTyped'
    BY <1>0, <1>3 DEF StopForgotten, DeviceTyped
  <2>2. QED
    BY <1>3, <2>1, DeviceStep DEF StopForgotten
<1>4. ASSUME NEW d \in Prefs, SetPrefDirection(d) PROVE IInv'
  <2>1. d \in E!Directions
    BY PrefsAssumption DEF E!Directions
  <2>2. esc' \in E!Automaton
    BY <1>0, <1>4, <2>1 DEF SetPrefDirection, DeviceTyped, E!Automaton
  <2>3. DeviceTyped'
    BY <1>0, <1>4, <2>1, <2>2 DEF SetPrefDirection, DeviceTyped
  <2>4. QED
    BY <1>4, <2>3, DeviceStep DEF SetPrefDirection
<1>5. QED
  BY <1>1, <1>2, <1>3, <1>4

\* and one of the windows alone.
LEMMA WindowChanges ==
  ASSUME IInv,
         OpenMenu \/ Decline \/ OpenPool \/ ClosePool
           \/ EnterPassword \/ EnterStartTimePassword
  PROVE  IInv'
<1>0. SwitchesTyped /\ Len(pool) \in Nat
  BY NumbersKnown
<1>1. CASE OpenMenu
  <2>1. Offered(esc) \subseteq E!Movements \cup {"ACCEPT", "CHANCEL"}
    BY DEF Offered
  <2>2. SwitchesTyped'
    BY <1>0, <1>1, <2>1 DEF OpenMenu, SwitchesTyped, switches, window
  <2>3. ConductionAgrees' /\ RowsMatch'
    BY <1>1 DEF OpenMenu, IInv, PoolSound, ConductionAgrees, RowsMatch, switches, window
  <2>4. QED
    BY <1>1, <2>2, <2>3, WindowStep DEF OpenMenu, window
<1>2. CASE Decline
  <2>1. SwitchesTyped'
    BY <1>0, <1>2 DEF Decline, SwitchesTyped, switches, window
  <2>2. ConductionAgrees' /\ RowsMatch'
    BY <1>2 DEF Decline, IInv, PoolSound, ConductionAgrees, RowsMatch, switches, window
  <2>3. QED
    BY <1>2, <2>1, <2>2, WindowStep DEF Decline, window
<1>3. CASE OpenPool
  <2>1. SwitchesTyped'
    BY <1>0, <1>3 DEF OpenPool, SwitchesTyped, switches
  <2>2. ConductionAgrees' /\ RowsMatch'
    BY <1>3 DEF OpenPool, IInv, PoolSound, ConductionAgrees, RowsMatch, switches
  <2>3. QED
    BY <1>3, <2>1, <2>2, WindowStep DEF OpenPool
<1>4. CASE ClosePool
  <2>1. SwitchesTyped'
    BY <1>0, <1>4 DEF ClosePool, SwitchesTyped, switches
  <2>2. ConductionAgrees' /\ RowsMatch'
    BY <1>4 DEF ClosePool, IInv, PoolSound, ConductionAgrees, RowsMatch, switches
  <2>3. QED
    BY <1>4, <2>1, <2>2, WindowStep DEF ClosePool
<1>5. CASE EnterPassword \/ EnterStartTimePassword
  <2>1. SwitchesTyped'
    BY <1>0, <1>5 DEF EnterPassword, EnterStartTimePassword, Apply, SwitchesTyped, window
  <2>2. ConductionAgrees' /\ RowsMatch'
    BY <1>5, <1>0 DEF EnterPassword, EnterStartTimePassword, Apply, SwitchesTyped, IInv,
       PoolSound, ConductionAgrees, RowsMatch, window
  <2>3. QED
    BY <1>5, <2>1, <2>2, WindowStep DEF EnterPassword, EnterStartTimePassword, window
<1>6. QED
  BY <1>1, <1>2, <1>3, <1>4, <1>5

\* ACCEPT and CHANCEL go past the pool and leave the slot alone.
LEMMA AcceptanceSends ==
  ASSUME IInv, NEW c \in {"ACCEPT", "CHANCEL"}, ChooseAcceptance(c)
  PROVE  \E d \in Devices(0 .. Len(cmds)) :
           DeviceBecomes(d) /\ d.ok /\ d.slot = request_for_send_to_device
<1> DEFINE s == Send(Device, c, 0)
           d == [s EXCEPT !.ok = TRUE]
<1>1. running
  BY DEF ChooseAcceptance, Idle
<1>2. 0 \in 0 .. Len(cmds)
  BY NumbersKnown
<1>3. s \in Devices(0 .. Len(cmds)) /\ s.slot = request_for_send_to_device
  BY <1>1, <1>2, DeviceKnown, SendResult DEF E!Movements
<1>4. DeviceBecomes(d)
  BY DEF ChooseAcceptance
<1> HIDE DEF s
<1>5. d \in Devices(0 .. Len(cmds)) /\ d.ok /\ d.slot = request_for_send_to_device
  BY <1>3 DEF Devices
<1> HIDE DEF d
<1>6. QED
  BY <1>4, <1>5

\* ACCEPT and CHANCEL chosen in the menu keep the invariant.
LEMMA ChooseAcceptanceStep ==
  ASSUME IInv, NEW c \in {"ACCEPT", "CHANCEL"}, ChooseAcceptance(c)
  PROVE  IInv'
<1>1. PICK d \in Devices(0 .. Len(cmds)) :
        DeviceBecomes(d) /\ d.ok /\ d.slot = request_for_send_to_device
  BY AcceptanceSends
<1>2. /\ running /\ menu' = {} /\ cmds' = Noted(cmds)
      /\ UNCHANGED <<pref_direction, switches, prompt, window, taken>>
  BY DEF ChooseAcceptance, Idle
<1>0. /\ NumbersTyped /\ SwitchesTyped /\ DeviceTyped
  BY NumbersKnown
<1>3. cmds' \in Seq(Chosen) /\ Len(cmds') = Len(cmds)
  BY <1>2, NotedResult, NumbersKnown
<1>4. /\ esc' \in E!Automaton /\ recent_stop' \in BOOLEAN
      /\ request_for_send_to_device' = request_for_send_to_device /\ running' = TRUE
  BY <1>1 DEF Devices, DeviceBecomes
<1>5. DeviceTyped'
  BY <1>0, <1>2, <1>4 DEF DeviceTyped
<1>6. SwitchesTyped'
  BY <1>0, <1>2 DEF SwitchesTyped, switches, window
<1>7. NumbersTyped'
  BY <1>0, <1>2, <1>3, <1>4 DEF NumbersTyped, window
<1>8. SentOnce' /\ RowsMatch' /\ ConductionAgrees'
  BY <1>2, <1>4 DEF IInv, PoolSound, SentOnce, RowsMatch, ConductionAgrees, switches, window
<1>9. Places'
  BY <1>2, <1>3 DEF IInv, Places, window
<1>10. AskedOrSame'
  <2>1. \A j \in 1 .. Len(pool') : \E k \in 1 .. Len(pool) : pool'[j] = pool[k]
    BY <1>2 DEF window
  <2>2. QED
    BY <1>2, <2>1, AskedKept
<1>11. QED
  BY <1>5, <1>6, <1>7, <1>8, <1>9, <1>10, TypePartsNext DEF IInv, PoolSound

\* The timer's command is a new one, confirmed by nobody's question.
LEMMA TimerSends ==
  ASSUME IInv, NEW c \in Prefs \cap Starts, TimerStart(c)
  PROVE  /\ \E d \in Devices(0 .. Len(cmds')) :
              /\ DeviceBecomes(d) /\ d.ok
              /\ d.slot \in {request_for_send_to_device, Len(cmds) + 1}
         /\ \E e \in Chosen : cmds' = Append(Noted(cmds), e)
         /\ cmds'[Len(cmds) + 1].confirmed
<1> DEFINE r == Len(cmds) + 1
           n == Noted(cmds)
           e == [code |-> c, confirmed |-> TRUE, changed |-> FALSE]
<1>0. /\ Len(cmds) \in Nat /\ cmds \in Seq(Chosen)
      /\ request_for_send_to_device \in 0 .. Len(cmds)
  BY NumbersKnown DEF NumbersTyped
<1>1. n \in Seq(Chosen) /\ Len(n) = Len(cmds)
  BY <1>0, NotedResult
<1>2. e \in Chosen
  BY DEF Chosen, Starts, E!Movements
<1>3. cmds' = Append(n, e)
  BY DEF TimerStart
<1> HIDE DEF n
<1>4. Len(cmds') = r /\ cmds'[r] = e
  BY <1>0, <1>1, <1>2, <1>3, AppendedResult
<1>5. Device \in Devices(0 .. r)
  <2>1. running
    BY DEF TimerStart
  <2>2. Device \in Devices(0 .. Len(cmds)) /\ 0 .. Len(cmds) \subseteq 0 .. r
    BY <1>0, <2>1, DeviceKnown
  <2>3. QED
    BY <2>2 DEF Devices, Device
<1> DEFINE s == Send(Device, c, r)
           d == [s EXCEPT !.ok = TRUE]
<1>6. s \in Devices(0 .. r) /\ s.slot \in {request_for_send_to_device, r}
  <2>1. r \in 0 .. r /\ pref_direction \in E!Directions
    BY <1>0, NumbersKnown DEF DeviceTyped
  <2>2. Device.slot = request_for_send_to_device
    BY DEF Device
  <2> HIDE DEF r
  <2>3. QED
    BY <1>5, <2>1, <2>2, SendResult
<1>7. DeviceBecomes(d)
  BY DEF TimerStart
<1> HIDE DEF s
<1>8. d \in Devices(0 .. r) /\ d.ok /\ d.slot \in {request_for_send_to_device, r}
  BY <1>6 DEF Devices
<1> HIDE DEF d
<1>9. cmds'[r].confirmed
  BY <1>4
<1> HIDE DEF e
<1>10. QED
  BY <1>2, <1>3, <1>4, <1>7, <1>8, <1>9 DEF n

\* So does a start by the timer's list.
LEMMA TimerStartStep ==
  ASSUME IInv, NEW c \in Prefs \cap Starts, TimerStart(c)
  PROVE  IInv'
<1>1. PICK d \in Devices(0 .. Len(cmds')) :
        /\ DeviceBecomes(d) /\ d.ok
        /\ d.slot \in {request_for_send_to_device, Len(cmds) + 1}
  BY TimerSends
<1>2. \E e \in Chosen : cmds' = Append(Noted(cmds), e)
  BY TimerSends
<1>3. /\ running /\ Len(cmds) < MaxCommands
      /\ UNCHANGED <<pref_direction, switches, menu, prompt, window, taken>>
  BY DEF TimerStart
<1>4. QED
  BY <1>1, <1>2, <1>3, SendStep

\* Every step keeps the invariant.
LEMMA NextIInv == IInv /\ [Next]_vars => IInv'
<1> SUFFICES ASSUME IInv, [Next]_vars PROVE IInv'
  OBVIOUS
<1>1. CASE \/ \E p \in Answers : Answered(p)
           \/ Lost \/ StopForgotten
           \/ \E d \in Prefs : SetPrefDirection(d)
  BY <1>1, DeviceChanges
<1>2. CASE NetworkTakes
  BY <1>2, TakeStep
<1>3. CASE OpenMenu \/ Decline \/ OpenPool \/ ClosePool
             \/ EnterPassword \/ EnterStartTimePassword
  BY <1>3, WindowChanges
<1>4. CASE \E c \in Moves : ChooseMovement(c)
  BY <1>4, ChooseMovementStep
<1>5. CASE Confirm
  BY <1>5, ConfirmStep
<1>6. CASE \E c \in {"ACCEPT", "CHANCEL"} : ChooseAcceptance(c)
  BY <1>6, ChooseAcceptanceStep
<1>7. CASE \E i \in 1 .. MaxCommands : SendSelected(i) \/ DropSelected(i)
  BY <1>7, SendSelectedStep, DropSelectedStep
<1>8. CASE SendAll
  BY <1>8, SendAllStep
<1>9. CASE \E c \in Prefs \cap Starts : TimerStart(c)
  BY <1>9, TimerStartStep
<1>10. CASE UNCHANGED vars
  <2>1. DeviceTyped'
    BY <1>10, NumbersKnown DEF vars, device, DeviceTyped
  <2>2. cmds' = Noted(cmds)
    BY <1>10 DEF vars, device, history, Noted, Now
  <2>3. QED
    BY <1>10, <2>1, <2>2, DeviceStep DEF vars, device, history
<1>11. QED
  BY <1>1, <1>2, <1>3, <1>4, <1>5, <1>6, <1>7, <1>8, <1>9, <1>10 DEF Next
-----------------------------------------------------------------------------
(***************************************************************************)
(* The theorems                                                            *)
(***************************************************************************)

\* Whatever is clicked, answered or pulsed and in whatever order, a chosen
\* command waits in one place and is taken once, the list shows the pool and
\* the devices agree with the window about conduction.
THEOREM PoolIsSound == Spec => []PoolSound
<1>1. Spec => []IInv
  BY InitIInv, NextIInv, PTL DEF Spec
<1>2. IInv => PoolSound
  BY DEF IInv
<1>3. QED
  BY <1>1, <1>2, PTL

\* How the slot changes, step by step.
LEMMA SlotMoves ==
  ASSUME IInv, [Next]_vars
  PROVE  \/ request_for_send_to_device' \in {0, request_for_send_to_device}
         \/ /\ ~sending_commands_disabled
            /\ \/ /\ cmds' = Noted(cmds)
                  /\ \E k \in 1 .. Len(pool) : request_for_send_to_device' = pool[k]
               \/ cmds'[request_for_send_to_device'].confirmed
<1>0. conduction_is_switched_off = sending_commands_disabled
  BY DEF IInv, PoolSound, ConductionAgrees
<1>1. ASSUME NEW i \in 1 .. MaxCommands, SendSelected(i)
      PROVE  \/ request_for_send_to_device' = request_for_send_to_device
             \/ /\ ~sending_commands_disabled /\ cmds' = Noted(cmds)
                /\ \E k \in 1 .. Len(pool) : request_for_send_to_device' = pool[k]
  <2> DEFINE d == Send(Device, cmds[pool[i]].code, pool[i])
  <2>1. running /\ i \in 1 .. Len(pool) /\ cmds' = Noted(cmds)
    BY <1>1, NumbersKnown DEF SendSelected, Idle
  <2>2. pool[i] \in 0 .. Len(cmds)
    BY <2>1, NumbersKnown
  <2>3. /\ d.slot \in {request_for_send_to_device, pool[i]}
        /\ conduction_is_switched_off => d = Device
    BY <2>1, <2>2, DeviceKnown, SendResult
  <2>4. request_for_send_to_device' = d.slot
    BY <1>1 DEF SendSelected, DeviceBecomes
  <2>5. Device.slot = request_for_send_to_device
    BY DEF Device
  <2> HIDE DEF d
  <2>6. QED
    BY <1>0, <2>1, <2>3, <2>4, <2>5
<1>2. ASSUME SendAll
      PROVE  \/ request_for_send_to_device' = request_for_send_to_device
             \/ /\ ~sending_commands_disabled /\ cmds' = Noted(cmds)
                /\ \E k \in 1 .. Len(pool) : request_for_send_to_device' = pool[k]
  <2>1. running /\ cmds' = Noted(cmds) /\ request_for_send_to_device' = AllSent.slot
    BY <1>2 DEF SendAll, Idle, DeviceBecomes
  <2>2. Len(pool) \in Nat /\ \A k \in 1 .. Len(pool) : pool[k] \in 0 .. Len(cmds)
    BY NumbersKnown
  <2>3. /\ \/ AllSent.slot = request_for_send_to_device
           \/ \E k \in 1 .. Len(pool) : AllSent.slot = pool[k]
        /\ conduction_is_switched_off => AllSent = Device
    BY <2>1, <2>2, DeviceKnown, AllSentResult
  <2>4. Device.slot = request_for_send_to_device
    BY DEF Device
  <2>5. QED
    BY <1>0, <2>1, <2>3, <2>4
<1>3. ASSUME NEW c \in {"ACCEPT", "CHANCEL"}, ChooseAcceptance(c)
      PROVE  request_for_send_to_device' = request_for_send_to_device
  BY <1>3, AcceptanceSends DEF DeviceBecomes
<1>4. ASSUME NEW c \in Prefs \cap Starts, TimerStart(c)
      PROVE  /\ ~sending_commands_disabled
             /\ \/ request_for_send_to_device' = request_for_send_to_device
                \/ cmds'[request_for_send_to_device'].confirmed
  BY <1>4, TimerSends DEF DeviceBecomes, TimerStart
<1>5. CASE NetworkTakes
  BY <1>5 DEF NetworkTakes
<1>6. CASE \/ \E p \in Answers : Answered(p)
           \/ Lost \/ StopForgotten
           \/ \E d \in Prefs : SetPrefDirection(d)
           \/ OpenMenu \/ Decline \/ OpenPool \/ ClosePool
           \/ EnterPassword \/ EnterStartTimePassword
           \/ \E c \in Moves : ChooseMovement(c)
           \/ Confirm
           \/ \E i \in 1 .. MaxCommands : DropSelected(i)
           \/ UNCHANGED vars
  BY <1>6 DEF Answered, Lost, Refreshed, StopForgotten, SetPrefDirection, OpenMenu,
     Decline, OpenPool, ClosePool, EnterPassword, EnterStartTimePassword,
     ChooseMovement, Confirm, DropSelected, vars
<1>7. QED
  BY <1>1, <1>2, <1>3, <1>4, <1>5, <1>6 DEF Next

\* With conduction switched off no click and no pulse leads a command into
\* the slot: neither a menu opened before nor an answered question nor "send
\* all" over a full pool.
THEOREM OffStaysQuiet == Spec => OffIsQuiet
<1>1. Spec => []IInv
  BY InitIInv, NextIInv, PTL DEF Spec
<1>2. ASSUME IInv, [Next]_vars
      PROVE  [sending_commands_disabled
               => request_for_send_to_device' \in {0, request_for_send_to_device}]_vars
  BY <1>2, SlotMoves
<1>3. QED
  BY <1>1, <1>2, PTL DEF Spec, OffIsQuiet

\* A start against the direction reaches the slot without a "yes" only if the
\* device has changed since it was chosen.
THEOREM AskedBeforeStart == Spec => UnconfirmedOnlyIfChanged
<1>1. Spec => []IInv
  BY InitIInv, NextIInv, PTL DEF Spec
<1> DEFINE r == request_for_send_to_device'
           Asked == /\ r # 0 /\ r # request_for_send_to_device
                    /\ MustAsk(cmds'[r].code)
                    => cmds'[r].confirmed \/ cmds[r].changed
<1>2. ASSUME IInv, [Next]_vars PROVE Asked
  <2>1. SUFFICES ASSUME r # 0, r # request_for_send_to_device, MustAsk(cmds'[r].code)
                 PROVE  cmds'[r].confirmed \/ cmds[r].changed
    OBVIOUS
  <2>2. CASE cmds'[r].confirmed
    BY <2>2
  <2>3. CASE /\ cmds' = Noted(cmds)
             /\ \E k \in 1 .. Len(pool) : r = pool[k]
    <3>1. PICK k \in 1 .. Len(pool) : r = pool[k]
      BY <2>3
    <3>2. r \in 1 .. Len(cmds) /\ cmds \in Seq(Chosen)
      BY <3>1, NumbersKnown, <1>2
    <3>3. \/ cmds[r].confirmed \/ cmds[r].changed \/ ~Against(cmds[r].code, Now)
      BY <1>2, <3>1 DEF IInv, AskedOrSame
    <3>4. cmds'[r].code = cmds[r].code /\ cmds'[r].confirmed = cmds[r].confirmed
      BY <2>3, <3>2, NotedResult
    <3>5. Against(cmds[r].code, Now)
      BY <2>1, <3>4 DEF MustAsk, Against, Now, Opposite, Starts
    <3>6. QED
      BY <3>3, <3>4, <3>5
  <2>4. QED
    BY <1>2, <2>1, <2>2, <2>3, SlotMoves
<1>3. ASSUME IInv, [Next]_vars PROVE [Asked]_vars
  BY <1>2, <1>3
<1>4. QED
  BY <1>1, <1>3, PTL DEF Spec, UnconfirmedOnlyIfChanged
=============================================================================
