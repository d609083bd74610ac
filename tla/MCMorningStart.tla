---------------------------- MODULE MCMorningStart ----------------------------
(***************************************************************************)
(* The file with which TLC checks MorningStart: a station with an          *)
(* escalator, its power transfer cabinet, a UDKU and the door, in days of  *)
(* two hours of two minutes.  The dispatcher changes the escalator, to an  *)
(* hour 0 too; the UDKU is disabled and only its section is written.       *)
(***************************************************************************)
EXTENDS MorningStart, TLC

MCSection(kind, id, owner) ==
  [kind |-> kind, id |-> id, owner |-> owner, sound |-> TRUE, enabled |-> TRUE,
   hour |-> 1, minute |-> 0, mode |-> "EVERYDAY", related |-> {}]

MCConfig ==
  <<MCSection("line", 1, 0), MCSection("station", 1, 1),
    MCSection("escalator", 1, 1),
    [MCSection("shavr", 2, 0) EXCEPT !.related = {1}],
    [MCSection("udku", 3, 0) EXCEPT !.enabled = FALSE],
    MCSection("door", 4, 1), MCSection("settings", 0, 0)>>

MCSet(hour, minute, mode) == [hour |-> hour, minute |-> minute, mode |-> mode]

MCChoices ==
  (1 :> {MCSet(1, 0, "EVERYDAY"), MCSet(0, 1, "EVEN")})
  @@ (3 :> {})
=============================================================================
