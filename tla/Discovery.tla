------------------------------- MODULE Discovery -------------------------------
(***************************************************************************)
(* The applet of usb2soft/applets/hdmi_discovery.py on one board: its      *)
(* listeners, the report sequencer, and the two consoles (debug/console.py *)
(* over debug/report.py) that share the line of its serial port.  The      *)
(* beacons are those of another board, all at the same place in their      *)
(* frames; what that board and the cables do is here as well.  A step is a *)
(* cycle of the clock; the two boards' clocks are taken to be equal.       *)
(***************************************************************************)
EXTENDS LaneListener

CONSTANTS n_lanes,        \* four for each port
          Cablings,       \* [Lanes -> [peer, inverted]]: the beacon at the end of each pair
          report_period,  \* cycles between two reports
          ConsoleByte     \* cycles for a byte on the console: ten bits

ASSUME LanesAssumption == n_lanes \in Nat \ {0}
ASSUME ReportAssumption == {report_period, ConsoleByte} \subseteq Nat \ {0, 1}

Lanes == 0..(n_lanes - 1)

ASSUME CablingsAssumption ==
  Cablings \subseteq [Lanes -> [peer : [1..4 -> Character], inverted : BOOLEAN]]

VARIABLES on,      \* the other board is there and sends
          phase,   \* cycles since its beacons began a frame
          cable,   \* how it is connected
          rest,    \* level of the lines while it is not there
          lanes,   \* [Lanes -> lane]
          sequencer, period, sel, \* the report sequencer
          console, \* the two consoles
          latched  \* [Consoles -> the fields of the line under way]

remoteVars == <<on, phase, cable, rest>>
reportVars == <<sequencer, period, sel, console, latched>>
vars == <<remoteVars, lanes, reportVars>>

-----------------------------------------------------------------------------
(* The other board: LaneBeacons and LUNA's transmitter, which sends frame   *)
(* after frame without a pause: start bit, eight bits, stop bit.            *)

FrameCycles == 6 * 10 * divisor

LineBit(frame, ph) ==
  LET bit == (ph \div divisor) % 10
      byte == frame[1 + ph \div (10 * divisor)]
  IN  CASE bit = 0 -> 0 [] bit = 9 -> 1 [] OTHER -> byte[bit]

Line(l) ==
  IF ~on THEN rest
  ELSE LET b == LineBit(frame_bytes(cable[l].peer), phase)
       IN  IF cable[l].inverted THEN 1 - b ELSE b

-----------------------------------------------------------------------------
(* The consoles.  A line is a few runs of characters, of text or of a       *)
(* field, here one byte each.  left counts the byte down that the           *)
(* transmitter shifts out; it takes the next in its last cycle or when idle.*)

Consoles == {"header", "line"}

ConsoleReset == [state |-> "IDLE", pos |-> 1, left |-> 0]

\* What the fields of the header and of the line for a lane show.
Fields(c) ==
  IF c = "header" THEN [text |-> "hello"]
  ELSE [lane |-> sel, peer |-> lanes[sel].listener.heard.peer,
        flags |-> <<lanes[sel].listener.seen, lanes[sel].listener.heard.inverted>>]
Plan(c) == IF c = "header" THEN <<"text">> ELSE <<"lane", "peer", "flags">>

busy(c) == console[c].state = "SEND"
idle(c) == console[c].left = 0
accepts(c) == busy(c) /\ console[c].left <= 1

trigger(c) == sequencer = (IF c = "header" THEN "HEADER" ELSE "LINE")

\* Mutant of byte_at: the field's signal is shown, not what was latched.
byte_at_Live(c) == Fields(c)[Plan(c)[console[c].pos]]
byte_at(c) == latched[c][Plan(c)[console[c].pos]]

begins(c) == ~busy(c) /\ trigger(c)

ConsoleStep(c) ==
  LET k == console[c]
      last == k.pos = Len(Plan(c))
  IN  [state |-> CASE begins(c) -> "SEND" [] accepts(c) /\ last -> "IDLE" [] OTHER -> k.state,
       pos |-> CASE begins(c) -> 1 [] accepts(c) /\ ~last -> k.pos + 1 [] OTHER -> k.pos,
       left |-> IF accepts(c) THEN ConsoleByte ELSE IF k.left > 0 THEN k.left - 1 ELSE 0]

-----------------------------------------------------------------------------
(* The report sequencer, one definition per state. *)

Wait ==
  /\ sequencer = "WAIT"
  /\ IF period = report_period - 1
       THEN period' = 0 /\ sel' = 0 /\ sequencer' = "HEADER"
       ELSE period' = period + 1 /\ UNCHANGED <<sel, sequencer>>

Header == sequencer = "HEADER" /\ sequencer' = "HEADER_WAIT" /\ UNCHANGED <<period, sel>>

\* Mutant of free: the last byte was accepted, but may still be on its way.
free_Accepted(c) == ~busy(c)
free(c) == ~busy(c) /\ idle(c)

HeaderWait ==
  /\ sequencer = "HEADER_WAIT"
  /\ sequencer' = IF free("header") THEN "LINE" ELSE sequencer
  /\ UNCHANGED <<period, sel>>

LineOut == sequencer = "LINE" /\ sequencer' = "LINE_WAIT" /\ UNCHANGED <<period, sel>>

LineWait ==
  /\ sequencer = "LINE_WAIT" /\ UNCHANGED period
  /\ IF ~free("line") THEN UNCHANGED <<sequencer, sel>>
     ELSE IF sel = n_lanes - 1 THEN sequencer' = "WAIT" /\ UNCHANGED sel
     ELSE sequencer' = "LINE" /\ sel' = sel + 1

Sequencer == Wait \/ Header \/ HeaderWait \/ LineOut \/ LineWait

-----------------------------------------------------------------------------

\* The board comes out of reset, the other one is anywhere in a frame.
Init ==
  /\ on \in BOOLEAN /\ phase \in 0..(FrameCycles - 1) /\ cable \in Cablings /\ rest \in {0, 1}
  /\ lanes = [l \in Lanes |-> LaneReset]
  /\ sequencer = "WAIT" /\ period = 0 /\ sel = 0
  /\ console = [c \in Consoles |-> ConsoleReset] /\ latched = [c \in Consoles |-> <<>>]

Cycle ==
  /\ phase' = (phase + 1) % FrameCycles /\ UNCHANGED <<on, cable, rest>>
  /\ lanes' = [l \in Lanes |-> LaneStep(lanes[l], Line(l))]
  /\ console' = [c \in Consoles |-> ConsoleStep(c)]
  /\ latched' = [c \in Consoles |-> IF begins(c) THEN Fields(c) ELSE latched[c]]
  /\ Sequencer

\* The other board goes away, or its cables are pulled.
Leave ==
  /\ on /\ on' = FALSE /\ rest' \in {0, 1}
  /\ UNCHANGED <<phase, cable, lanes, reportVars>>

\* It comes out of reset, with the cables as they are now.
Arrive ==
  /\ ~on /\ on' = TRUE /\ phase' = 0 /\ cable' \in Cablings
  /\ UNCHANGED <<rest, lanes, reportVars>>

Next == Cycle \/ Leave \/ Arrive

Spec == Init /\ [][Next]_vars

\* The clock runs.
FairSpec == Spec /\ WF_vars(Cycle)

-----------------------------------------------------------------------------

TypeOK ==
  /\ on \in BOOLEAN /\ phase \in 0..(FrameCycles - 1) /\ cable \in Cablings /\ rest \in {0, 1}
  /\ sequencer \in {"WAIT", "HEADER", "HEADER_WAIT", "LINE", "LINE_WAIT"}
  /\ period \in 0..(report_period - 1) /\ sel \in Lanes
  /\ console \in [Consoles -> [state : {"IDLE", "SEND"}, pos : 1..3, left : 0..ConsoleByte]]
  /\ \A c \in Consoles : console[c].pos <= Len(Plan(c))

(* "Both consoles idle high and never transmit at the same time": no byte of
   one is cut into by the other, although they have a transmitter each and the
   reporter is done ten bit times before it. *)
OneTalker == idle("header") \/ idle("line")
=============================================================================
