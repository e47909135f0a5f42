----------------------------- MODULE AppletProofs -----------------------------
(***************************************************************************)
(* The two applets that are modelled.  The report of the discovery applet, *)
(* for any number of lanes, report period and console speed, and whatever  *)
(* the listeners hear, and then what its lanes hear of a beacon, for any   *)
(* bit time and board; the link test in its asynchronous loopback: its     *)
(* start, for any two clocks that are offset from each other, and the      *)
(* resampler as it is built, for any two within one part in 144; and its   *)
(* generator and checker, over a link that loses, damages and makes up.    *)
(***************************************************************************)
EXTENDS MCDiscovery, AsyncLoopback, LinkTest, WireCodeProofs, TLAPS

\* A console is at rest except while the sequencer waits for it.
Turns ==
  /\ sequencer # "HEADER_WAIT" => free("header")
  /\ sequencer # "LINE_WAIT" => free("line")

\* The inductive invariant of the report.
IInv == TypeOK /\ Turns

\* A frame takes some cycles, whatever the baud rate.
LEMMA FrameTakesTime == FrameCycles \in Nat \ {0}
  BY DivisorAssumption DEF FrameCycles

\* Out of reset both consoles are at rest.
LEMMA InitEstablishes == Init => IInv
  <1> SUFFICES ASSUME Init PROVE IInv
    OBVIOUS
  <1>1. 0 \in Lanes
    BY LanesAssumption DEF Lanes
  <1>2. \A c \in Consoles : 1 <= Len(Plan(c))
    BY DEF Plan
  <1>3. ConsoleReset \in [state : {"IDLE", "SEND"}, pos : 1..3, left : 0..ConsoleByte]
    BY ReportAssumption DEF ConsoleReset
  <1>4. /\ console \in [Consoles -> [state : {"IDLE", "SEND"}, pos : 1..3, left : 0..ConsoleByte]]
        /\ \A c \in Consoles : console[c].pos <= Len(Plan(c))
    <2>1. \A c \in Consoles : console[c] = ConsoleReset
      BY DEF Init
    <2>2. ConsoleReset.pos = 1
      BY DEF ConsoleReset
    <2>3. \A c \in Consoles : console[c].pos <= Len(Plan(c))
      BY <1>2, <2>1, <2>2
    <2> QED
      BY <1>3, <2>3 DEF Init
  <1>5. period \in 0..(report_period - 1) /\ sel \in Lanes
    BY <1>1, ReportAssumption DEF Init
  <1>6. TypeOK
    BY <1>4, <1>5 DEF Init, TypeOK
  <1>7. Turns
    BY DEF Init, Turns, free, busy, idle, ConsoleReset, Consoles
  <1> QED
    BY <1>6, <1>7 DEF IInv

\* A cycle keeps each console's registers in their ranges.
LEMMA ConsoleStepType ==
  ASSUME TypeOK, NEW c \in Consoles
  PROVE  /\ ConsoleStep(c) \in [state : {"IDLE", "SEND"}, pos : 1..3, left : 0..ConsoleByte]
         /\ ConsoleStep(c).pos <= Len(Plan(c))
  <1>1. Len(Plan(c)) \in 1..3
    BY DEF Plan
  <1>2. /\ console[c].state \in {"IDLE", "SEND"} /\ console[c].left \in 0..ConsoleByte
        /\ console[c].pos \in 1..3 /\ console[c].pos <= Len(Plan(c))
    BY DEF TypeOK
  <1>3. ConsoleStep(c).state \in {"IDLE", "SEND"}
    BY <1>2 DEF ConsoleStep
  <1>4. ConsoleStep(c).pos \in 1..3 /\ ConsoleStep(c).pos <= Len(Plan(c))
    <2>1. PICK n \in 1..3 : n = Len(Plan(c))
      BY <1>1
    <2>2. ConsoleStep(c).pos \in {1, console[c].pos} \/
            (console[c].pos # n /\ ConsoleStep(c).pos = console[c].pos + 1)
      BY <2>1 DEF ConsoleStep
    <2> QED
      BY <1>2, <2>1, <2>2
  <1>5. ConsoleStep(c).left \in 0..ConsoleByte
    BY <1>2, ReportAssumption DEF ConsoleStep
  <1> QED
    BY <1>3, <1>4, <1>5 DEF ConsoleStep

\* A console that is at rest and not triggered stays at rest.
LEMMA StaysFree ==
  ASSUME TypeOK, NEW c \in Consoles, free(c), ~trigger(c)
  PROVE  ConsoleStep(c).state = "IDLE" /\ ConsoleStep(c).left = 0
  BY DEF TypeOK, ConsoleStep, free, busy, idle, accepts, begins

\* A cycle leaves a console at rest unless the sequencer turns to it.
LEMMA CycleKeeps == IInv /\ Cycle => IInv'
  <1> SUFFICES ASSUME IInv, Cycle PROVE IInv'
    OBVIOUS
  <1> USE DEF IInv
  <1>1. phase' \in 0..(FrameCycles - 1)
    BY FrameTakesTime DEF TypeOK, Cycle
  <1>2. /\ sequencer' \in {"WAIT", "HEADER", "HEADER_WAIT", "LINE", "LINE_WAIT"}
        /\ period' \in 0..(report_period - 1) /\ sel' \in Lanes
    BY LanesAssumption, ReportAssumption
       DEF TypeOK, Cycle, Sequencer, Wait, Header, HeaderWait, LineOut, LineWait, Lanes
  <1>3. console' \in [Consoles -> [state : {"IDLE", "SEND"}, pos : 1..3, left : 0..ConsoleByte]]
    BY ConsoleStepType DEF Cycle
  <1>4. \A c \in Consoles : console'[c].pos <= Len(Plan(c))
    BY ConsoleStepType DEF Cycle
  <1>5. TypeOK'
    BY <1>1, <1>2, <1>3, <1>4 DEF TypeOK, Cycle, Plan
  <1>6. ASSUME NEW c \in Consoles, free(c), ~trigger(c)
        PROVE  free(c)'
    <2>1. console'[c] = ConsoleStep(c)
      BY DEF Cycle
    <2> QED
      BY <1>6, <2>1, StaysFree DEF free, busy, idle
  <1>7. ~trigger("header") /\ free("header") => free("header")'
    BY <1>6 DEF Consoles
  <1>8. ~trigger("line") /\ free("line") => free("line")'
    BY <1>6 DEF Consoles
  <1>9. Turns'
    <2>1. sequencer' # "HEADER_WAIT" => free("header")'
      BY <1>7 DEF Turns, trigger, Cycle, Sequencer, Wait, Header, HeaderWait, LineOut, LineWait
    <2>2. sequencer' # "LINE_WAIT" => free("line")'
      BY <1>8 DEF Turns, trigger, Cycle, Sequencer, Wait, Header, HeaderWait, LineOut, LineWait
    <2> QED
      BY <2>1, <2>2 DEF Turns
  <1> QED
    BY <1>5, <1>9

\* What the other board does leaves the report alone.
LEMMA RemoteKeeps == IInv /\ (Leave \/ Arrive \/ UNCHANGED vars) => IInv'
  <1> SUFFICES ASSUME IInv, Leave \/ Arrive \/ UNCHANGED vars PROVE IInv'
    OBVIOUS
  <1>1. /\ UNCHANGED reportVars /\ on' \in BOOLEAN /\ rest' \in {0, 1} /\ cable' \in Cablings
        /\ phase' \in 0..(FrameCycles - 1)
    <2>1. CASE Leave
      BY <2>1 DEF IInv, TypeOK, Leave
    <2>2. CASE Arrive
      BY <2>2, FrameTakesTime DEF IInv, TypeOK, Arrive
    <2>3. CASE UNCHANGED vars
      BY <2>3 DEF IInv, TypeOK, vars, remoteVars
    <2> QED
      BY <2>1, <2>2, <2>3
  <1>2. TypeOK'
    BY <1>1 DEF IInv, TypeOK, reportVars, Plan
  <1>3. Turns'
    BY <1>1 DEF IInv, Turns, reportVars, free, busy, idle
  <1> QED
    BY <1>2, <1>3 DEF IInv

\* It holds at any time.
LEMMA Inductive == Spec => []IInv
  <1>1. IInv /\ [Next]_vars => IInv'
    BY CycleKeeps, RemoteKeeps DEF Next
  <1> QED
    BY InitEstablishes, <1>1, PTL DEF Spec

(* Every register of the report is in its range at any time. *)
THEOREM TypeCorrect == Spec => []TypeOK
  <1>1. IInv => TypeOK
    BY DEF IInv
  <1> QED
    BY Inductive, <1>1, PTL

(* The header's console and the lines' one never send at the same time,
   because the sequencer leaves a console only when its transmitter is done. *)
THEOREM ConsolesTakeTurns == Spec => []OneTalker
  <1>1. IInv => OneTalker
    BY DEF IInv, Turns, OneTalker, free
  <1> QED
    BY Inductive, <1>1, PTL

-----------------------------------------------------------------------------
(* What a report of the discovery applet prints. *)

\* The bytes of a line, and of the lines for the first k lanes.
LineOf(f) == <<f.lane, f.peer, f.flags>>
\* The bytes of the first k lines of a report made at t.
Lines(t, k) == FlattenSeq([i \in 1..k |-> LineOf(t[i - 1])])

\* What is printed of them begins with the header.
Header1 == <<"hello">>

\* The bytes there are.
Shown(t) == {"hello"} \cup UNION {{t[l].lane, t[l].peer, t[l].flags} : l \in Lanes}

\* No lane, no line.
LEMMA LinesNone ==
  ASSUME NEW t
  PROVE  Lines(t, 0) = <<>>
<1>1. [i \in 1..0 |-> LineOf(t[i - 1])] = <<>>
  OBVIOUS
<1> QED
  BY <1>1, FlattenEmpty DEF Lines

\* Lines are made of what was latched for the lanes.
LEMMA LinesType ==
  ASSUME NEW t, NEW k \in Nat, k <= n_lanes
  PROVE  Lines(t, k) \in Seq(Shown(t))
<1>1. \A i \in 1..k : i - 1 \in Lanes
  BY LanesAssumption DEF Lanes
<1>2. \A i \in 1..k : LineOf(t[i - 1]) \in Seq(Shown(t))
  BY <1>1 DEF LineOf, Shown
<1> DEFINE s == [i \in 1..k |-> LineOf(t[i - 1])]
<1>3. s \in Seq(Seq(Shown(t)))
  BY <1>2
<1> HIDE DEF s
<1>4. FlattenSeq(s) \in Seq(Shown(t))
  BY <1>3, FlattenType
<1> QED
  BY <1>4 DEF s, Lines

\* The lines of one lane more.
LEMMA LinesNext ==
  ASSUME NEW t, NEW k \in Lanes
  PROVE  Lines(t, k + 1) = Lines(t, k) \o LineOf(t[k])
<1>0. k \in Nat /\ k + 1 <= n_lanes
  BY LanesAssumption DEF Lanes
<1> DEFINE s == [i \in 1..k |-> LineOf(t[i - 1])]
           r == [i \in 1..(k + 1) |-> LineOf(t[i - 1])]
<1>1. Len(s) = k /\ Len(r) = k + 1 /\ (\A i \in 1..k : s[i] = r[i]) /\ r[k + 1] = LineOf(t[k])
  BY <1>0
<1>2. Lines(t, k + 1) = FlattenSeq(r) /\ Lines(t, k) = FlattenSeq(s)
  BY DEF Lines
<1> HIDE DEF s, r
<1>3. FlattenSeq(r) = IF k = 0 THEN r[k + 1] ELSE FlattenSeq(s) \o r[k + 1]
  BY <1>0, <1>1, FlattenNext
<1>4. CASE k # 0
  BY <1>1, <1>2, <1>3, <1>4
<1>5. CASE k = 0
  <2>1. Lines(t, k) = <<>>
    BY <1>5, LinesNone
  <2>2. LineOf(t[k]) \in Seq({t[k].lane, t[k].peer, t[k].flags})
    BY DEF LineOf
  <2>3. <<>> \o LineOf(t[k]) = LineOf(t[k])
    BY <2>2, ConcatEmptySeq
  <2> QED
    BY <1>1, <1>2, <1>3, <1>5, <2>1, <2>3
<1> QED
  BY <1>4, <1>5

\* Lines that are under way or out do not depend on what comes for later lanes.
LEMMA LinesSame ==
  ASSUME NEW t, NEW u, NEW k \in Lanes, \A l \in Lanes : l < k => t[l] = u[l]
  PROVE  Lines(t, k) = Lines(u, k)
<1>1. k \in Nat /\ \A i \in 1..k : i - 1 \in Lanes /\ i - 1 < k
  BY LanesAssumption DEF Lanes
<1>2. [i \in 1..k |-> LineOf(t[i - 1])] = [i \in 1..k |-> LineOf(u[i - 1])]
  BY <1>1
<1> QED
  BY <1>2 DEF Lines

\* How far the present line is, of which f was latched.
UnderWay(f) ==
  LET before == Header1 \o Lines(taken, sel)
      pos == console["line"].pos
  IN  /\ f.lane = sel /\ latched["line"] = f
      /\ busy("line") /\ pos = 1 => printed = before
      /\ busy("line") /\ pos = 2 => printed = before \o <<f.lane>>
      /\ busy("line") /\ pos = 3 => printed = before \o <<f.lane, f.peer>>
      /\ ~busy("line") => printed = before \o LineOf(f)

\* What the report under way has printed: the header, the lines of the lanes before,
\* and as much of the present line as its console has accepted.
Report ==
  /\ DOMAIN taken = Lanes
  /\ sequencer \in {"HEADER", "HEADER_WAIT"} => sel = 0
  /\ sequencer = "HEADER_WAIT" /\ busy("header") =>
       printed = <<>> /\ console["header"].pos = 1 /\ latched["header"] = [text |-> "hello"]
  /\ sequencer = "HEADER_WAIT" /\ ~busy("header") => printed = Header1
  /\ sequencer \in {"LINE", "LINE_WAIT"} => \A l \in Lanes : l < sel => taken[l].lane = l
  /\ sequencer = "LINE" => printed = Header1 \o Lines(taken, sel)
  /\ sequencer = "LINE_WAIT" => UnderWay(taken[sel])

\* The inductive invariant of what a report prints.
RInv == IInv /\ Report

\* No report is under way.
LEMMA ReportInit == MCInit => RInv
<1> SUFFICES ASSUME MCInit PROVE RInv
  OBVIOUS
<1>1. IInv
  BY InitEstablishes DEF MCInit
<1>2. DOMAIN taken = Lanes /\ sequencer = "WAIT"
  BY DEF MCInit, Init
<1> QED
  BY <1>1, <1>2 DEF RInv, Report

\* A console that is not busy accepts nothing.
LEMMA NothingAccepted ==
  ASSUME NEW c, ~busy(c)
  PROVE  Printed(c) = <<>>
  BY DEF Printed, accepts

\* One lemma for each state of the sequencer: the pause,
LEMMA ReportWait ==
  ASSUME RInv, MCCycle, Wait
  PROVE  Report'
<1>1. sequencer = "WAIT" /\ sequencer' \in {"WAIT", "HEADER"} /\ (sequencer' = "HEADER" => sel' = 0)
  BY DEF Wait
<1>2. taken' = taken
  BY <1>1 DEF MCCycle, trigger
<1> QED
  BY <1>1, <1>2 DEF RInv, Report

\* the header is triggered,
LEMMA ReportHeader ==
  ASSUME RInv, MCCycle, Header
  PROVE  Report'
<1>1. sequencer = "HEADER" /\ sequencer' = "HEADER_WAIT" /\ sel' = sel /\ sel = 0 /\ printed' = <<>> /\ taken' = taken
  BY DEF Header, RInv, Report, MCCycle, trigger
<1>2. ~busy("header") /\ trigger("header") /\ "header" \in Consoles
  BY <1>1 DEF RInv, IInv, Turns, free, trigger, Consoles
<1>3. console'["header"] = ConsoleStep("header") /\ latched'["header"] = Fields("header")
  BY <1>2 DEF MCCycle, Cycle, begins
<1>4. console'["header"].state = "SEND" /\ console'["header"].pos = 1
  <2>1. begins("header") /\ ~accepts("header")
    BY <1>2 DEF begins, accepts
  <2> QED
    BY <1>3, <2>1 DEF ConsoleStep
<1>5. busy("header")'
  BY <1>4 DEF busy
<1> QED
  BY <1>1, <1>3, <1>4, <1>5 DEF Report, RInv, Fields

\* its console prints it,
LEMMA ReportHeaderWait ==
  ASSUME RInv, MCCycle, HeaderWait
  PROVE  Report'
<1>1. /\ sequencer = "HEADER_WAIT" /\ sel' = sel /\ sel = 0 /\ taken' = taken
      /\ printed' = (printed \o Printed("header")) \o Printed("line")
      /\ sequencer' = IF free("header") THEN "LINE" ELSE sequencer
  BY DEF HeaderWait, RInv, Report, MCCycle, trigger
<1>2. "header" \in Consoles /\ ~begins("header") /\ ~busy("line")
  BY <1>1 DEF RInv, IInv, Turns, free, trigger, Consoles, begins
<1>3. Printed("line") = <<>>
  BY <1>2, NothingAccepted
<1>4. console'["header"] = ConsoleStep("header") /\ latched'["header"] = latched["header"]
  BY <1>2 DEF MCCycle, Cycle
<1>5. CASE ~busy("header")
  <2>1. printed = Header1 /\ Printed("header") = <<>>
    BY <1>1, <1>5, NothingAccepted DEF RInv, Report
  <2>2. Header1 \o <<>> = Header1
    BY DEF Header1
  <2>3. printed' = Header1
    BY <1>1, <1>3, <2>1, <2>2
  <2>4. ~busy("header")'
    BY <1>2, <1>4, <1>5 DEF ConsoleStep, accepts, busy
  <2>5. Header1 \o Lines(taken', sel') = Header1
    BY <1>1, <2>2, LinesNone
  <2>6. ~ \E l \in Lanes : l < sel'
    BY <1>1 DEF Lanes
  <2> QED
    BY <1>1, <2>3, <2>4, <2>5, <2>6 DEF RInv, Report
<1>6. CASE busy("header")
  <2>1. printed = <<>> /\ console["header"].pos = 1 /\ latched["header"] = [text |-> "hello"]
    BY <1>1, <1>6 DEF RInv, Report
  <2>2. Plan("header") = <<"text">>
    BY DEF Plan
  <2>3. sequencer' = "HEADER_WAIT"
    BY <1>1, <1>6 DEF free
  <2>4. CASE accepts("header")
    <3>1. Printed("header") = <<"hello">>
      BY <2>1, <2>2, <2>4 DEF Printed, byte_at
    <3>2. (<<>> \o <<"hello">>) \o <<>> = <<"hello">>
      OBVIOUS
    <3>3. printed' = Header1
      BY <1>1, <1>3, <2>1, <3>1, <3>2 DEF Header1
    <3>4. console'["header"].state = "IDLE"
      BY <1>2, <1>4, <2>1, <2>2, <2>4 DEF ConsoleStep
    <3>5. ~busy("header")'
      BY <3>4 DEF busy
    <3> QED
      BY <1>1, <2>3, <3>3, <3>5 DEF RInv, Report
  <2>5. CASE ~accepts("header")
    <3>1. Printed("header") = <<>>
      BY <2>5 DEF Printed
    <3>2. (<<>> \o <<>>) \o <<>> = <<>>
      OBVIOUS
    <3>3. printed' = <<>>
      BY <1>1, <1>3, <2>1, <3>1, <3>2
    <3>4. console'["header"].state = "SEND" /\ console'["header"].pos = 1
      BY <1>2, <1>4, <1>6, <2>1, <2>5 DEF ConsoleStep, busy
    <3>5. busy("header")'
      BY <3>4 DEF busy
    <3> QED
      BY <1>1, <1>4, <2>1, <2>3, <3>3, <3>4, <3>5 DEF RInv, Report
  <2> QED
    BY <2>4, <2>5
<1> QED
  BY <1>5, <1>6

\* a line is triggered and its fields are latched,
LEMMA ReportLine ==
  ASSUME RInv, MCCycle, LineOut
  PROVE  Report'
<1>1. /\ sequencer = "LINE" /\ sequencer' = "LINE_WAIT" /\ sel' = sel /\ sel \in Lanes /\ DOMAIN taken = Lanes
      /\ printed' = (printed \o Printed("header")) \o Printed("line")
      /\ taken' = [taken EXCEPT ![sel] = Fields("line")]
      /\ \A l \in Lanes : l < sel => taken[l].lane = l
      /\ printed = Header1 \o Lines(taken, sel)
  BY DEF LineOut, RInv, Report, MCCycle, trigger, IInv, TypeOK
<1>2. "line" \in Consoles /\ trigger("line") /\ ~busy("header") /\ ~busy("line")
  BY <1>1 DEF RInv, IInv, Turns, free, trigger, Consoles
<1>3. console'["line"] = ConsoleStep("line") /\ latched'["line"] = Fields("line")
  BY <1>2 DEF MCCycle, Cycle, begins
<1>4. console'["line"].state = "SEND" /\ console'["line"].pos = 1
  <2>1. begins("line") /\ ~accepts("line")
    BY <1>2 DEF begins, accepts
  <2> QED
    BY <1>3, <2>1 DEF ConsoleStep
<1>5. busy("line")'
  BY <1>4 DEF busy
<1>6. /\ DOMAIN taken' = Lanes /\ taken'[sel] = Fields("line")
      /\ \A l \in Lanes : l # sel => taken'[l] = taken[l]
  BY <1>1
<1>7. \A l \in Lanes : l < sel => taken'[l] = taken[l]
  BY <1>1, <1>6 DEF Lanes
<1>8. Lines(taken', sel) = Lines(taken, sel)
  <2>1. PICK t, u : t = taken /\ u = taken'
    OBVIOUS
  <2>2. \A l \in Lanes : l < sel => t[l] = u[l]
    BY <1>7, <2>1
  <2>3. Lines(t, sel) = Lines(u, sel)
    BY <1>1, <2>2, LinesSame
  <2> QED
    BY <2>1, <2>3
<1>9. Fields("line").lane = sel
  BY DEF Fields
<1>10. Printed("header") = <<>> /\ Printed("line") = <<>>
  BY <1>2, NothingAccepted
<1>11. printed' = Header1 \o Lines(taken', sel)
  <2>1. Lines(taken, sel) \in Seq(Shown(taken)) /\ Header1 \in Seq(Shown(taken))
    <3>1. sel \in Nat /\ sel <= n_lanes
      BY <1>1, LanesAssumption DEF Lanes
    <3>2. "hello" \in Shown(taken)
      BY DEF Shown
    <3> QED
      BY <3>1, <3>2, LinesType DEF Header1
  <2>2. printed \in Seq(Shown(taken))
    BY <1>1, <2>1, ConcatProperties
  <2>3. printed \o <<>> = printed
    BY <2>2, ConcatEmptySeq
  <2> QED
    BY <1>1, <1>8, <1>10, <2>3
<1>12. (\A l \in Lanes : l < sel => taken[l].lane = l)'
  BY <1>1, <1>7
<1>13. /\ taken'[sel'].lane = sel' /\ latched'["line"] = taken'[sel'] /\ console'["line"].pos = 1
       /\ printed' = Header1 \o Lines(taken', sel')
  BY <1>1, <1>3, <1>4, <1>6, <1>9, <1>11
<1>14. UnderWay(taken[sel])'
  BY <1>5, <1>13 DEF UnderWay
<1> QED
  BY <1>1, <1>6, <1>12, <1>14 DEF Report

\* The line for a lane is out.
LEMMA LineIsOut ==
  ASSUME RInv, sequencer = "LINE_WAIT", ~busy("line")
  PROVE  printed = Header1 \o Lines(taken, sel + 1) /\ sel \in Lanes
<1>1. sel \in Lanes /\ UnderWay(taken[sel])
  BY DEF RInv, Report, IInv, TypeOK
<1>2. PICK S : S = Shown(taken)
  OBVIOUS
<1>3. PICK h, m, f : h = Header1 /\ m = Lines(taken, sel) /\ f = LineOf(taken[sel])
  OBVIOUS
<1>4. h \in Seq(S) /\ m \in Seq(S) /\ f \in Seq(S)
  <2>1. sel \in Nat /\ sel <= n_lanes
    BY <1>1, LanesAssumption DEF Lanes
  <2>2. Lines(taken, sel) \in Seq(Shown(taken))
    BY <2>1, LinesType
  <2>3. Header1 \in Seq(Shown(taken))
    BY DEF Header1, Shown
  <2>4. LineOf(taken[sel]) \in Seq(Shown(taken))
    BY <1>1 DEF LineOf, Shown
  <2> QED
    BY <1>2, <1>3, <2>2, <2>3, <2>4
<1>5. printed = (h \o m) \o f
  BY <1>1, <1>3 DEF UnderWay
<1>6. Associates(S)
  BY SeqsAssociate
<1>7. (h \o m) \o f = h \o (m \o f)
  BY <1>4, <1>6, Zenon DEF Associates
<1>8. Lines(taken, sel + 1) = m \o f
  <2>1. PICK t : t = taken
    OBVIOUS
  <2>2. Lines(t, sel + 1) = Lines(t, sel) \o LineOf(t[sel])
    BY <1>1, LinesNext
  <2> QED
    BY <1>3, <2>1, <2>2
<1> QED
  BY <1>1, <1>3, <1>5, <1>7, <1>8

\* A line of three bytes is what appending them one by one makes.
LEMMA TwoAppended ==
  ASSUME NEW S, NEW a \in S, NEW b \in S
  PROVE  Append(<<a>>, b) = <<a, b>>
<1>1. PICK p \in Seq(S) : p = <<a>>
  <2>1. <<a>> \in Seq(S)
    OBVIOUS
  <2> QED
    BY <2>1
<1>2. PICK q \in Seq(S) : q = <<a, b>>
  <2>1. <<a, b>> \in Seq(S)
    OBVIOUS
  <2> QED
    BY <2>1
<1>3. PICK u \in Seq(S) : u = Append(p, b)
  BY AppendProperties
<1>4. Len(p) = 1 /\ p[1] = a /\ Len(q) = 2 /\ q[1] = a /\ q[2] = b
  BY <1>1, <1>2
<1>5. Len(u) = 2 /\ u[1] = p[1] /\ u[2] = b
  BY <1>3, <1>4, AppendProperties
<1>6. Len(u) = Len(q) /\ \A i \in 1..Len(u) : u[i] = q[i]
  BY <1>4, <1>5
<1>7. u = q
  BY <1>6, SeqEqual
<1> QED
  BY <1>1, <1>2, <1>3, <1>7

\* The same for the third byte.
LEMMA ThreeAppended ==
  ASSUME NEW S, NEW a \in S, NEW b \in S, NEW c \in S
  PROVE  Append(<<a, b>>, c) = <<a, b, c>>
<1>1. PICK p \in Seq(S) : p = <<a, b>>
  <2>1. <<a, b>> \in Seq(S)
    OBVIOUS
  <2> QED
    BY <2>1
<1>2. PICK q \in Seq(S) : q = <<a, b, c>>
  <2>1. <<a, b, c>> \in Seq(S)
    OBVIOUS
  <2> QED
    BY <2>1
<1>3. PICK u \in Seq(S) : u = Append(p, c)
  BY AppendProperties
<1>4. Len(p) = 2 /\ p[1] = a /\ p[2] = b /\ Len(q) = 3 /\ q[1] = a /\ q[2] = b /\ q[3] = c
  BY <1>1, <1>2
<1>5. Len(u) = 3 /\ u[1] = p[1] /\ u[2] = p[2] /\ u[3] = c
  <2>1. Len(u) = Len(p) + 1 /\ u[Len(p) + 1] = c /\ \A i \in 1..Len(p) : u[i] = p[i]
    BY <1>3, AppendProperties
  <2> QED
    BY <1>4, <2>1
<1>6. Len(u) = Len(q) /\ \A i \in 1..Len(u) : u[i] = q[i]
  BY <1>4, <1>5
<1>7. u = q
  BY <1>6, SeqEqual
<1> QED
  BY <1>1, <1>2, <1>3, <1>7

\* The console of the lines accepts the next byte of the line.
LEMMA ByteAccepted ==
  ASSUME RInv, sequencer = "LINE_WAIT", accepts("line"), console'["line"] = ConsoleStep("line"),
         latched'["line"] = latched["line"], sel' = sel, taken' = taken,
         printed' = printed \o Printed("line")
  PROVE  UnderWay(taken[sel])'
<1>1. sel \in Lanes /\ UnderWay(taken[sel]) /\ console["line"].pos \in 1..3
  BY DEF RInv, Report, IInv, TypeOK, Consoles
<1>2. PICK S : S = Shown(taken)
  OBVIOUS
<1>3. PICK a, b, c, w : /\ a = taken[sel].lane /\ b = taken[sel].peer /\ c = taken[sel].flags
                        /\ w = Header1 \o Lines(taken, sel)
  OBVIOUS
<1>4. w \in Seq(S) /\ a \in S /\ b \in S /\ c \in S
  <2>1. sel \in Nat /\ sel <= n_lanes
    BY <1>1, LanesAssumption DEF Lanes
  <2>2. Lines(taken, sel) \in Seq(Shown(taken))
    BY <2>1, LinesType
  <2>3. Header1 \in Seq(Shown(taken))
    BY DEF Header1, Shown
  <2>4. Header1 \o Lines(taken, sel) \in Seq(Shown(taken))
    BY <2>2, <2>3, ConcatProperties
  <2> QED
    BY <1>1, <1>2, <1>3, <2>4 DEF Shown
<1>5. busy("line") /\ Plan("line") = <<"lane", "peer", "flags">> /\ latched["line"] = taken[sel]
  BY <1>1 DEF accepts, Plan, UnderWay
<1>6. ~begins("line") /\ Len(Plan("line")) = 3
  BY <1>5 DEF begins
<1>7. <<a>> \in Seq(S) /\ <<b>> \in Seq(S) /\ <<c>> \in Seq(S) /\ <<a, b>> \in Seq(S)
  BY <1>4
<1>8. Associates(S)
  BY SeqsAssociate
<1>9. w \o <<a, b>> = (w \o <<a>>) \o <<b>> /\ w \o <<a, b, c>> = (w \o <<a, b>>) \o <<c>>
  <2>0. Append(<<a>>, b) = <<a, b>> /\ Append(<<a, b>>, c) = <<a, b, c>>
    BY <1>4, TwoAppended, ThreeAppended
  <2>a. Append(<<a>>, b) = <<a>> \o <<b>>
    BY <1>4, <1>7, AppendIsConcat
  <2>b. Append(<<a, b>>, c) = <<a, b>> \o <<c>>
    BY <1>4, <1>7, AppendIsConcat
  <2>1. <<a, b>> = <<a>> \o <<b>> /\ <<a, b, c>> = <<a, b>> \o <<c>>
    BY <2>0, <2>a, <2>b
  <2>2. (w \o <<a>>) \o <<b>> = w \o (<<a>> \o <<b>>)
    BY <1>4, <1>7, <1>8, Zenon DEF Associates
  <2>3. (w \o <<a, b>>) \o <<c>> = w \o (<<a, b>> \o <<c>>)
    BY <1>4, <1>7, <1>8, Zenon DEF Associates
  <2> QED
    BY <2>1, <2>2, <2>3
<1>10. Header1 \o Lines(taken', sel') = w /\ taken'[sel'] = taken[sel] /\ a = sel /\ sel' = sel
  BY <1>1, <1>3 DEF UnderWay
<1>11. CASE console["line"].pos = 1
  <2>1. Printed("line") = <<a>> /\ printed = w
    BY <1>1, <1>3, <1>5, <1>11 DEF Printed, byte_at, UnderWay
  <2>2. console'["line"].state = "SEND" /\ console'["line"].pos = 2
    <3>0. PICK n \in Nat : n = 3
      OBVIOUS
    <3>b. n = Len(Plan("line"))
      BY <1>6, <3>0
    <3>a. n # 1 /\ n # 2
      BY <3>0
    <3>1. console["line"].pos # n
      BY <1>11, <3>a
    <3>2. console["line"].state = "SEND"
      BY <1>5 DEF busy
    <3> QED
      BY <1>6, <1>11, <3>b, <3>1, <3>2 DEF ConsoleStep
  <2> QED
    BY <1>3, <1>5, <1>10, <2>1, <2>2 DEF UnderWay, busy
<1>12. CASE console["line"].pos = 2
  <2>1. Printed("line") = <<b>> /\ printed = w \o <<a>>
    BY <1>1, <1>3, <1>5, <1>12 DEF Printed, byte_at, UnderWay
  <2>2. console'["line"].state = "SEND" /\ console'["line"].pos = 3
    <3>0. PICK n \in Nat : n = 3
      OBVIOUS
    <3>b. n = Len(Plan("line"))
      BY <1>6, <3>0
    <3>a. n # 1 /\ n # 2
      BY <3>0
    <3>1. console["line"].pos # n
      BY <1>12, <3>a
    <3>2. console["line"].state = "SEND"
      BY <1>5 DEF busy
    <3> QED
      BY <1>6, <1>12, <3>b, <3>1, <3>2 DEF ConsoleStep
  <2>3. printed' = w \o <<a, b>>
    BY <1>9, <2>1
  <2>4. PICK f : f = taken[sel]
    OBVIOUS
  <2>5. busy("line")' /\ console'["line"].pos = 2 + 1 /\ taken'[sel'] = f
    BY <1>10, <2>2, <2>4 DEF busy
  <2>6. printed' = (Header1 \o Lines(taken', sel')) \o <<f.lane, f.peer>>
    BY <1>3, <1>10, <2>3, <2>4
  <2>7. f.lane = sel' /\ latched'["line"] = f
    BY <1>3, <1>5, <1>10, <2>4
  <2>8. console'["line"].pos # 1 /\ console'["line"].pos # 2
    BY <2>5
  <2> QED
    BY <2>5, <2>6, <2>7, <2>8 DEF UnderWay
<1>13. CASE console["line"].pos = 3
  <2>1. Printed("line") = <<c>> /\ printed = w \o <<a, b>>
    <3>1. printed = w \o <<a, b>>
      BY <1>1, <1>3, <1>5, <1>13 DEF UnderWay
    <3>2. Plan("line")[console["line"].pos] = "flags"
      BY <1>5, <1>13
    <3>3. byte_at("line") = c
      BY <1>3, <1>5, <3>2 DEF byte_at
    <3> QED
      BY <3>1, <3>3 DEF Printed
  <2>2. console'["line"].state = "IDLE"
    BY <1>5, <1>6, <1>13 DEF ConsoleStep
  <2>3. printed' = w \o <<a, b, c>>
    BY <1>9, <2>1
  <2> QED
    BY <1>3, <1>5, <1>10, <2>2, <2>3 DEF UnderWay, busy, LineOf
<1> QED
  BY <1>1, <1>11, <1>12, <1>13

\* and it is printed; then comes the next lane, or the pause.
LEMMA ReportLineWait ==
  ASSUME RInv, MCCycle, LineWait
  PROVE  Report'
<1>1. /\ sequencer = "LINE_WAIT" /\ sel \in Lanes /\ DOMAIN taken = Lanes /\ taken' = taken
      /\ printed' = (printed \o Printed("header")) \o Printed("line")
      /\ \A l \in Lanes : l < sel => taken[l].lane = l
      /\ UnderWay(taken[sel])
  BY DEF LineWait, RInv, Report, MCCycle, trigger, IInv, TypeOK
<1>2. "line" \in Consoles /\ ~trigger("line") /\ ~busy("header") /\ ~begins("line")
  BY <1>1 DEF RInv, IInv, Turns, free, trigger, Consoles, begins
<1>3. console'["line"] = ConsoleStep("line") /\ latched'["line"] = latched["line"]
  BY <1>2 DEF MCCycle, Cycle
<1>4. printed' = printed \o Printed("line")
  <2>1. printed \in Seq(Shown(taken))
    <3>1. sel \in Nat /\ sel <= n_lanes /\ sel + 1 <= n_lanes
      BY <1>1, LanesAssumption DEF Lanes
    <3>2. Lines(taken, sel) \in Seq(Shown(taken))
      BY <3>1, LinesType
    <3>3. Header1 \in Seq(Shown(taken))
      BY DEF Header1, Shown
    <3>4. Header1 \o Lines(taken, sel) \in Seq(Shown(taken))
      BY <3>2, <3>3, ConcatProperties
    <3>5. PICK f : f = taken[sel]
      OBVIOUS
    <3>6. <<f.lane>> \in Seq(Shown(taken)) /\ <<f.lane, f.peer>> \in Seq(Shown(taken))
          /\ LineOf(f) \in Seq(Shown(taken))
      BY <1>1, <3>5 DEF Shown, LineOf
    <3>7. /\ (Header1 \o Lines(taken, sel)) \o <<f.lane>> \in Seq(Shown(taken))
          /\ (Header1 \o Lines(taken, sel)) \o <<f.lane, f.peer>> \in Seq(Shown(taken))
          /\ (Header1 \o Lines(taken, sel)) \o LineOf(f) \in Seq(Shown(taken))
      BY <3>4, <3>6, ConcatProperties
    <3>8. console["line"].pos \in 1..3
      BY <1>2 DEF RInv, IInv, TypeOK
    <3>9. busy("line") => console["line"].pos = 1 \/ console["line"].pos = 2 \/ console["line"].pos = 3
      BY <3>8
    <3>10. UnderWay(f)
      BY <1>1, <3>5
    <3>11. \/ printed = Header1 \o Lines(taken, sel)
           \/ printed = (Header1 \o Lines(taken, sel)) \o <<f.lane>>
           \/ printed = (Header1 \o Lines(taken, sel)) \o <<f.lane, f.peer>>
           \/ printed = (Header1 \o Lines(taken, sel)) \o LineOf(f)
      BY <3>9, <3>10, Zenon DEF UnderWay
    <3> QED
      BY <3>4, <3>7, <3>11
  <2>2. Printed("header") = <<>>
    BY <1>2, NothingAccepted
  <2>3. printed \o <<>> = printed
    BY <2>1, ConcatEmptySeq
  <2> QED
    BY <1>1, <2>2, <2>3
<1>5. CASE free("line")
  <2>1. printed = Header1 \o Lines(taken, sel + 1) /\ Printed("line") = <<>> /\ ~busy("line")
    BY <1>1, <1>5, LineIsOut, NothingAccepted DEF free
  <2>2. CASE sel = n_lanes - 1
    BY <1>1, <1>5, <2>2 DEF LineWait, Report
  <2>3. CASE sel # n_lanes - 1
    <3>1. sequencer' = "LINE" /\ sel' = sel + 1
      BY <1>5, <2>3 DEF LineWait
    <3>2. printed \o <<>> = printed
      <4>1. sel + 1 \in Nat /\ sel + 1 <= n_lanes
        BY <1>1, LanesAssumption DEF Lanes
      <4>2. Lines(taken, sel + 1) \in Seq(Shown(taken))
        <5>1. PICK k \in Nat : k = sel + 1 /\ k <= n_lanes
          BY <4>1
        <5>2. Lines(taken, k) \in Seq(Shown(taken))
          BY <5>1, LinesType
        <5> QED
          BY <5>1, <5>2
      <4>3. Header1 \in Seq(Shown(taken))
        BY DEF Header1, Shown
      <4>4. printed \in Seq(Shown(taken))
        BY <2>1, <4>2, <4>3, ConcatProperties
      <4> QED
        BY <4>4, ConcatEmptySeq
    <3>3. printed' = Header1 \o Lines(taken', sel')
      BY <1>1, <1>4, <2>1, <3>1, <3>2
    <3>4. (\A l \in Lanes : l < sel => taken[l].lane = l)'
      <4>1. taken[sel].lane = sel
        BY <1>1 DEF UnderWay
      <4>2. \A l \in Lanes : l < sel + 1 => l < sel \/ l = sel
        BY <1>1 DEF Lanes
      <4> QED
        BY <1>1, <3>1, <4>1, <4>2
    <3> QED
      BY <1>1, <3>1, <3>3, <3>4 DEF Report
  <2> QED
    BY <2>2, <2>3
<1>6. CASE ~free("line")
  <2>1. sequencer' = "LINE_WAIT" /\ sel' = sel
    BY <1>1, <1>6 DEF LineWait
  <2>2. CASE accepts("line")
    <3>1. UnderWay(taken[sel])'
      BY <1>1, <1>3, <1>4, <2>1, <2>2, ByteAccepted
    <3> QED
      BY <1>1, <2>1, <3>1 DEF Report
  <2>3. CASE ~accepts("line")
    <3>1. /\ console'["line"].state = console["line"].state
          /\ console'["line"].pos = console["line"].pos
      BY <1>2, <1>3, <2>3 DEF ConsoleStep
    <3>2. busy("line")' = busy("line")
      BY <3>1 DEF busy
    <3>3. printed' = printed \o <<>>
      BY <1>4, <2>3 DEF Printed
    <3>4. printed' = printed
      BY <1>4, <3>3
    <3>5. UnderWay(taken[sel])'
      BY <1>1, <1>3, <2>1, <3>1, <3>2, <3>4 DEF UnderWay
    <3> QED
      BY <1>1, <2>1, <3>5 DEF Report
  <2> QED
    BY <2>2, <2>3
<1> QED
  BY <1>5, <1>6

\* What the other board does leaves what is printed alone.
LEMMA ReportStays ==
  ASSUME RInv, UNCHANGED <<reportVars, taken, printed>>
  PROVE  Report'
<1>1. sequencer' = sequencer /\ sel' = sel /\ console' = console /\ latched' = latched /\ taken' = taken /\ printed' = printed
  BY DEF reportVars
<1>2. \A c : busy(c)' = busy(c)
  BY <1>1 DEF busy
<1>3. UnderWay(taken[sel])' = UnderWay(taken[sel])
  BY <1>1, <1>2 DEF UnderWay
<1> QED
  BY <1>1, <1>2, <1>3 DEF RInv, Report

\* Every step keeps it.
LEMMA ReportNext == RInv /\ [MCNext]_mcvars => RInv'
<1> SUFFICES ASSUME RInv, [MCNext]_mcvars PROVE RInv'
  OBVIOUS
<1>1. CASE MCCycle
  <2>1. IInv'
    BY <1>1, CycleKeeps DEF RInv, MCCycle
  <2>2. Report'
    BY <1>1, ReportWait, ReportHeader, ReportHeaderWait, ReportLine, ReportLineWait
       DEF MCCycle, Cycle, Sequencer
  <2> QED
    BY <2>1, <2>2 DEF RInv
<1>2. CASE MCLeave \/ MCArrive \/ UNCHANGED mcvars
  <2>1. IInv'
    BY <1>2, RemoteKeeps DEF RInv, MCLeave, MCArrive, mcvars
  <2>2. UNCHANGED <<reportVars, taken, printed>>
    BY <1>2 DEF MCLeave, MCArrive, mcvars, Leave, Arrive, vars
  <2> QED
    BY <2>1, <2>2, ReportStays DEF RInv
<1> QED
  BY <1>1, <1>2 DEF MCNext

(* Every report that ends is whole: a header, and for each lane in its order one
   line of what its listener held in one cycle, for any number of lanes, any
   console speed and any remote board. *)
THEOREM ReportsAreWhole == MCSpec => ReportIsWhole
<1> DEFINE Whole == sequencer # "WAIT" /\ sequencer' = "WAIT" =>
       LET line(f) == <<f.lane, f.peer, f.flags>>
       IN  /\ \A l \in Lanes : taken[l].lane = l
           /\ printed = <<"hello">> \o FlattenSeq([i \in 1..n_lanes |-> line(taken[i - 1])])
<1>1. RInv /\ [MCNext]_mcvars => Whole
  <2> SUFFICES ASSUME RInv, [MCNext]_mcvars, sequencer # "WAIT", sequencer' = "WAIT"
               PROVE  /\ \A l \in Lanes : taken[l].lane = l
                      /\ printed = <<"hello">> \o FlattenSeq([i \in 1..n_lanes |-> <<taken[i - 1].lane, taken[i - 1].peer, taken[i - 1].flags>>])
    OBVIOUS
  <2>1. LineWait
    BY DEF MCNext, MCCycle, MCLeave, MCArrive, mcvars, vars, reportVars, Leave, Arrive,
           Cycle, Sequencer, Wait, Header, HeaderWait, LineOut
  <2>2. sequencer = "LINE_WAIT" /\ free("line") /\ sel = n_lanes - 1
    BY <2>1 DEF LineWait
  <2>3. printed = Header1 \o Lines(taken, sel + 1) /\ sel \in Lanes
    BY <2>2, LineIsOut DEF free
  <2>4. sel + 1 = n_lanes
    BY <2>2, LanesAssumption
  <2>5. taken[sel].lane = sel /\ \A l \in Lanes : l < sel => taken[l].lane = l
    BY <2>2 DEF RInv, Report, UnderWay
  <2>6. \A l \in Lanes : l < sel \/ l = sel
    BY <2>2, LanesAssumption DEF Lanes
  <2>7. \A l \in Lanes : taken[l].lane = l
    BY <2>5, <2>6
  <2>8. Lines(taken, n_lanes) = FlattenSeq([i \in 1..n_lanes |-> <<taken[i - 1].lane, taken[i - 1].peer, taken[i - 1].flags>>])
    BY DEF Lines, LineOf
  <2>9. printed = <<"hello">> \o Lines(taken, n_lanes)
    BY <2>3, <2>4 DEF Header1
  <2> QED
    BY <2>7, <2>8, <2>9
<1>2. MCSpec => []RInv
  BY ReportInit, ReportNext, PTL DEF MCSpec
<1>3. Whole => [Whole]_mcvars
  OBVIOUS
<1> QED
  BY <1>1, <1>2, PTL DEF MCSpec, ReportIsWhole

-----------------------------------------------------------------------------
(* The loopback: the locks and what is released under them. *)

\* No domain has counted an edge while it is in reset, and the locks are a chain.
Locks ==
  /\ pll \in BOOLEAN /\ mmcm \in BOOLEAN /\ pll2 \in BOOLEAN
  /\ mmcm => pll
  /\ pll2 => mmcm
  /\ released \in [Domains -> 0..Stages]
  /\ \A d \in Domains : released[d] > 0 => ~arst(d)

\* No lock is there at first.
LEMMA LocksInit == LoopbackInit => Locks
<1> SUFFICES ASSUME LoopbackInit PROVE Locks
  OBVIOUS
<1>1. pll = FALSE /\ mmcm = FALSE /\ pll2 = FALSE /\ released = [d \in Domains |-> 0]
  BY DEF LoopbackInit, ResamplerInit, ClocksInit
<1>2. released \in [Domains -> 0..Stages] /\ \A d \in Domains : ~(released[d] > 0)
  BY <1>1 DEF Stages
<1> QED
  BY <1>1, <1>2 DEF Locks

\* Edges are counted up to Stages.
LEMMA LocksNext ==
  ASSUME Locks, NEW e, Clocks(e), \A d \in Domains : e[d] \in Nat
  PROVE  Locks'
<1>1. pll' \in BOOLEAN /\ mmcm' \in BOOLEAN /\ pll2' \in BOOLEAN /\ (mmcm' => pll') /\ (pll2' => mmcm')
  BY DEF Clocks, Lock, mmcm_reset, pll2_reset
<1>2. PICK late \in SUBSET {d \in Domains : arst(d) /\ ~arst(d)'} :
        released' = [d \in Domains |->
          IF arst(d)' \/ d \in late THEN 0
          ELSE IF released[d] + e[d] < Stages THEN released[d] + e[d] ELSE Stages]
  BY DEF Clocks
<1>3. released' \in [Domains -> 0..Stages]
  BY <1>2 DEF Locks, Stages
<1>4. \A d \in Domains : released'[d] > 0 => ~arst(d)'
  BY <1>2
<1> QED
  BY <1>1, <1>3, <1>4 DEF Locks, arst, fabric_locked

\* A domain that has counted its stages has its locks.
LEMMA LocksRun == Locks => RunsLocked
  BY DEF Locks, RunsLocked, up, arst, fabric_locked, Stages, Domains

-----------------------------------------------------------------------------
(* The edges of the writer's clock. *)

\* The resampler keeps the rate it was given and counts within a cycle of it.
Timing ==
  /\ rate \in Rates /\ credit \in 0..(2 * rate[2] - 1)

\* Quotients by a variable, as far as they are needed.
LEMMA Quotient ==
  ASSUME NEW a \in Nat, NEW d \in Nat \ {0}, NEW q \in 0..3, q * d <= a, a < q * d + d
  PROVE  a \div d = q
  OBVIOUS

\* Remainders, of less than two times the divisor.
LEMMA RemainderLow ==
  ASSUME NEW a \in Nat, NEW m \in Nat \ {0}, a < m
  PROVE  a % m = a
  OBVIOUS

\* The same above the divisor.
LEMMA RemainderHigh ==
  ASSUME NEW a \in Nat, NEW m \in Nat \ {0}, m <= a, a < 2 * m
  PROVE  a % m = a - m
  OBVIOUS

\* What is assumed of the two clocks, for the one pair the run is about.
LEMMA RatesNear ==
  ASSUME Timing
  PROVE  /\ rate[1] \in Nat \ {0} /\ rate[2] \in Nat \ {0}
         /\ 2 * rate[2] <= 3 * rate[1] /\ rate[1] <= 2 * rate[2]
<1>1. rate \in (Nat \ {0}) \X (Nat \ {0}) /\ rate \in Rates
  BY RatesAssumption DEF Timing
<1> QED
  BY <1>1, OffsetAssumption

\* The writer's clock runs in and out of reset.
LEMMA CreditStep ==
  ASSUME Timing, Resample
  PROVE  /\ rate' = rate
         /\ credit' = IF credit + rate[1] >= 2 * rate[2] THEN credit + rate[1] - 2 * rate[2]
                      ELSE credit + rate[1]
         /\ Timing'
<1>1. PICK n \in Nat \ {0}, d \in Nat \ {0} : n = rate[1] /\ d = rate[2]
  BY RatesNear
<1>2. 2 * d <= 3 * n /\ n <= 2 * d /\ credit \in 0..(2 * d - 1)
  BY <1>1, RatesNear DEF Timing
<1>3. rate' = rate
  BY DEF Resample
<1>4. credit' = IF credit + n >= 2 * d THEN credit + n - 2 * d ELSE credit + n
  <2>1. CASE Fifo
    BY <1>1, <1>2, <2>1 DEF Fifo
  <2>2. CASE FifoReset
    <3>1. credit' = (credit + n) % (2 * d)
      BY <1>1, <2>2 DEF FifoReset
    <3>2. PICK a \in Nat, m \in Nat \ {0} : a = credit + n /\ m = 2 * d
      BY <1>2
    <3>3. a < 2 * m
      BY <1>2, <3>2
    <3>4. CASE a < m
      BY <1>2, <3>1, <3>2, <3>4, RemainderLow
    <3>5. CASE m <= a
      <4>1. a % m = a - m
        BY <3>3, <3>5, RemainderHigh
      <4>2. credit + n >= 2 * d /\ a - m = credit + n - 2 * d
        BY <1>2, <3>2, <3>5
      <4> QED
        BY <3>1, <3>2, <4>1, <4>2
    <3> QED
      BY <3>2, <3>4, <3>5
  <2> QED
    BY <2>1, <2>2 DEF Resample
<1>5. credit' \in 0..(2 * d - 1)
  BY <1>2, <1>4
<1> QED
  BY <1>1, <1>3, <1>4, <1>5 DEF Timing

\* How far the writer's clock is into its cycle.
Phase == IF credit < rate[2] THEN credit ELSE credit - rate[2]

\* A cycle of the reader holds the writer's edges that its own length makes room for.
LEMMA EdgeStep ==
  ASSUME Timing, Resample
  PROVE  /\ in_edges \in 0..3
         /\ Phase \in Nat /\ Phase < rate[2] /\ Phase' \in Nat
         /\ Phase' + in_edges * rate[2] = Phase + rate[1]
<1>1. PICK n \in Nat \ {0}, d \in Nat \ {0} : n = rate[1] /\ d = rate[2]
  BY RatesNear
<1>2. 2 * d <= 3 * n /\ n <= 2 * d /\ credit \in 0..(2 * d - 1)
  BY <1>1, RatesNear DEF Timing
<1>3. /\ rate'[2] = d /\ credit' = IF credit + n >= 2 * d THEN credit + n - 2 * d ELSE credit + n
      /\ credit' \in Nat
  BY <1>1, <1>2, CreditStep DEF Timing
<1>4. PICK p \in 0..1 : p * d <= credit /\ credit < p * d + d
  BY <1>2
<1>5. PICK q \in 0..3 : q * d <= credit + n /\ credit + n < q * d + d
  BY <1>2
<1>6. in_edges = q - p
  <2>1. credit \div d = p
    BY <1>2, <1>4, Quotient
  <2>2. PICK a \in Nat : a = credit + n
    BY <1>2
  <2>3. a \div d = q
    BY <1>5, <2>2, Quotient
  <2> QED
    BY <1>1, <2>1, <2>2, <2>3 DEF in_edges
<1>7. Phase = credit - p * d
  <2>1. p = 0 \/ p = 1
    OBVIOUS
  <2>2. Phase = IF credit < d THEN credit ELSE credit - d
    BY <1>1 DEF Phase
  <2>3. CASE p = 0
    BY <1>2, <1>4, <2>2, <2>3
  <2>4. CASE p = 1
    BY <1>2, <1>4, <2>2, <2>4
  <2> QED
    BY <2>1, <2>3, <2>4
<1>8. Phase' = credit + n - q * d
  <2>1. q = 0 \/ q = 1 \/ q = 2 \/ q = 3
    OBVIOUS
  <2>2. Phase' = IF credit' < d THEN credit' ELSE credit' - d
    BY <1>3 DEF Phase
  <2>3. CASE q = 0
    BY <1>2, <1>3, <1>5, <2>2, <2>3
  <2>4. CASE q = 1
    BY <1>2, <1>3, <1>5, <2>2, <2>4
  <2>5. CASE q = 2
    BY <1>2, <1>3, <1>5, <2>2, <2>5
  <2>6. CASE q = 3
    BY <1>2, <1>3, <1>5, <2>2, <2>6
  <2> QED
    BY <2>1, <2>3, <2>4, <2>5, <2>6
<1>9. q - p \in 0..3
  <2>1. p = 0 \/ (p = 1 /\ q # 0)
    BY <1>2, <1>4, <1>5
  <2> QED
    BY <2>1
<1>10. (q - p) * d = q * d - p * d
  BY <1>2
<1>11. PICK x \in Int, y \in Int : x = p * d /\ y = q * d
  BY <1>2
<1>12. /\ Phase = credit - x /\ x <= credit /\ credit < x + d
       /\ Phase' = credit + n - y /\ y <= credit + n
       /\ (q - p) * d = y - x
  BY <1>4, <1>5, <1>7, <1>8, <1>10, <1>11
<1>13. in_edges * rate[2] = y - x
  BY <1>1, <1>6, <1>12
<1>14. Phase \in Nat /\ Phase < d /\ Phase' \in Nat /\ Phase' + (y - x) = Phase + n
  BY <1>2, <1>11, <1>12
<1> QED
  BY <1>1, <1>6, <1>9, <1>13, <1>14

-----------------------------------------------------------------------------
(* No byte is written before tx_async is up. *)

\* Steps since the reset fell, as far as the usb domain tells.
Waited ==
  CASE released["usb"] = 0 -> 0
    [] released["usb"] = 1 -> IF usb_next THEN 1 ELSE 0
    [] OTHER -> IF usb_next THEN 3 ELSE 2

\* While the reader of the FIFO is in reset, its edges are ahead of the writer's cycles.
Paced ==
  up("tx_async") \/ Phase + released["tx_async"] * rate[2] >= Waited * rate[1]

\* No domain has less than no edge.
LEMMA EdgesAreNatural ==
  ASSUME Timing, Resample
  PROVE  \A d \in Domains : edges[d] \in Nat
<1>1. in_edges \in Nat
  BY EdgeStep
<1> QED
  BY <1>1 DEF edges, Domains

\* What one step does to the two domains that share the FIFO.
LEMMA ReleasedNext ==
  ASSUME Locks, Timing, usb_next \in BOOLEAN, LoopbackNext
  PROVE  LET u == released["usb"]
             t == released["tx_async"]
         IN  /\ released["usb"]' \in 0..2 /\ released["tx_async"]' \in 0..2
             /\ arst("usb") = arst("tx_async") /\ arst("usb")' = arst("tx_async")'
             /\ arst("usb")' => released["usb"]' = 0 /\ released["tx_async"]' = 0
             /\ ~arst("usb")' /\ arst("usb") => released["usb"]' = 0 \/ released["usb"]' = (IF usb_next THEN 1 ELSE 0)
             /\ ~arst("usb")' /\ ~arst("usb") =>
                  /\ released["usb"]' = IF usb_next /\ u < 2 THEN u + 1 ELSE u
                  /\ released["tx_async"]' = IF t + in_edges < 2 THEN t + in_edges ELSE 2
<1>1. Clocks(edges) /\ Resample
  BY DEF LoopbackNext
<1>2. Locks'
  BY <1>1, EdgesAreNatural, LocksNext
<1>3. PICK late \in SUBSET {d \in Domains : arst(d) /\ ~arst(d)'} :
        released' = [d \in Domains |->
          IF arst(d)' \/ d \in late THEN 0
          ELSE IF released[d] + edges[d] < Stages THEN released[d] + edges[d] ELSE Stages]
  BY <1>1 DEF Clocks
<1>4. "usb" \in Domains /\ "tx_async" \in Domains
  BY DEF Domains
<1>5. edges["usb"] = (IF usb_next THEN 1 ELSE 0) /\ edges["tx_async"] = in_edges /\ in_edges \in Nat
  BY <1>1, EdgeStep DEF edges
<1>6. arst("usb") = arst("tx_async") /\ arst("usb")' = arst("tx_async")'
  BY DEF arst
<1>7. /\ released["usb"]' \in 0..2 /\ released["tx_async"]' \in 0..2
      /\ released["usb"] \in 0..2 /\ released["tx_async"] \in 0..2
  BY <1>2, <1>4 DEF Locks, Stages
<1>8. arst("usb")' => released["usb"]' = 0 /\ released["tx_async"]' = 0
  BY <1>3, <1>4, <1>6
<1>9. ASSUME ~arst("usb")', arst("usb")
      PROVE  released["usb"]' = 0 \/ released["usb"]' = (IF usb_next THEN 1 ELSE 0)
  <2>1. released["usb"] = 0
    BY <1>4, <1>7, <1>9 DEF Locks
  <2> QED
    BY <1>3, <1>4, <1>5, <1>9, <2>1 DEF Stages
<1>10. ASSUME ~arst("usb")', ~arst("usb")
       PROVE  /\ released["usb"]' = IF usb_next /\ released["usb"] < 2 THEN released["usb"] + 1 ELSE released["usb"]
              /\ released["tx_async"]' = IF released["tx_async"] + in_edges < 2
                                           THEN released["tx_async"] + in_edges ELSE 2
  <2>1. "usb" \notin late /\ "tx_async" \notin late
    BY <1>6, <1>10
  <2>2. /\ released["usb"]' = IF released["usb"] + edges["usb"] < 2 THEN released["usb"] + edges["usb"] ELSE 2
        /\ released["tx_async"]' = IF released["tx_async"] + edges["tx_async"] < 2
                                     THEN released["tx_async"] + edges["tx_async"] ELSE 2
    BY <1>3, <1>4, <1>6, <1>10, <2>1 DEF Stages
  <2> QED
    BY <1>5, <1>7, <2>2
<1> QED
  BY <1>6, <1>7, <1>8, <1>9, <1>10

\* Three cycles of the writer of the FIFO hold two edges of its reader, as 2d <= 3n.
LEMMA PacedNext ==
  ASSUME Locks, Timing, Paced, usb_next \in BOOLEAN, LoopbackNext
  PROVE  Paced'
<1>1. PICK u \in 0..2, t \in 0..2 : u = released["usb"] /\ t = released["tx_async"]
  BY DEF Locks, Stages, Domains
<1>2. PICK n \in Nat \ {0}, d \in Nat \ {0} : n = rate[1] /\ d = rate[2]
  BY RatesNear
<1>3. Resample /\ usb_next' = ~usb_next
  BY DEF LoopbackNext
<1>4. rate'[1] = n /\ rate'[2] = d /\ Phase \in Nat /\ Phase' \in Nat /\ in_edges \in 0..3
  BY <1>2, <1>3, CreditStep, EdgeStep
<1>5. PICK e \in 0..3 : e = in_edges /\ Phase' + e * d = Phase + n
  BY <1>2, <1>3, EdgeStep
<1>6. PICK v \in 0..2, s \in 0..2 : v = released["usb"]' /\ s = released["tx_async"]'
  BY ReleasedNext
<1>7. CASE Waited' = 0
  <2>1. PICK y \in Nat, a \in Nat : y = Phase' /\ a = s * d
    BY <1>4
  <2>2. y + a >= 0 /\ 0 * n = 0
    OBVIOUS
  <2> QED
    BY <1>2, <1>4, <1>6, <1>7, <2>1, <2>2 DEF Paced
<1>8. CASE Waited' # 0
  <2>1. ~arst("usb")' /\ ~arst("usb")
    BY <1>3, <1>6, <1>8, ReleasedNext DEF Waited
  <2>2. v = (IF usb_next /\ u < 2 THEN u + 1 ELSE u) /\ s = IF t + e < 2 THEN t + e ELSE 2
    BY <1>1, <1>5, <1>6, <2>1, ReleasedNext
  <2>3. PICK w \in 0..3, x \in 0..3 : w = Waited /\ x = Waited' /\ x <= w + 1
    <3>1. Waited = CASE u = 0 -> 0 [] u = 1 -> (IF usb_next THEN 1 ELSE 0)
                     [] OTHER -> (IF usb_next THEN 3 ELSE 2)
      BY <1>1 DEF Waited
    <3>2. Waited' = CASE v = 0 -> 0 [] v = 1 -> (IF usb_next THEN 0 ELSE 1)
                     [] OTHER -> (IF usb_next THEN 2 ELSE 3)
      BY <1>3, <1>6 DEF Waited
    <3>3. u = 0 \/ u = 1 \/ u = 2
      OBVIOUS
    <3>4. CASE usb_next
      BY <2>2, <3>1, <3>2, <3>3, <3>4
    <3>5. CASE ~usb_next
      BY <2>2, <3>1, <3>2, <3>3, <3>5
    <3> QED
      BY <3>4, <3>5
  <2>4. CASE t + e >= 2
    BY <1>6, <2>2, <2>4 DEF Paced, up, Stages
  <2>5. CASE t + e < 2
    <3>1. s = t + e /\ t # 2
      BY <2>2, <2>5
    <3>2. Phase + t * d >= w * n
      BY <1>1, <1>2, <2>3, <3>1 DEF Paced, up, Stages
    <3>3. PICK a \in Int, b \in Int, g \in Int : a = s * d /\ b = t * d /\ g = e * d /\ a = b + g
      BY <3>1
    <3>4. PICK c \in Int, f \in Int : c = w * n /\ f = x * n
      OBVIOUS
    <3>5. f <= c + n
      <4>1. x = 0 \/ x = 1 \/ x = 2 \/ x = 3
        OBVIOUS
      <4>2. w = 0 \/ w = 1 \/ w = 2 \/ w = 3
        OBVIOUS
      <4>3. x <= w + 1
        BY <2>3
      <4>4. CASE w = 0
        BY <3>4, <4>1, <4>3, <4>4
      <4>5. CASE w = 1
        BY <3>4, <4>1, <4>3, <4>5
      <4>6. CASE w = 2
        BY <3>4, <4>1, <4>3, <4>6
      <4>7. CASE w = 3
        BY <3>4, <4>1, <4>3, <4>7
      <4> QED
        BY <4>2, <4>4, <4>5, <4>6, <4>7
    <3>6. Phase' + a >= f
      <4>1. PICK y \in Nat, z \in Nat : y = Phase' /\ z = Phase
        BY <1>4
      <4>2. y + g = z + n /\ z + b >= c
        BY <1>5, <3>2, <3>3, <3>4, <4>1
      <4>3. y + a >= f
        BY <3>3, <3>5, <4>2
      <4> QED
        BY <4>1, <4>3
    <3> QED
      BY <1>4, <1>6, <2>3, <3>3, <3>4, <3>6 DEF Paced
  <2> QED
    BY <2>4, <2>5
<1> QED
  BY <1>7, <1>8

\* Nothing is written into the FIFO before its reader is out of reset.
LEMMA WritesAfterUp ==
  ASSUME Locks, Timing, Paced, up("usb"), usb_next
  PROVE  up("tx_async")
<1>1. PICK t \in 0..2 : t = released["tx_async"]
  BY DEF Locks, Stages, Domains
<1>2. PICK n \in Nat \ {0}, d \in Nat \ {0} : n = rate[1] /\ d = rate[2] /\ 2 * d <= 3 * n
  BY RatesNear
<1>3. Waited = 3
  BY DEF up, Stages, Waited
<1>4. Phase < d /\ Phase \in Nat
  BY <1>2 DEF Phase, Timing
<1>5. ASSUME t # 2 PROVE FALSE
  <2>1. Phase + t * d >= 3 * n
    BY <1>1, <1>2, <1>3, <1>5 DEF Paced, up, Stages
  <2>2. t = 0 \/ t = 1
    BY <1>5
  <2> QED
    BY <1>2, <1>4, <2>1, <2>2
<1> QED
  BY <1>1, <1>5 DEF up, Stages

-----------------------------------------------------------------------------
(* The bytes. *)

\* Nothing was sent yet.
Empty(n, d, r, i) == n = 0 /\ d = <<>> /\ r = <<>> /\ i = <<>>

\* What was sent is in order, and nothing was before the reader came up.
BytesInOrder ==
  /\ sent \in Nat /\ delivered \in Seq(Nat) /\ register \in Seq(Nat) /\ inner \in Seq(Nat)
  /\ StartUpLosesNothing
  /\ ~up("tx_async") => Empty(sent, delivered, register, inner)

\* How three concatenated sequences are bracketed makes no difference.
LEMMA NoneNumbered ==
  ASSUME NEW n, NEW d, NEW r, NEW i, Empty(n, d, r, i)
  PROVE  /\ n \in Nat /\ d \in Seq(Nat) /\ r \in Seq(Nat) /\ i \in Seq(Nat)
         /\ (d \o r) \o i = [k \in 1..n |-> k]
<1>1. <<>> \in Seq(Nat)
  OBVIOUS
<1>2. (<<>> \o <<>>) \o <<>> = <<>>
  BY <1>1, ConcatEmptySeq
<1>3. [k \in 1..0 |-> k] = <<>>
  OBVIOUS
<1> QED
  BY <1>1, <1>2, <1>3 DEF Empty

\* The next byte has the next number.
LEMMA NextNumber ==
  ASSUME NEW n \in Nat, NEW s \in Seq(Nat), s = [k \in 1..n |-> k]
  PROVE  s \o <<n + 1>> = [k \in 1..(n + 1) |-> k]
<1>1. [k \in 1..(n + 1) |-> k] \in Seq(Nat) /\ Len([k \in 1..(n + 1) |-> k]) = n + 1
  OBVIOUS
<1>2. <<n + 1>> \in Seq(Nat) /\ Len(<<n + 1>>) = 1 /\ Len(s) = n
  OBVIOUS
<1> DEFINE u == s \o <<n + 1>>
<1>3. u \in Seq(Nat) /\ Len(u) = n + 1
  BY <1>2, ConcatProperties
<1>4. \A k \in 1..(n + 1) : u[k] = k
  <2> TAKE k \in 1..(n + 1)
  <2>1. u[k] = IF k <= Len(s) THEN s[k] ELSE <<n + 1>>[k - Len(s)]
    BY <1>2, ConcatProperties
  <2>2. CASE k <= n
    BY <1>2, <2>1, <2>2
  <2>3. CASE k = n + 1
    BY <1>2, <2>1, <2>3
  <2> QED
    BY <2>2, <2>3
<1> HIDE DEF u
<1>5. u = [k \in 1..(n + 1) |-> k]
  BY <1>1, <1>3, <1>4, SeqEqual
<1> QED
  BY <1>5 DEF u

\* Every step of the FIFO keeps the bytes.
LEMMA BytesNext ==
  ASSUME Locks, Timing, Paced, BytesInOrder, usb_next \in BOOLEAN, LoopbackNext
  PROVE  BytesInOrder'
<1>1. ByteFifo /\ Resample
  BY DEF LoopbackNext
<1>2. CASE arst("usb")'
  <2>1. arst("tx_async")'
    BY <1>2, ReleasedNext
  <2>2. sent' = 0 /\ inner' = <<>> /\ register' = <<>> /\ delivered' = <<>>
    BY <1>1, <1>2, <2>1 DEF ByteFifo
  <2>3. Empty(sent, delivered, register, inner)'
    BY <2>2 DEF Empty
  <2>4. PICK n, d, r, i : n = sent' /\ d = delivered' /\ r = register' /\ i = inner'
    OBVIOUS
  <2>5. Empty(n, d, r, i)
    BY <2>3, <2>4 DEF Empty
  <2>6. /\ n \in Nat /\ d \in Seq(Nat) /\ r \in Seq(Nat) /\ i \in Seq(Nat)
        /\ (d \o r) \o i = [k \in 1..n |-> k]
    BY <2>5, NoneNumbered
  <2> QED
    BY <2>3, <2>4, <2>6 DEF BytesInOrder, StartUpLosesNothing
<1>3. CASE ~arst("usb")' /\ ~up("tx_async")
  <2>1. ~Writes
    BY <1>3, WritesAfterUp DEF Writes, Runs, edges
  <2>2. Empty(sent, delivered, register, inner)
    BY <1>3 DEF BytesInOrder
  <2>3. ~Moves /\ ~Runs("tx_async")
    BY <1>3, <2>2 DEF Moves, Empty, Runs
  <2>4. inner' = inner \o <<>> /\ sent' = sent + 0
    BY <1>1, <1>3, <2>1, <2>3 DEF ByteFifo
  <2>5. register' = <<>> /\ delivered' = delivered
    BY <1>1, <1>3, <2>3 DEF ByteFifo
  <2>6. <<>> \o <<>> = <<>>
    OBVIOUS
  <2>7. Empty(sent, delivered, register, inner)'
    BY <2>2, <2>4, <2>5, <2>6 DEF Empty
  <2>8. PICK n, d, r, i : n = sent' /\ d = delivered' /\ r = register' /\ i = inner'
    OBVIOUS
  <2>9. Empty(n, d, r, i)
    BY <2>7, <2>8 DEF Empty
  <2>10. /\ n \in Nat /\ d \in Seq(Nat) /\ r \in Seq(Nat) /\ i \in Seq(Nat)
         /\ (d \o r) \o i = [k \in 1..n |-> k]
    BY <2>9, NoneNumbered
  <2> QED
    BY <2>7, <2>8, <2>10 DEF BytesInOrder, StartUpLosesNothing
<1>4. CASE ~arst("usb")' /\ up("tx_async")
  <2>1. ~arst("tx_async") /\ ~arst("tx_async")'
    BY <1>4, ReleasedNext DEF Locks, up, Stages, Domains
  <2>2. up("tx_async")'
    <3>1. in_edges \in 0..3
      BY <1>1, EdgeStep
    <3> QED
      BY <1>4, <2>1, <3>1, ReleasedNext DEF up, Stages
  <2> DEFINE new == IF Writes THEN <<sent + 1>> ELSE <<>>
             kept == IF Moves THEN Tail(inner) ELSE inner
  <2>3. inner' = kept \o new /\ sent' = sent + (IF Writes THEN 1 ELSE 0)
    BY <1>1, <1>4 DEF ByteFifo
  <2>4. register' = IF Moves THEN <<Head(inner)>> ELSE IF in_edges > 0 THEN <<>> ELSE register
    <3>1. register' = IF Moves THEN <<Head(inner)>> ELSE IF edges["tx_async"] > 0 THEN <<>> ELSE register
      BY <1>1, <1>4, <2>1 DEF ByteFifo
    <3> QED
      BY <3>1 DEF edges
  <2>5. delivered' = IF in_edges > 0 THEN delivered \o register ELSE delivered
    <3>1. Runs("tx_async") <=> in_edges > 0
      BY <1>4, <2>1 DEF Runs, edges
    <3> QED
      BY <1>1, <1>4, <3>1 DEF ByteFifo
  <2>6. /\ sent \in Nat /\ delivered \in Seq(Nat) /\ register \in Seq(Nat) /\ inner \in Seq(Nat)
        /\ (delivered \o register) \o inner = [k \in 1..sent |-> k]
    BY DEF BytesInOrder, StartUpLosesNothing
  <2>7. new \in Seq(Nat) /\ kept \in Seq(Nat)
    <3>1. <<sent + 1>> \in Seq(Nat) /\ <<>> \in Seq(Nat)
      BY <2>6
    <3>2. Moves => Tail(inner) \in Seq(Nat)
      BY <2>6, HeadTailProperties DEF Moves
    <3> QED
      BY <2>6, <3>1, <3>2
  <2>8. register' \in Seq(Nat) /\ delivered' \in Seq(Nat) /\ inner' \in Seq(Nat) /\ sent' \in Nat
    <3>1. Moves => Head(inner) \in Nat
      BY <2>6, HeadTailProperties DEF Moves
    <3>2. register' \in Seq(Nat)
      BY <2>4, <2>6, <3>1
    <3>3. delivered' \in Seq(Nat)
      BY <2>5, <2>6, ConcatProperties
    <3>4. inner' \in Seq(Nat)
      BY <2>3, <2>7, ConcatProperties
    <3> QED
      BY <2>3, <2>6, <3>2, <3>3, <3>4
  <2>9. (delivered' \o register') \o kept = (delivered \o register) \o inner
    <3>1. Associates(Nat)
      BY SeqsAssociate
    <3>2. CASE in_edges > 0 /\ Moves
      <4>1. inner = <<Head(inner)>> \o Tail(inner) /\ <<Head(inner)>> \in Seq(Nat) /\ Tail(inner) \in Seq(Nat)
        BY <2>6, <3>2, HeadTailProperties DEF Moves
      <4>2. PICK x, y, z : x = delivered \o register /\ y = <<Head(inner)>> /\ z = Tail(inner)
        OBVIOUS
      <4>3. x \in Seq(Nat) /\ y \in Seq(Nat) /\ z \in Seq(Nat) /\ inner = y \o z
        BY <2>6, <4>1, <4>2, ConcatProperties
      <4>4. (x \o y) \o z = x \o (y \o z)
        BY <3>1, <4>3, Zenon DEF Associates
      <4> QED
        BY <2>4, <2>5, <3>2, <4>2, <4>3, <4>4
    <3>3. CASE in_edges > 0 /\ ~Moves
      <4>1. inner = <<>> /\ register' = <<>> /\ delivered' = delivered \o register /\ kept = inner
        BY <2>4, <2>5, <3>3 DEF Moves, edges
      <4>2. delivered \o register \in Seq(Nat)
        BY <2>6, ConcatProperties
      <4>3. (delivered \o register) \o <<>> = delivered \o register
        BY <4>2, ConcatEmptySeq
      <4> QED
        BY <4>1, <4>3
    <3>4. CASE ~(in_edges > 0)
      BY <2>4, <2>5, <3>4 DEF Moves, edges
    <3> QED
      BY <3>2, <3>3, <3>4
  <2>10. (delivered' \o register') \o inner' = ((delivered \o register) \o inner) \o new
    <3>1. Associates(Nat)
      BY SeqsAssociate
    <3>2. PICK x, y, z : x = delivered' \o register' /\ y = kept /\ z = new
      OBVIOUS
    <3>3. x \in Seq(Nat) /\ y \in Seq(Nat) /\ z \in Seq(Nat)
      BY <2>7, <2>8, <3>2, ConcatProperties
    <3>4. (x \o y) \o z = x \o (y \o z)
      BY <3>1, <3>3, Zenon DEF Associates
    <3> QED
      BY <2>3, <2>9, <3>2, <3>4
  <2>11. PICK s \in Seq(Nat) : s = (delivered \o register) \o inner
    BY <2>6, ConcatProperties
  <2>12. s \o new = [k \in 1..sent' |-> k]
    <3>1. CASE Writes
      BY <2>3, <2>6, <2>11, <3>1, NextNumber
    <3>2. CASE ~Writes
      <4>1. s \o <<>> = s /\ sent' = sent
        BY <2>3, <2>6, <2>11, <3>2, ConcatEmptySeq
      <4> QED
        BY <2>6, <2>11, <3>2, <4>1
    <3> QED
      BY <3>1, <3>2
  <2> QED
    BY <2>2, <2>8, <2>10, <2>11, <2>12 DEF BytesInOrder, StartUpLosesNothing
<1> QED
  BY <1>2, <1>3, <1>4

\* The inductive invariant of the loopback.
StartUp == Locks /\ Timing /\ Paced /\ BytesInOrder /\ usb_next \in BOOLEAN

\* All are in reset.
LEMMA StartUpInit == LoopbackInit => StartUp
<1> SUFFICES ASSUME LoopbackInit PROVE StartUp
  OBVIOUS
<1>1. Locks /\ usb_next \in BOOLEAN
  BY LocksInit DEF LoopbackInit
<1>2. Timing
  BY DEF LoopbackInit, ResamplerInit, Timing
<1>3. released["usb"] = 0 /\ released["tx_async"] = 0
  BY DEF LoopbackInit, ResamplerInit, ClocksInit, Domains
<1>4. Waited = 0
  BY <1>3 DEF Waited
<1>5. PICK n \in Nat \ {0}, d \in Nat \ {0} : n = rate[1] /\ d = rate[2]
  BY <1>2, RatesNear
<1>6. Phase \in Nat /\ 0 * d = 0 /\ 0 * n = 0
  BY <1>2, <1>5 DEF Phase, Timing
<1>7. Paced
  BY <1>3, <1>4, <1>5, <1>6 DEF Paced
<1>8. Empty(sent, delivered, register, inner)
  BY DEF LoopbackInit, Empty
<1>9. BytesInOrder
  BY <1>8, NoneNumbered DEF BytesInOrder, StartUpLosesNothing
<1> QED
  BY <1>1, <1>2, <1>7, <1>9 DEF StartUp

\* Every step keeps it.
LEMMA StartUpNext == StartUp /\ [LoopbackNext]_allVars => StartUp'
<1> SUFFICES ASSUME StartUp, [LoopbackNext]_allVars PROVE StartUp'
  OBVIOUS
<1>1. CASE LoopbackNext
  <2>1. Clocks(edges) /\ Resample /\ usb_next' \in BOOLEAN
    BY <1>1 DEF LoopbackNext, StartUp
  <2>2. Locks'
    BY <2>1, EdgesAreNatural, LocksNext DEF StartUp
  <2> QED
    BY <1>1, <2>1, <2>2, CreditStep, PacedNext, BytesNext DEF StartUp
<1>2. CASE UNCHANGED allVars
  <2>1. /\ UNCHANGED <<pll, mmcm, pll2, released, rate, credit, usb_next>>
        /\ UNCHANGED <<sent, inner, register, delivered>>
    BY <1>2 DEF allVars, clockVars, resamplerVars, fifoVars, byteVars
  <2>2. Locks' /\ Timing'
    BY <2>1 DEF StartUp, Locks, Timing, arst, fabric_locked
  <2>3. Paced' /\ BytesInOrder' /\ usb_next' \in BOOLEAN
    BY <2>1 DEF StartUp, Paced, Phase, Waited, up, BytesInOrder, StartUpLosesNothing
  <2> QED
    BY <2>2, <2>3 DEF StartUp
<1> QED
  BY <1>1, <1>2

\* It holds at any time.
LEMMA StartUpHolds == LoopbackSpec => []StartUp
  BY StartUpInit, StartUpNext, PTL DEF LoopbackSpec

(* No domain runs before all the locks in front of it. *)
THEOREM DomainsRunLocked == LoopbackSpec => []RunsLocked
<1>1. StartUp => RunsLocked
  BY LocksRun DEF StartUp
<1> QED
  BY <1>1, StartUpHolds, PTL

(* No byte is lost between the usb and the tx_async domain, whenever either of
   them comes up or goes down, for any tx_async clock from two thirds to
   twice the rx_cdr one. *)
THEOREM NothingLostAtStartUp == LoopbackSpec => []StartUpLosesNothing
<1>1. StartUp => StartUpLosesNothing
  BY DEF StartUp, BytesInOrder
<1> QED
  BY <1>1, StartUpHolds, PTL

-----------------------------------------------------------------------------
(* The resampler.  The reader's clock makes d cycles while the writer's makes n. *)

\* The numbers of sim/expander.py, and what is assumed of its FIFO: six entries
\* may be in it or on their way.
AsBuilt ==
  /\ W = 16 /\ BUF = 96 /\ TARGET = 96 /\ HYST = 24 /\ HOLDOFF = 8
  /\ MinLag = 3 /\ MaxLag = 4 /\ MaxUnseen \in Nat /\ Depth >= MaxUnseen + 7

\* One step in eight cycles, and one cycle late, makes up for this much.
Near(n, d) == n \in Nat \ {0} /\ d \in Nat \ {0} /\ 144 * (n - d) <= d /\ 144 * (d - n) <= d

\* So near are all the clocks the resampler is meant for.
CloseRates == \A r \in Rates : Near(r[1], r[2])

\* What was written and is not visible yet, in 1/d of half an entry.
Lag(d) == credit + 2 * d * Len(flying)

\* An entry of age a was written a - 1 to a cycles ago.
AgesFit(s, c, n, d) ==
  \A i \in 1..Len(s) : /\ (s[i] - 1) * n <= c + 2 * d * (Len(s) - i)
                       /\ c + 2 * d * (Len(s) - i) < s[i] * n

\* All entries grow older, the first k become visible.
LEMMA OlderFits ==
  ASSUME NEW n \in Nat, NEW d \in Nat, NEW c \in Nat, NEW s \in Seq(1..4), NEW k \in 0..Len(s),
         NEW t \in Seq(1..4), t = [i \in 1..(Len(s) - k) |-> s[i + k] + 1], AgesFit(s, c, n, d)
  PROVE  AgesFit(t, c + n, n, d)
<1>1. Len(s) \in Nat /\ k \in Nat /\ k <= Len(s) /\ Len(t) = Len(s) - k
  OBVIOUS
<1>2. ASSUME NEW i \in 1..Len(t)
      PROVE  /\ (t[i] - 1) * n <= (c + n) + 2 * d * (Len(t) - i)
             /\ (c + n) + 2 * d * (Len(t) - i) < t[i] * n
  <2>1. PICK j \in 1..Len(s) : j = i + k
    BY <1>1
  <2>2. PICK a \in 1..4 : a = s[j]
    OBVIOUS
  <2>3. t[i] = a + 1
    BY <1>1, <2>1, <2>2
  <2>a. Len(s) - j \in Nat
    BY <1>1, <2>1
  <2>b. Len(s) - j = Len(t) - i
    BY <1>1, <2>1
  <2>4. PICK m \in Nat : m = Len(s) - j /\ m = Len(t) - i
    BY <2>a, <2>b
  <2>5. (a - 1) * n <= c + 2 * d * m /\ c + 2 * d * m < a * n
    BY <2>1, <2>2, <2>4 DEF AgesFit
  <2>6. ((a + 1) - 1) * n = (a - 1) * n + n /\ (a + 1) * n = a * n + n
    BY <2>2
  <2>7. PICK x \in Int, y \in Int, z \in Int : x = (a - 1) * n /\ y = a * n /\ z = 2 * d * m
    BY <2>2, <2>4
  <2>8. x <= c + z /\ c + z < y
    BY <2>5, <2>7
  <2>9. ((a + 1) - 1) * n <= (c + n) + 2 * d * m /\ (c + n) + 2 * d * m < (a + 1) * n
    BY <2>6, <2>7, <2>8
  <2> QED
    BY <2>3, <2>4, <2>9
<1> QED
  BY <1>2 DEF AgesFit

\* An entry is written.
LEMMA NewFits ==
  ASSUME NEW n \in Nat, NEW d \in Nat, NEW c \in Nat, NEW s \in Seq(1..4),
         2 * d <= c, c < 2 * d + n, AgesFit(s, c, n, d)
  PROVE  AgesFit(Append(s, 1), c - 2 * d, n, d)
<1>0. 1 \in 1..4
  OBVIOUS
<1>1. PICK t \in Seq(1..4) : t = Append(s, 1)
  BY <1>0, AppendProperties
<1>2. /\ Len(s) \in Nat /\ Len(t) = Len(s) + 1 /\ t[Len(s) + 1] = 1
      /\ \A i \in 1..Len(s) : t[i] = s[i]
  BY <1>1, AppendProperties
<1>3. ASSUME NEW i \in 1..Len(t)
      PROVE  /\ (t[i] - 1) * n <= (c - 2 * d) + 2 * d * (Len(t) - i)
             /\ (c - 2 * d) + 2 * d * (Len(t) - i) < t[i] * n
  <2>1. CASE i = Len(s) + 1
    <3>1. t[i] = 1 /\ Len(t) - i = 0
      BY <1>2, <2>1
    <3>2. (1 - 1) * n = 0 /\ 1 * n = n /\ 2 * d * 0 = 0
      OBVIOUS
    <3> QED
      BY <3>1, <3>2
  <2>2. CASE i # Len(s) + 1
    <3>1. i \in 1..Len(s) /\ t[i] = s[i]
      BY <1>2, <2>2
    <3>a. s[i] \in 1..4 /\ Len(s) - i \in Nat
      BY <1>2, <3>1
    <3>2. PICK a \in 1..4, m \in Nat : a = s[i] /\ m = Len(s) - i
      BY <3>a
    <3>3. (a - 1) * n <= c + 2 * d * m /\ c + 2 * d * m < a * n
      BY <3>1, <3>2 DEF AgesFit
    <3>4. Len(t) - i = m + 1
      BY <1>2, <3>2
    <3>5. 2 * d * (m + 1) = 2 * d * m + 2 * d
      BY <3>2
    <3>6. PICK z \in Int, u \in Int : z = 2 * d * m /\ u = 2 * d
      BY <3>2
    <3>7. (a - 1) * n <= (c - u) + (z + u) /\ (c - u) + (z + u) < a * n
      BY <3>2, <3>3, <3>6
    <3> QED
      BY <3>1, <3>2, <3>4, <3>5, <3>6, <3>7
  <2> QED
    BY <2>1, <2>2
<1> QED
  BY <1>1, <1>3 DEF AgesFit

\* The FIFO while its writer runs.
Flight(n, d) ==
  /\ credit \in 0..(2 * d - 1) /\ visible \in Nat /\ flying \in Seq(1..4) /\ ~overflow
  /\ AgesFit(flying, credit, n, d)

\* The entries the reader takes out of the FIFO in a step.
Popped == IF pop THEN 1 ELSE 0

\* k entries become visible in a step.
Shows(n, d, k) ==
  /\ visible' = visible + k - Popped
  /\ Lag(d)' = Lag(d) + n - 2 * d * k
  /\ k > 0 => Lag(d)' >= 3 * n
  /\ n <= d => k <= 1

\* Nothing is on its way for more than four cycles.
LEMMA LagBelow ==
  ASSUME NEW n, NEW d, Near(n, d), Flight(n, d)
  PROVE  Lag(d) \in Nat /\ Lag(d) < 2 * d + 4 * n
<1>1. n \in Nat \ {0} /\ d \in Nat \ {0}
  BY DEF Near
<1>2. PICK N \in Nat : N = Len(flying)
  BY DEF Flight
<1>3. credit \in Nat /\ credit < 2 * d
  BY <1>1 DEF Flight
<1>4. Lag(d) = credit + 2 * d * N
  BY <1>2 DEF Lag
<1>5. CASE N = 0
  <2>1. 2 * d * N = 0
    BY <1>1, <1>5
  <2> QED
    BY <1>1, <1>3, <1>4, <2>1
<1>6. CASE N # 0
  <2>1. 1 \in 1..Len(flying) /\ flying[1] \in 1..4
    BY <1>2, <1>6 DEF Flight
  <2>2. credit + 2 * d * (Len(flying) - 1) < flying[1] * n
    BY <2>1 DEF Flight, AgesFit
  <2>3. PICK a \in 1..4 : a = flying[1]
    BY <2>1
  <2>4. credit + 2 * d * (N - 1) < a * n
    BY <1>2, <2>2, <2>3
  <2>5. a * n <= 4 * n
    BY <1>1, <2>3
  <2>6. 2 * d * (N - 1) = 2 * d * N - 2 * d
    BY <1>1, <1>2
  <2>7. PICK x \in Nat, y \in Int : x = 2 * d * N /\ y = a * n
    BY <1>1, <1>2, <2>3
  <2>8. Lag(d) = credit + x /\ credit + (x - 2 * d) < y /\ y <= 4 * n
    BY <1>4, <2>4, <2>5, <2>6, <2>7
  <2> QED
    BY <1>1, <1>3, <2>7, <2>8
<1> QED
  BY <1>5, <1>6

\* A step of the FIFO that has room.
LEMMA FlightFifo ==
  ASSUME AsBuilt, NEW n, NEW d, Near(n, d), rate[1] = n, rate[2] = d,
         Flight(n, d), Fifo, credit + n >= 2 * d => Len(flying) + visible <= 6
  PROVE  Flight(n, d)' /\ \E k \in 0..2 : Shows(n, d, k)
<1>1. n \in Nat \ {0} /\ d \in Nat \ {0} /\ n < 2 * d /\ 144 * (n - d) <= d
  BY DEF Near
<1>2. credit \in Nat /\ credit < 2 * d /\ flying \in Seq(1..4) /\ visible \in Nat /\ ~overflow
      /\ Len(flying) \in Nat
  BY <1>1 DEF Flight
<1>3. PICK due \in BOOLEAN : due <=> credit + n >= 2 * d
  OBVIOUS
<1>4. PICK k \in 0..Len(flying), unseen \in 0..MaxUnseen :
        LET full == Len(flying) + visible + unseen >= Depth
        IN  /\ MayShow(k)
            /\ credit' = credit + n - (IF due THEN 2 * d ELSE 0)
            /\ visible' = visible + k - (IF pop THEN 1 ELSE 0)
            /\ flying' = IF due /\ ~full THEN Append(Older(k), 1) ELSE Older(k)
            /\ overflow' = (overflow \/ (due /\ full))
  BY <1>3 DEF Fifo
<1>5. due => ~(Len(flying) + visible + unseen >= Depth)
  <2>1. unseen \in Nat /\ unseen <= MaxUnseen /\ MaxUnseen \in Nat /\ Depth \in Nat /\ Depth >= MaxUnseen + 7
    BY <1>4, BufferAssumption DEF AsBuilt
  <2> QED
    BY <1>2, <1>3, <2>1
<1>6. /\ credit' = credit + n - (IF due THEN 2 * d ELSE 0)
      /\ visible' = visible + k - Popped
      /\ flying' = IF due THEN Append(Older(k), 1) ELSE Older(k)
      /\ ~overflow'
  BY <1>2, <1>4, <1>5 DEF Popped
<1>7. PICK t : t = [i \in 1..(Len(flying) - k) |-> flying[i + k] + 1]
  OBVIOUS
<1>8. k \in Nat /\ k <= Len(flying)
  BY <1>2, <1>4
<1>9. t \in Seq(1..4) /\ Len(t) = Len(flying) - k
  <2>1. \A i \in 1..(Len(flying) - k) : i + k \in (k + 1)..Len(flying) /\ i + k \in 1..Len(flying)
    BY <1>2, <1>8
  <2>2. \A i \in (k + 1)..Len(flying) : flying[i] < 4
    BY <1>4 DEF MayShow, AsBuilt
  <2>3. \A i \in 1..Len(flying) : flying[i] \in 1..4
    BY <1>2
  <2>4. \A i \in 1..(Len(flying) - k) : flying[i + k] + 1 \in 1..4
    <3> TAKE i \in 1..(Len(flying) - k)
    <3>1. PICK a \in 1..4 : a = flying[i + k] /\ a < 4
      BY <2>1, <2>2, <2>3
    <3> QED
      BY <3>1
  <2>5. Len(flying) - k \in Nat
    BY <1>2, <1>8
  <2> QED
    BY <1>7, <2>4, <2>5
<1>10. AgesFit(t, credit + n, n, d)
  BY <1>1, <1>2, <1>4, <1>7, <1>9, OlderFits DEF Flight
<1>11. Older(k) = t
  BY <1>7 DEF Older
<1>a. Len(t) \in Nat /\ credit + n \in Nat
  BY <1>1, <1>2, <1>8, <1>9
<1>12. PICK N \in Nat, c \in Nat : N = Len(t) /\ c = credit + n
  BY <1>a
<1>13. AgesFit(t, c, n, d)
  BY <1>10, <1>12
<1>14. /\ credit' \in 0..(2 * d - 1) /\ flying' \in Seq(1..4) /\ AgesFit(flying', credit', n, d)
       /\ Lag(d)' = c + 2 * d * N
  <2>1. CASE due
    <3>1. credit' = c - 2 * d /\ flying' = Append(t, 1) /\ 2 * d <= c /\ c < 2 * d + n
      BY <1>1, <1>2, <1>3, <1>6, <1>11, <1>12, <2>1
    <3>2. AgesFit(Append(t, 1), c - 2 * d, n, d)
      BY <1>1, <1>9, <1>12, <1>13, <3>1, NewFits
    <3>3. 1 \in 1..4
      OBVIOUS
    <3>4. Append(t, 1) \in Seq(1..4) /\ Len(Append(t, 1)) = N + 1
      BY <1>9, <1>12, <3>3, AppendProperties
    <3>5. 2 * d * (N + 1) = 2 * d * N + 2 * d
      BY <1>1, <1>12
    <3>6. Lag(d)' = (c - 2 * d) + 2 * d * (N + 1)
      BY <3>1, <3>4 DEF Lag
    <3>7. PICK x \in Nat : x = 2 * d * N
      BY <1>1, <1>12
    <3>8. Lag(d)' = (c - 2 * d) + (x + 2 * d)
      BY <3>5, <3>6, <3>7
    <3>9. Lag(d)' = c + x
      BY <1>1, <1>12, <3>7, <3>8
    <3>10. credit' \in 0..(2 * d - 1)
      BY <1>1, <1>12, <3>1
    <3> QED
      BY <3>1, <3>2, <3>4, <3>7, <3>9, <3>10
  <2>2. CASE ~due
    <3>1. credit' = c /\ flying' = t /\ c < 2 * d
      BY <1>1, <1>2, <1>3, <1>6, <1>11, <1>12, <2>2
    <3>2. Lag(d)' = c + 2 * d * N
      BY <1>12, <3>1 DEF Lag
    <3>3. credit' \in 0..(2 * d - 1)
      BY <1>1, <1>12, <3>1
    <3> QED
      BY <1>9, <1>13, <3>1, <3>2, <3>3
  <2> QED
    BY <2>1, <2>2
<1>15. Lag(d)' = Lag(d) + n - 2 * d * k
  <2>1. PICK M \in Nat : M = Len(flying)
    BY <1>2
  <2>2. N = M - k
    BY <1>9, <1>12, <2>1
  <2>3. 2 * d * (M - k) = 2 * d * M - 2 * d * k
    BY <1>1, <1>8, <2>1
  <2>4. PICK x \in Int, y \in Int : x = 2 * d * M /\ y = 2 * d * k
    BY <1>1, <1>8, <2>1
  <2>5. Lag(d) = credit + x
    BY <2>1, <2>4 DEF Lag
  <2>6. Lag(d)' = c + (x - y)
    BY <1>14, <2>2, <2>3, <2>4
  <2> QED
    BY <1>1, <1>2, <1>12, <2>4, <2>5, <2>6
<1>16. visible' \in Nat
  BY <1>2, <1>6, <1>8 DEF Popped, pop
<1>17. Flight(n, d)'
  BY <1>6, <1>14, <1>16 DEF Flight
<1>18. ASSUME k > 0 PROVE Lag(d)' >= 3 * n
  <2>1. k \in 1..Len(flying)
    BY <1>2, <1>8, <1>18
  <2>2. flying[k] >= 3 /\ flying[k] \in 1..4
    <3>1. flying[k] \in 1..4
      BY <1>2, <2>1
    <3>2. k \in 1..k
      BY <1>8, <1>18
    <3> QED
      BY <1>4, <3>1, <3>2 DEF MayShow, AsBuilt
  <2>3. (flying[k] - 1) * n <= credit + 2 * d * (Len(flying) - k)
    BY <2>1 DEF Flight, AgesFit
  <2>4. PICK a \in 3..4 : a = flying[k]
    BY <2>2
  <2>5. (a - 1) * n <= credit + 2 * d * N
    BY <1>9, <1>12, <2>3, <2>4
  <2>6. 2 * n <= (a - 1) * n
    BY <1>1, <2>4
  <2>7. PICK x \in Nat, y \in Int : x = 2 * d * N /\ y = (a - 1) * n
    BY <1>1, <1>12, <2>4
  <2>8. y <= credit + x /\ 2 * n <= y /\ Lag(d)' = c + x
    BY <1>14, <2>5, <2>6, <2>7
  <2> QED
    BY <1>1, <1>2, <1>12, <2>7, <2>8
<1>19. k <= 2 /\ (n <= d => k <= 1)
  <2>1. CASE k = 0
    BY <2>1
  <2>2. CASE k # 0
    <3>1. Lag(d)' >= 3 * n
      BY <1>8, <1>18, <2>2
    <3>2. Lag(d) < 2 * d + 4 * n /\ Lag(d) \in Nat
      BY LagBelow
    <3>3. PICK x \in Int, y \in Int : x = Lag(d) /\ y = 2 * d * k
      BY <1>1, <1>8, <3>2
    <3>4. x + n - y >= 3 * n /\ x < 2 * d + 4 * n
      BY <1>15, <3>1, <3>2, <3>3
    <3>5. y < 2 * d + 2 * n
      BY <1>1, <3>3, <3>4
    <3>6. k >= 3 => y >= 2 * d * 3
      BY <1>1, <1>8, <3>3
    <3>7. k >= 2 => y >= 2 * d * 2
      BY <1>1, <1>8, <3>3
    <3>8. ~(k >= 3)
      BY <1>1, <3>5, <3>6
    <3>9. n <= d => ~(k >= 2)
      BY <1>1, <3>5, <3>7
    <3> QED
      BY <1>8, <3>8, <3>9
  <2> QED
    BY <2>1, <2>2
<1> QED
  BY <1>6, <1>8, <1>15, <1>17, <1>18, <1>19 DEF Shows

\* What the reader can get at, and all there is of the writer's, in 1/d of a sample.
Backlog == fill + 32 * visible
Samples(d) == d * Backlog + 16 * Lag(d)

\* How fast the samples gain on the reader, in a cycle.
Drift(n, d) == 16 * (n - d)

\* The samples when the step that was decided has been made.
Corrected(d) == Samples(d) - (IF drop THEN d ELSE 0) + (IF dup THEN d ELSE 0)

\* A step is eight cycles after the last one.
Pace ==
  /\ fill \in 24..96 /\ total \in Nat /\ holdoff \in 0..7 /\ since \in 1..8
  /\ drop \in BOOLEAN /\ dup \in BOOLEAN /\ ~(drop /\ dup)
  /\ drop \/ dup <=> holdoff = 7
  /\ holdoff = 7 => since = 8
  /\ holdoff \in 1..6 => since = 7 - holdoff
  /\ holdoff = 0 => since \in {7, 8}

\* What total, from a cycle ago, says of the samples, when a step may be decided.
Seen(n, d) ==
  holdoff = 0 =>
    /\ (Backlog - total) % 16 = 0 /\ Backlog >= total - 16
    /\ d * total + 48 * n + Drift(n, d) <= Samples(d)
    /\ \/ Samples(d) < d * total + 32 * d + 64 * n + Drift(n, d)
       \/ total >= 96 /\ Samples(d) < 96 * d + 112 * n

\* Drops keep up with a fast writer, and nothing else makes the samples more.
Upper(n, d) ==
  IF n > d THEN Corrected(d) + Drift(n, d) * holdoff <= 152 * d + 64 * n + 2 * Drift(n, d)
  ELSE Corrected(d) < 96 * d + 112 * n

\* No dup was due in this cycle and in the last one.
Late == holdoff = 0 /\ since = 8

\* Dups keep up with a slow writer: of two totals in a row one is not of an entry just come.
Lower(n, d) ==
  IF n >= d THEN Corrected(d) >= 96 * d + 48 * n
  ELSE
    /\ holdoff = 0 => \/ Backlog = total - 16 /\ Lag(d) >= 4 * n
                      \/ Backlog = total + 16
                      \/ Backlog >= total /\ total >= 96
    /\ Late /\ total > 72 => Samples(d) >= 73 * d + 64 * n + Drift(n, d)
    /\ Corrected(d) + (IF Late THEN 0 ELSE Drift(n, d) * (holdoff + 1))
         >= 73 * d + 64 * n + 2 * Drift(n, d)

\* At the last dup the backlog was b, and what was more on its way has come down since.
Below(n, d, bound) ==
  \E b \in Int : b <= bound /\ (Backlog - b) % 16 = 0 /\ Samples(d) < (b + 32) * d + 64 * n
Slow(n, d) ==
  n < d =>
    /\ dup => Below(n, d, 72)
    /\ last = "dup" => ~drop /\ total <= 105 /\ Below(n, d, 73)

\* The same for drops, in 1/n of a sample.
Above(n, d, bound) ==
  \E b \in Int : b >= bound /\ (Backlog - b) % 16 = 0 /\ n * Backlog + 16 * Lag(d) >= (b + 48) * n
Fast(n, d) ==
  n > d =>
    /\ drop => Above(n, d, 120)
    /\ last = "drop" => ~dup /\ total >= 87 /\ Above(n, d, 119)

\* The reader runs.
Settled(n, d) == Pace /\ Seen(n, d) /\ Upper(n, d) /\ Lower(n, d) /\ Slow(n, d) /\ Fast(n, d)

\* A cycle of the running reader, in which k entries become visible.
Reads(n, d, k) ==
  /\ k \in 0..2 /\ (n <= d => k <= 1)
  /\ Lag(d) \in Nat /\ 3 * n <= Lag(d) /\ Lag(d) < 2 * d + 4 * n
  /\ Lag(d)' = Lag(d) + n - 2 * d * k
  /\ Backlog \in Nat /\ total' = Backlog
  /\ Backlog' = Backlog + 32 * k - 16 - (IF drop THEN 1 ELSE 0) + (IF dup THEN 1 ELSE 0)
  /\ since' = IF drop \/ dup THEN 1 ELSE IF since < 8 THEN since + 1 ELSE since
  /\ last' = IF drop THEN "drop" ELSE IF dup THEN "dup" ELSE last

\* What is decided in a cycle.
Drops == holdoff = 0 /\ total >= 120 /\ drop' = TRUE /\ dup' = FALSE /\ holdoff' = 7
Dups == holdoff = 0 /\ total <= 72 /\ drop' = FALSE /\ dup' = TRUE /\ holdoff' = 7
Rests == holdoff = 0 /\ total > 72 /\ total < 120 /\ drop' = FALSE /\ dup' = FALSE /\ holdoff' = 0
HeldOff == holdoff > 0 /\ drop' = FALSE /\ dup' = FALSE /\ holdoff' = holdoff - 1
Decided == Drops \/ Dups \/ Rests \/ HeldOff

\* There is no other decision.
LEMMA Decision ==
  ASSUME AsBuilt, Pace, running, Read
  PROVE  Decided
<1>1. /\ drop' = drop_next /\ dup' = dup_next /\ holdoff' = next_holdoff
      /\ holdoff \in 0..7 /\ total \in Nat
  BY DEF Read, Pace
<1>2. /\ drop_next \in BOOLEAN /\ (drop_next <=> holdoff = 0 /\ total >= 120)
      /\ dup_next \in BOOLEAN /\ (dup_next <=> holdoff = 0 /\ total <= 72)
  BY <1>1 DEF AsBuilt, drop_next, dup_next, armed
<1>3. CASE holdoff = 0 /\ total >= 120
  <2>1. drop_next = TRUE /\ dup_next = FALSE
    BY <1>1, <1>2, <1>3
  <2>2. next_holdoff = 7
    BY <2>1 DEF next_holdoff, AsBuilt
  <2> QED
    BY <1>1, <1>3, <2>1, <2>2 DEF Decided, Drops
<1>4. CASE holdoff = 0 /\ total <= 72
  <2>1. drop_next = FALSE /\ dup_next = TRUE
    BY <1>1, <1>2, <1>4
  <2>2. next_holdoff = 7
    BY <2>1 DEF next_holdoff, AsBuilt
  <2> QED
    BY <1>1, <1>4, <2>1, <2>2 DEF Decided, Dups
<1>5. CASE holdoff = 0 /\ total > 72 /\ total < 120
  <2>1. drop_next = FALSE /\ dup_next = FALSE
    BY <1>1, <1>2, <1>5
  <2>2. next_holdoff = 0
    BY <1>5, <2>1 DEF next_holdoff, armed
  <2> QED
    BY <1>1, <1>5, <2>1, <2>2 DEF Decided, Rests
<1>6. CASE holdoff > 0
  <2>1. drop_next = FALSE /\ dup_next = FALSE
    BY <1>1, <1>2, <1>6
  <2>2. next_holdoff = holdoff - 1
    BY <1>1, <1>6, <2>1 DEF next_holdoff, armed
  <2> QED
    BY <1>1, <1>6, <2>1, <2>2 DEF Decided, HeldOff
<1> QED
  BY <1>1, <1>3, <1>4, <1>5, <1>6

\* The samples gain by the drift and by the step made.
LEMMA SamplesNext ==
  ASSUME NEW n, NEW d, Near(n, d), NEW k, Reads(n, d, k), Pace
  PROVE  /\ Samples(d) \in Int /\ Corrected(d) \in Int /\ Samples(d)' \in Int /\ Drift(n, d) \in Int
         /\ Samples(d)' = Corrected(d) + Drift(n, d)
<1>1. n \in Nat \ {0} /\ d \in Nat \ {0}
  BY DEF Near
<1>2. PICK B \in Int, L \in Int : B = Backlog /\ L = Lag(d)
  BY DEF Reads
<1>3. k \in Int
  BY DEF Reads
<1>4. PICK c \in Int : /\ c = 16 + (IF drop THEN 1 ELSE 0) - (IF dup THEN 1 ELSE 0)
                       /\ Corrected(d) = Samples(d) - (c - 16) * d
  <2>1. CASE drop
    <3>1. ~dup
      BY <2>1 DEF Pace
    <3>2. Samples(d) \in Int
      BY <1>1, <1>2 DEF Samples
    <3>3. Corrected(d) = Samples(d) - (17 - 16) * d
      BY <1>1, <2>1, <3>1, <3>2 DEF Corrected
    <3> QED
      BY <2>1, <3>1, <3>3
  <2>2. CASE ~drop
    <3>1. Samples(d) \in Int
      BY <1>1, <1>2 DEF Samples
    <3>2. CASE dup
      <4>1. Corrected(d) = Samples(d) - (15 - 16) * d
        BY <1>1, <2>2, <3>1, <3>2 DEF Corrected
      <4> QED
        BY <2>2, <3>2, <4>1
    <3>3. CASE ~dup
      <4>1. Corrected(d) = Samples(d) - (16 - 16) * d
        BY <1>1, <2>2, <3>1, <3>3 DEF Corrected
      <4> QED
        BY <2>2, <3>3, <4>1
    <3> QED
      BY <3>2, <3>3
  <2> QED
    BY <2>1, <2>2
<1>5. Backlog' = B + 32 * k - c
  <2>1. CASE drop
    BY <1>2, <1>3, <1>4, <2>1 DEF Reads
  <2>2. CASE ~drop
    BY <1>2, <1>3, <1>4, <2>2 DEF Reads
  <2> QED
    BY <2>1, <2>2
<1>6. Lag(d)' = L + n - 2 * d * k
  BY <1>2 DEF Reads
<1>7. Samples(d) = d * B + 16 * L
  BY <1>2 DEF Samples
<1>8. Samples(d)' = d * (B + 32 * k - c) + 16 * (L + n - 2 * d * k)
  BY <1>5, <1>6 DEF Samples
<1>9. d * (B + 32 * k - c) + 16 * (L + n - 2 * d * k) = (d * B + 16 * L) - (c - 16) * d + 16 * (n - d)
  BY <1>1, <1>2, <1>3, <1>4
<1>10. Corrected(d) \in Int /\ Samples(d) \in Int /\ Drift(n, d) \in Int
  BY <1>1, <1>2, <1>4, <1>7 DEF Drift
<1>11. Samples(d)' = Corrected(d) + Drift(n, d)
  BY <1>4, <1>7, <1>8, <1>9 DEF Drift
<1> QED
  BY <1>10, <1>11

\* The pace of the steps goes on.
LEMMA PaceNext ==
  ASSUME Pace, Decided, fill' \in 24..96, NEW n, NEW d, NEW k, Reads(n, d, k)
  PROVE  Pace'
<1>0. fill' \in 24..96 /\ total' \in Nat
  BY DEF Reads
<1>1. since' = IF drop \/ dup THEN 1 ELSE IF since < 8 THEN since + 1 ELSE since
  BY DEF Reads
<1>2. CASE holdoff = 0 /\ (Drops \/ Dups \/ Rests)
  <2>1. ~drop /\ ~dup /\ since \in {7, 8}
    BY <1>2 DEF Pace
  <2>2. since' = 8
    BY <1>1, <2>1
  <2>3. drop' \in BOOLEAN /\ dup' \in BOOLEAN /\ ~(drop' /\ dup') /\ holdoff' \in {0, 7}
    BY <1>2 DEF Drops, Dups, Rests
  <2>4. (drop' \/ dup') <=> holdoff' = 7
    BY <1>2 DEF Drops, Dups, Rests
  <2>5. holdoff' \in 0..7 /\ since' \in 1..8
    BY <2>2, <2>3
  <2>6. /\ holdoff' = 7 => since' = 8
        /\ holdoff' \in 1..6 => since' = 7 - holdoff'
        /\ holdoff' = 0 => since' \in {7, 8}
    <3>1. holdoff' = 0 \/ holdoff' = 7
      BY <2>3
    <3>2. since' \in {7, 8}
      BY <2>2
    <3>3. holdoff' = 7 => since' = 8
      BY <2>2
    <3>4. ~(holdoff' \in 1..6)
      BY <3>1
    <3> QED
      BY <3>2, <3>3, <3>4
  <2> QED
    BY <1>0, <2>3, <2>4, <2>5, <2>6 DEF Pace
<1>3. CASE HeldOff
  <2>1. holdoff \in 1..7 /\ holdoff' = holdoff - 1 /\ drop' = FALSE /\ dup' = FALSE
    BY <1>3 DEF Pace, HeldOff
  <2>2. since' = 7 - holdoff'
    <3>1. CASE holdoff = 7
      BY <1>1, <2>1, <3>1 DEF Pace
    <3>2. CASE holdoff # 7
      <4>1. since = 7 - holdoff /\ ~drop /\ ~dup
        BY <2>1, <3>2 DEF Pace
      <4> QED
        BY <1>1, <2>1, <4>1
    <3> QED
      BY <3>1, <3>2
  <2>3. holdoff' \in 0..6
    BY <2>1
  <2>4. ~((drop' \/ dup') \/ holdoff' = 7)
    BY <2>1, <2>3
  <2>5. /\ holdoff' \in 0..7 /\ since' \in 1..8
        /\ holdoff' = 7 => since' = 8
        /\ holdoff' \in 1..6 => since' = 7 - holdoff'
        /\ holdoff' = 0 => since' \in {7, 8}
    <3>1. PICK h \in 0..6 : h = holdoff'
      BY <2>3
    <3>2. since' = 7 - h /\ h # 7
      BY <2>2, <3>1
    <3>3. 7 - h \in 1..8 /\ (h = 0 => 7 - h = 7)
      OBVIOUS
    <3>4. holdoff' \in 0..7
      BY <2>3
    <3>5. since' \in 1..8
      BY <3>2, <3>3
    <3>6. holdoff' = 0 => since' \in {7, 8}
      BY <3>1, <3>2, <3>3
    <3> QED
      BY <2>2, <3>1, <3>2, <3>4, <3>5, <3>6
  <2> QED
    BY <1>0, <2>1, <2>3, <2>4, <2>5 DEF Pace
<1> QED
  BY <1>2, <1>3 DEF Decided, Drops, Dups, Rests

\* Where a step may be decided next, none is under way.
LEMMA NoneUnderWay ==
  ASSUME Pace, Decided, holdoff' = 0, NEW n, NEW d, NEW k, Reads(n, d, k)
  PROVE  ~drop /\ ~dup /\ Backlog' = Backlog + 32 * k - 16
<1>1. ~drop /\ ~dup
  BY DEF Pace, Decided, Drops, Dups, Rests, HeldOff
<1> QED
  BY <1>1 DEF Reads

\* total is the backlog of a cycle ago again.
LEMMA SeenNext ==
  ASSUME NEW n, NEW d, Near(n, d), Pace, Decided, NEW k, Reads(n, d, k)
  PROVE  Seen(n, d)'
<1> SUFFICES ASSUME holdoff' = 0
             PROVE  /\ (Backlog' - total') % 16 = 0 /\ Backlog' >= total' - 16
                    /\ d * total' + 48 * n + Drift(n, d) <= Samples(d)'
                    /\ Samples(d)' < d * total' + 32 * d + 64 * n + Drift(n, d)
  BY DEF Seen
<1>1. ~drop /\ ~dup /\ Backlog' = Backlog + 32 * k - 16
  BY NoneUnderWay
<1>2. n \in Nat \ {0} /\ d \in Nat \ {0} /\ k \in 0..2
  BY DEF Near, Reads
<1>3. PICK B \in Nat, L \in Nat : B = Backlog /\ L = Lag(d)
  BY DEF Reads
<1>4. total' = B /\ 3 * n <= L /\ L < 2 * d + 4 * n
  BY <1>3 DEF Reads
<1>5. Corrected(d) = d * B + 16 * L
  BY <1>1, <1>2, <1>3 DEF Corrected, Samples
<1>6. Samples(d)' = (d * B + 16 * L) + Drift(n, d) /\ Drift(n, d) \in Int
  BY <1>5, SamplesNext
<1>7. PICK x \in Int, e \in Int : x = d * B /\ e = Drift(n, d)
  BY <1>2, <1>3, <1>6
<1>8. Samples(d)' = x + 16 * L + e
  BY <1>6, <1>7
<1>9. d * total' + 48 * n + Drift(n, d) = x + 48 * n + e
  BY <1>4, <1>7
<1>10. d * total' + 32 * d + 64 * n + Drift(n, d) = x + 32 * d + 64 * n + e
  BY <1>4, <1>7
<1>11. x + 48 * n + e <= x + 16 * L + e /\ x + 16 * L + e < x + 32 * d + 64 * n + e
  BY <1>2, <1>4, <1>7
<1>12. (Backlog' - total') % 16 = 0 /\ Backlog' >= total' - 16
  <2>1. Backlog' - total' = 32 * k - 16
    BY <1>1, <1>2, <1>3, <1>4
  <2>2. k = 0 \/ k = 1 \/ k = 2
    BY <1>2
  <2>3. Backlog' - total' = 0 - 16 \/ Backlog' - total' = 16 \/ Backlog' - total' = 48
    BY <2>1, <2>2
  <2>4. (0 - 16) % 16 = 0 /\ 16 % 16 = 0 /\ 48 % 16 = 0
    OBVIOUS
  <2>5. PICK z \in Int : z = Backlog' - total'
    BY <1>1, <1>2, <1>3, <1>4
  <2>6. z % 16 = 0
    BY <2>3, <2>4, <2>5
  <2>7. Backlog' \in Int /\ total' \in Int
    BY <1>1, <1>2, <1>3, <1>4
  <2>8. Backlog' >= total' - 16
    <3>1. B + 32 * k - 16 >= B - 16
      BY <1>2, <1>3
    <3> QED
      BY <1>1, <1>3, <1>4, <3>1
  <2> QED
    BY <2>5, <2>6, <2>8
<1> QED
  BY <1>8, <1>9, <1>10, <1>11, <1>12

\* The samples after each decision.
LEMMA CorrectedNext ==
  ASSUME NEW n, NEW d, Near(n, d), NEW k, Reads(n, d, k), Pace
  PROVE  /\ Drops => Corrected(d) = Samples(d) /\ Corrected(d)' = Samples(d) + Drift(n, d) - d
         /\ Dups => Corrected(d) = Samples(d) /\ Corrected(d)' = Samples(d) + Drift(n, d) + d
         /\ Rests => Corrected(d) = Samples(d) /\ Corrected(d)' = Samples(d) + Drift(n, d)
         /\ HeldOff => Corrected(d)' = Corrected(d) + Drift(n, d)
<1>1. PICK Q \in Int, C \in Int, R \in Int, e \in Int :
        Q = Samples(d) /\ C = Corrected(d) /\ R = Samples(d)' /\ e = Drift(n, d)
  BY SamplesNext
<1>2. R = C + e /\ d \in Nat
  BY <1>1, SamplesNext DEF Near
<1>3. holdoff = 0 => C = Q
  <2>1. holdoff = 0 => ~drop /\ ~dup
    BY DEF Pace
  <2> QED
    BY <1>1, <1>2, <2>1 DEF Corrected
<1>4. CASE Drops
  <2>1. Corrected(d)' = R - d + 0
    BY <1>1, <1>4 DEF Drops, Corrected
  <2>2. ~Dups /\ ~Rests /\ ~HeldOff /\ C = Q
    BY <1>3, <1>4 DEF Drops, Dups, Rests, HeldOff
  <2> QED
    BY <1>1, <1>2, <2>1, <2>2
<1>5. CASE Dups
  <2>1. Corrected(d)' = R - 0 + d
    BY <1>1, <1>5 DEF Dups, Corrected
  <2>2. ~Drops /\ ~Rests /\ ~HeldOff /\ C = Q
    BY <1>3, <1>5 DEF Drops, Dups, Rests, HeldOff
  <2> QED
    BY <1>1, <1>2, <2>1, <2>2
<1>6. CASE Rests
  <2>1. Corrected(d)' = R - 0 + 0
    BY <1>1, <1>6 DEF Rests, Corrected
  <2>2. ~Drops /\ ~Dups /\ ~HeldOff /\ C = Q
    BY <1>3, <1>6 DEF Drops, Dups, Rests, HeldOff
  <2> QED
    BY <1>1, <1>2, <2>1, <2>2
<1>7. CASE HeldOff
  <2>1. Corrected(d)' = R - 0 + 0
    BY <1>1, <1>7 DEF HeldOff, Corrected
  <2>2. ~Drops /\ ~Dups /\ ~Rests
    BY <1>7 DEF Drops, Dups, Rests, HeldOff
  <2> QED
    BY <1>1, <1>2, <2>1, <2>2
<1> QED
  BY <1>4, <1>5, <1>6, <1>7

\* The samples where a step may be decided.
LEMMA SeenBounds ==
  ASSUME NEW n, NEW d, Near(n, d), NEW k, Reads(n, d, k), Pace, Seen(n, d), holdoff = 0
  PROVE  /\ total <= 72 => Samples(d) < 104 * d + 64 * n + Drift(n, d)
         /\ total < 120 => \/ Samples(d) < 151 * d + 64 * n + Drift(n, d)
                           \/ Samples(d) < 96 * d + 112 * n
         /\ total >= 120 => Samples(d) >= 120 * d + 48 * n + Drift(n, d)
<1>1. PICK Q \in Int, e \in Int : Q = Samples(d) /\ e = Drift(n, d)
  BY SamplesNext
<1>2. n \in Nat \ {0} /\ d \in Nat \ {0}
  BY DEF Near
<1>3. PICK t \in Nat : t = total
  BY DEF Pace
<1>4. PICK x \in Int : x = d * t
  BY <1>2, <1>3
<1>5. /\ x + 48 * n + e <= Q
      /\ Q < x + 32 * d + 64 * n + e \/ (t >= 96 /\ Q < 96 * d + 112 * n)
  BY <1>1, <1>3, <1>4 DEF Seen
<1>6. t <= 72 => x <= 72 * d
  BY <1>2, <1>3, <1>4
<1>7. t < 120 => x <= 119 * d
  BY <1>2, <1>3, <1>4
<1>8. t >= 120 => x >= 120 * d
  BY <1>2, <1>3, <1>4
<1>9. /\ t <= 72 => Q < 104 * d + 64 * n + e
      /\ t < 120 => Q < 151 * d + 64 * n + e \/ Q < 96 * d + 112 * n
      /\ t >= 120 => Q >= 120 * d + 48 * n + e
  BY <1>1, <1>2, <1>3, <1>4, <1>5, <1>6, <1>7, <1>8
<1> QED
  BY <1>1, <1>3, <1>9

\* The samples stay below the upper bound.
LEMMA UpperNext ==
  ASSUME NEW n, NEW d, Near(n, d), NEW k, Reads(n, d, k), Pace, Decided, Seen(n, d), Upper(n, d)
  PROVE  Upper(n, d)'
<1>1. PICK Q \in Int, C \in Int, e \in Int : Q = Samples(d) /\ C = Corrected(d) /\ e = Drift(n, d)
  BY SamplesNext
<1>2. /\ n \in Nat \ {0} /\ d \in Nat \ {0} /\ 144 * (n - d) <= d /\ 144 * (d - n) <= d
      /\ e = 16 * (n - d)
  BY <1>1 DEF Near, Drift
<1>3. PICK h \in 0..7 : h = holdoff
  BY DEF Pace
<1>4. /\ n > d => C + e * h <= 152 * d + 64 * n + 2 * e
      /\ n <= d => C < 96 * d + 112 * n
  BY <1>1, <1>2, <1>3 DEF Upper
<1>5. h = 0 => /\ total <= 72 => Q < 104 * d + 64 * n + e
               /\ total < 120 => Q < 151 * d + 64 * n + e \/ Q < 96 * d + 112 * n
  BY <1>1, <1>3, SeenBounds
<1>6. /\ Drops => C = Q /\ Corrected(d)' = Q + e - d
      /\ Dups => C = Q /\ Corrected(d)' = Q + e + d
      /\ Rests => C = Q /\ Corrected(d)' = Q + e
      /\ HeldOff => Corrected(d)' = C + e
  BY <1>1, CorrectedNext
<1> SUFFICES /\ n > d => Corrected(d)' + e * holdoff' <= 152 * d + 64 * n + 2 * e
             /\ n <= d => Corrected(d)' < 96 * d + 112 * n
  BY <1>1, <1>2 DEF Upper, Drift
<1>7. CASE Drops
  <2>1. h = 0 /\ holdoff' = 7 /\ C = Q /\ Corrected(d)' = Q + e - d
    BY <1>3, <1>6, <1>7 DEF Drops
  <2>2. n > d => (Q + e - d) + e * 7 <= 152 * d + 64 * n + 2 * e
    BY <1>2, <1>4, <2>1
  <2>3. n <= d => Q + e - d < 96 * d + 112 * n
    BY <1>2, <1>4, <2>1
  <2> QED
    BY <2>1, <2>2, <2>3
<1>8. CASE Dups
  <2>1. h = 0 /\ holdoff' = 7 /\ Corrected(d)' = Q + e + d /\ Q < 104 * d + 64 * n + e
    BY <1>3, <1>5, <1>6, <1>8 DEF Dups
  <2>2. n > d => (Q + e + d) + e * 7 <= 152 * d + 64 * n + 2 * e
    BY <1>2, <2>1
  <2>3. n <= d => Q + e + d < 96 * d + 112 * n
    BY <1>2, <2>1
  <2> QED
    BY <2>1, <2>2, <2>3
<1>9. CASE Rests
  <2>1. /\ h = 0 /\ holdoff' = 0 /\ C = Q /\ Corrected(d)' = Q + e
        /\ Q < 151 * d + 64 * n + e \/ Q < 96 * d + 112 * n
    BY <1>3, <1>5, <1>6, <1>9 DEF Rests
  <2>2. n > d => (Q + e) + e * 0 <= 152 * d + 64 * n + 2 * e
    BY <1>2, <2>1
  <2>3. n <= d => Q + e < 96 * d + 112 * n
    BY <1>2, <1>4, <2>1
  <2> QED
    BY <2>1, <2>2, <2>3
<1>10. CASE HeldOff
  <2>1. h > 0 /\ holdoff' = h - 1 /\ Corrected(d)' = C + e
    BY <1>3, <1>6, <1>10 DEF HeldOff
  <2>2. (C + e) + e * (h - 1) = C + e * h
    BY <1>2, <1>3
  <2>3. n > d => (C + e) + e * (h - 1) <= 152 * d + 64 * n + 2 * e
    BY <1>4, <2>2
  <2>4. n <= d => C + e < 96 * d + 112 * n
    BY <1>2, <1>4
  <2> QED
    BY <2>1, <2>3, <2>4
<1> QED
  BY <1>7, <1>8, <1>9, <1>10 DEF Decided

\* When the next decision falls in the cycle after this one.
LEMMA LateNext ==
  ASSUME NEW n, NEW d, NEW k, Reads(n, d, k), Pace, Decided
  PROVE  /\ Rests => Late'
         /\ ~Rests => ~Late'
<1>1. since' = IF drop \/ dup THEN 1 ELSE IF since < 8 THEN since + 1 ELSE since
  BY DEF Reads
<1>2. CASE Rests
  <2>1. ~drop /\ ~dup /\ since \in {7, 8}
    BY <1>2 DEF Pace, Rests
  <2>2. since' = 8
    BY <1>1, <2>1
  <2> QED
    BY <1>2, <2>2 DEF Rests, Late
<1>3. CASE ~Rests
  <2>1. CASE Drops \/ Dups
    BY <1>3, <2>1 DEF Drops, Dups, Late
  <2>2. CASE HeldOff
    <3>1. CASE holdoff = 1
      <4>1. ~drop /\ ~dup /\ since = 6
        BY <3>1 DEF Pace
      <4>2. since' = 7
        BY <1>1, <4>1
      <4> QED
        BY <1>3, <4>2 DEF Late
    <3>2. CASE holdoff # 1
      <4>1. PICK h \in 2..7 : h = holdoff
        BY <2>2, <3>2 DEF Pace, HeldOff
      <4>2. holdoff' = h - 1 /\ h - 1 # 0
        BY <2>2, <4>1 DEF HeldOff
      <4> QED
        BY <1>3, <4>2 DEF Late
    <3> QED
      BY <3>1, <3>2
  <2> QED
    BY <1>3, <2>1, <2>2 DEF Decided
<1> QED
  BY <1>2, <1>3

\* They stay above the lower bound.
LEMMA LowerNext ==
  ASSUME NEW n, NEW d, Near(n, d), NEW k, Reads(n, d, k), Pace, Decided, Seen(n, d), Lower(n, d)
  PROVE  Lower(n, d)'
<1>1. PICK Q \in Int, C \in Int, e \in Int : Q = Samples(d) /\ C = Corrected(d) /\ e = Drift(n, d)
  BY SamplesNext
<1>2. /\ n \in Nat \ {0} /\ d \in Nat \ {0} /\ 144 * (n - d) <= d /\ 144 * (d - n) <= d
      /\ e = 16 * (n - d)
  BY <1>1 DEF Near, Drift
<1>3. PICK h \in 0..7, t \in Nat : h = holdoff /\ t = total
  BY DEF Pace
<1>4. PICK B \in Nat, L \in Nat : B = Backlog /\ L = Lag(d)
  BY DEF Reads
<1>5. h = 0 => (t >= 120 => Q >= 120 * d + 48 * n + e)
  BY <1>1, <1>3, SeenBounds
<1>6. /\ Drops => C = Q /\ Corrected(d)' = Q + e - d
      /\ Dups => C = Q /\ Corrected(d)' = Q + e + d
      /\ Rests => C = Q /\ Corrected(d)' = Q + e
      /\ HeldOff => Corrected(d)' = C + e
  BY <1>1, CorrectedNext
<1>7. CASE n >= d
  <2>0. C >= 96 * d + 48 * n
    BY <1>1, <1>7 DEF Lower
  <2>1. Corrected(d)' >= 96 * d + 48 * n
    <3>1. CASE Drops
      <4>1. Q >= 120 * d + 48 * n + e
        BY <1>3, <1>5, <3>1 DEF Drops
      <4>2. Q + e - d >= 96 * d + 48 * n
        BY <1>2, <1>7, <4>1
      <4> QED
        BY <1>6, <3>1, <4>2
    <3>2. CASE Dups
      <4>1. C + e + d >= 96 * d + 48 * n
        BY <1>2, <1>7, <2>0
      <4> QED
        BY <1>6, <3>2, <4>1
    <3>3. CASE Rests \/ HeldOff
      <4>1. C + e >= 96 * d + 48 * n
        BY <1>2, <1>7, <2>0
      <4> QED
        BY <1>6, <3>3, <4>1
    <3> QED
      BY <3>1, <3>2, <3>3 DEF Decided
  <2> QED
    BY <1>7, <2>1 DEF Lower
<1>8. CASE n < d
  <2>0. ~(n >= d)
    BY <1>2, <1>8
  <2>1. /\ h = 0 => (B = t - 16 /\ L >= 4 * n) \/ B = t + 16 \/ (B >= t /\ t >= 96)
        /\ Late /\ t > 72 => Q >= 73 * d + 64 * n + e
        /\ C + (IF Late THEN 0 ELSE e * (h + 1)) >= 73 * d + 64 * n + 2 * e
    BY <1>1, <1>3, <1>4, <2>0 DEF Lower
  <2>2. /\ total' = B /\ 3 * n <= L /\ k \in 0..1 /\ Lag(d)' = L + n - 2 * d * k
    BY <1>2, <1>4, <1>8 DEF Reads
  <2>3. holdoff' = 0 => \/ Backlog' = total' - 16 /\ Lag(d)' >= 4 * n
                        \/ Backlog' = total' + 16
                        \/ Backlog' >= total' /\ total' >= 96
    <3> SUFFICES ASSUME holdoff' = 0
                 PROVE  (Backlog' = B - 16 /\ Lag(d)' >= 4 * n) \/ Backlog' = B + 16
      BY <2>2
    <3>1. Backlog' = B + 32 * k - 16
      BY <1>4, NoneUnderWay
    <3>2. CASE k = 0
      <4>1. B + 32 * 0 - 16 = B - 16 /\ L + n - 2 * d * 0 >= 4 * n
        BY <1>2, <2>2
      <4> QED
        BY <2>2, <3>1, <3>2, <4>1
    <3>3. CASE k = 1
      BY <3>1, <3>3
    <3> QED
      BY <2>2, <3>2, <3>3
  <2>4. Late' /\ total' > 72 => Samples(d)' >= 73 * d + 64 * n + e
    <3> SUFFICES ASSUME Late', total' > 72 PROVE Samples(d)' >= 73 * d + 64 * n + e
      OBVIOUS
    <3>1. Rests
      BY LateNext
    <3>2. h = 0 /\ t > 72 /\ C = Q /\ B > 72
      BY <1>3, <1>6, <2>2, <3>1 DEF Rests
    <3>3. Q = d * B + 16 * L
      BY <1>1, <1>4 DEF Samples
    <3>4. Samples(d)' = Q + e
      BY <1>1, <3>2, SamplesNext
    <3>5. PICK x \in Int : x = d * B
      BY <1>2
    <3>6. Q >= 73 * d + 64 * n
      <4>1. CASE B = t - 16 /\ L >= 4 * n
        <5>1. x >= 73 * d
          BY <1>2, <3>2, <3>5
        <5> QED
          BY <1>2, <3>3, <3>5, <4>1, <5>1
      <4>2. CASE ~(B = t - 16 /\ L >= 4 * n)
        <5>1. B >= 89
          BY <2>1, <3>2, <4>2
        <5>2. x >= 89 * d
          BY <1>2, <3>5, <5>1
        <5> QED
          BY <1>2, <1>8, <2>2, <3>3, <3>5, <5>2
      <4> QED
        BY <4>1, <4>2
    <3> QED
      BY <1>2, <3>4, <3>6
  <2>5. Corrected(d)' + (IF Late' THEN 0 ELSE e * (holdoff' + 1)) >= 73 * d + 64 * n + 2 * e
    <3>1. CASE Drops
      <4>1. ~Late' /\ holdoff' = 7 /\ Corrected(d)' = Q + e - d /\ Q >= 120 * d + 48 * n + e
        BY <1>3, <1>5, <1>6, <3>1, LateNext DEF Drops, Rests
      <4>2. (Q + e - d) + e * (7 + 1) >= 73 * d + 64 * n + 2 * e
        BY <1>2, <1>8, <4>1
      <4> QED
        BY <4>1, <4>2
    <3>2. CASE Dups
      <4>1. ~Late' /\ holdoff' = 7 /\ Corrected(d)' = Q + e + d /\ h = 0 /\ C = Q
        BY <1>3, <1>6, <3>2, LateNext DEF Dups, Rests
      <4>2. Q >= 73 * d + 64 * n + 2 * e \/ Q + e >= 73 * d + 64 * n + 2 * e
        <5>1. e * (0 + 1) = e /\ C + 0 = C
          BY <1>2
        <5> QED
          BY <2>1, <4>1, <5>1
      <4>3. (Q + e + d) + e * (7 + 1) >= 73 * d + 64 * n + 2 * e
        BY <1>2, <1>8, <4>2
      <4> QED
        BY <4>1, <4>3
    <3>3. CASE Rests
      <4>1. Late' /\ Corrected(d)' = Q + e /\ h = 0 /\ C = Q /\ t > 72
        BY <1>3, <1>6, <3>3, LateNext DEF Rests
      <4>2. Q + e >= 73 * d + 64 * n + 2 * e
        <5>1. CASE Late
          <6>1. Q >= 73 * d + 64 * n + e
            BY <2>1, <4>1, <5>1
          <6> QED
            BY <1>2, <6>1
        <5>2. CASE ~Late
          <6>1. e * (0 + 1) = e
            BY <1>2
          <6> QED
            BY <2>1, <4>1, <5>2, <6>1
        <5> QED
          BY <5>1, <5>2
      <4>3. (Q + e) + 0 = Q + e
        BY <1>2
      <4> QED
        BY <4>1, <4>2, <4>3
    <3>4. CASE HeldOff
      <4>0. holdoff' = h - 1 /\ h > 0 /\ holdoff # 0 /\ Corrected(d)' = C + e
        BY <1>3, <1>6, <3>4 DEF HeldOff
      <4>1. ~Rests /\ ~Late /\ h > 0 /\ holdoff' = h - 1 /\ Corrected(d)' = C + e
        BY <4>0 DEF Rests, Late
      <4>a. ~Late'
        BY <4>1, LateNext
      <4>2. (C + e) + e * ((h - 1) + 1) = C + e * (h + 1)
        BY <1>2, <1>3
      <4>3. C + e * (h + 1) >= 73 * d + 64 * n + 2 * e
        BY <2>1, <4>1
      <4> QED
        BY <4>1, <4>a, <4>2, <4>3
    <3> QED
      BY <3>1, <3>2, <3>3, <3>4 DEF Decided
  <2>6. Drift(n, d)' = e
    BY <1>1 DEF Drift
  <2> QED
    BY <1>1, <2>0, <2>3, <2>4, <2>5, <2>6 DEF Lower
<1> QED
  BY <1>2, <1>7, <1>8

\* The backlog stays in step with b: whole entries come, half ones go.
LEMMA SameStep ==
  ASSUME NEW n, NEW d, NEW k, Reads(n, d, k), ~(drop /\ dup), NEW b \in Int, (Backlog - b) % 16 = 0
  PROVE  /\ ~drop /\ ~dup => (Backlog' - b) % 16 = 0
         /\ drop /\ ~dup => (Backlog' - (b - 1)) % 16 = 0
         /\ ~drop /\ dup => (Backlog' - (b + 1)) % 16 = 0
<1>1. PICK B \in Nat : B = Backlog
  BY DEF Reads
<1>2. PICK x \in Int : x = B - b /\ x % 16 = 0
  BY <1>1
<1>3. PICK y \in Int : y = x + 32 * k - 16
  BY DEF Reads
<1>4. y % 16 = 0
  <2>1. k = 0 \/ k = 1 \/ k = 2
    BY DEF Reads
  <2>2. (x - 16) % 16 = 0 /\ (x + 16) % 16 = 0 /\ (x + 48) % 16 = 0
    BY <1>2
  <2>3. y = x - 16 \/ y = x + 16 \/ y = x + 48
    BY <1>3, <2>1
  <2> QED
    BY <2>2, <2>3
<1>5. k \in Int
  BY DEF Reads
<1>6. ASSUME ~drop, ~dup PROVE (Backlog' - b) % 16 = 0
  <2>1. Backlog' = B + 32 * k - 16
    BY <1>1, <1>5, <1>6 DEF Reads
  <2>2. (B + 32 * k - 16) - b = y
    BY <1>2, <1>3, <1>5
  <2> QED
    BY <1>4, <2>1, <2>2
<1>7. ASSUME drop, ~dup PROVE (Backlog' - (b - 1)) % 16 = 0
  <2>1. Backlog' = B + 32 * k - 17
    BY <1>1, <1>5, <1>7 DEF Reads
  <2>2. (B + 32 * k - 17) - (b - 1) = y
    BY <1>2, <1>3, <1>5
  <2> QED
    BY <1>4, <2>1, <2>2
<1>8. ASSUME ~drop, dup PROVE (Backlog' - (b + 1)) % 16 = 0
  <2>1. Backlog' = B + 32 * k - 15
    BY <1>1, <1>5, <1>8 DEF Reads
  <2>2. (B + 32 * k - 15) - (b + 1) = y
    BY <1>2, <1>3, <1>5
  <2> QED
    BY <1>4, <2>1, <2>2
<1> QED
  BY <1>6, <1>7, <1>8

\* The backlog comes down to that of the last dup, and stays there.
LEMMA BelowNext ==
  ASSUME NEW n, NEW d, Near(n, d), n < d, NEW k, Reads(n, d, k), Pace, ~drop,
         NEW bound \in Int, Below(n, d, bound)
  PROVE  /\ Backlog <= bound + 32
         /\ ~dup => Below(n, d, bound)'
         /\ dup => Below(n, d, bound + 1)'
<1>1. n \in Nat \ {0} /\ d \in Nat \ {0}
  BY DEF Near
<1>2. PICK b \in Int : b <= bound /\ (Backlog - b) % 16 = 0 /\ Samples(d) < (b + 32) * d + 64 * n
  BY DEF Below
<1>3. PICK B \in Nat, L \in Nat : B = Backlog /\ L = Lag(d)
  BY DEF Reads
<1>4. PICK Q \in Int, C \in Int, e \in Int : Q = Samples(d) /\ C = Corrected(d) /\ e = Drift(n, d)
  BY SamplesNext
<1>5. Samples(d)' = C + e /\ e <= 0
  BY <1>1, <1>4, SamplesNext DEF Drift
<1>6. B <= bound + 32
  <2>1. Q = d * B + 16 * L /\ L >= 3 * n
    BY <1>3, <1>4 DEF Samples, Reads
  <2>2. PICK z \in Int : z = B - b
    BY <1>3
  <2>3. d * z < 32 * d + 16 * n
    <3>1. d * z = d * B - d * b /\ (b + 32) * d = d * b + 32 * d
      BY <1>1, <2>2
    <3>2. PICK x \in Int, y \in Int : x = d * B /\ y = d * b
      BY <1>1
    <3>3. x + 16 * L < y + 32 * d + 64 * n
      BY <1>2, <1>4, <2>1, <3>1, <3>2
    <3>4. x - y < 32 * d + 16 * n
      BY <1>1, <2>1, <3>2, <3>3
    <3> QED
      BY <3>1, <3>2, <3>4
  <2>4. z < 48
    <3>1. z >= 48 => d * z >= 48 * d
      BY <1>1, <2>2
    <3>2. 32 * d + 16 * n < 48 * d
      BY <1>1
    <3>3. PICK w \in Int : w = d * z
      BY <1>1, <2>2
    <3>4. w < 48 * d
      BY <1>1, <2>3, <3>2, <3>3
    <3>5. z >= 48 => w >= 48 * d
      BY <3>1, <3>3
    <3>6. ~(w >= 48 * d)
      BY <1>1, <3>3, <3>4
    <3> QED
      BY <2>2, <3>5, <3>6
  <2>5. z % 16 = 0
    BY <1>2, <1>3, <2>2
  <2>6. z <= 32
    BY <2>2, <2>4, <2>5
  <2> QED
    BY <1>2, <1>3, <2>2, <2>6
<1>7. ~(drop /\ dup)
  BY DEF Pace
<1>8. ASSUME ~dup PROVE Below(n, d, bound)'
  <2>1. (Backlog' - b) % 16 = 0
    BY <1>2, <1>7, <1>8, SameStep
  <2>2. C = Q
    BY <1>1, <1>4, <1>8 DEF Corrected
  <2>3. PICK y \in Int : y = (b + 32) * d
    BY <1>1
  <2>4. Q < y + 64 * n
    BY <1>2, <1>4, <2>3
  <2>5. C + e < y + 64 * n
    BY <1>1, <1>4, <1>5, <2>2, <2>3, <2>4
  <2> QED
    BY <1>2, <1>5, <2>1, <2>3, <2>5 DEF Below
<1>9. ASSUME dup PROVE Below(n, d, bound + 1)'
  <2>1. (Backlog' - (b + 1)) % 16 = 0
    BY <1>2, <1>7, <1>9, SameStep
  <2>2. C = Q + d
    BY <1>1, <1>4, <1>9 DEF Corrected
  <2>3. PICK y \in Int : y = (b + 32) * d /\ ((b + 1) + 32) * d = y + d
    BY <1>1
  <2>4. Q < y + 64 * n
    BY <1>2, <1>4, <2>3
  <2>5. C + e < (y + d) + 64 * n
    BY <1>1, <1>4, <1>5, <2>2, <2>3, <2>4
  <2>6. PICK c \in Int : c = b + 1 /\ c <= bound + 1
    BY <1>2
  <2>7. (Backlog' - c) % 16 = 0 /\ Samples(d)' < (c + 32) * d + 64 * n
    BY <1>5, <2>1, <2>3, <2>5, <2>6
  <2> QED
    BY <2>6, <2>7 DEF Below
<1> QED
  BY <1>3, <1>6, <1>8, <1>9

\* After a dup none is dropped while the writer is slow.
LEMMA SlowNext ==
  ASSUME NEW n, NEW d, Near(n, d), NEW k, Reads(n, d, k), Pace, Decided, Seen(n, d), Slow(n, d)
  PROVE  Slow(n, d)'
<1> SUFFICES ASSUME n < d
             PROVE  /\ dup' => Below(n, d, 72)'
                    /\ last' = "dup" => ~drop' /\ total' <= 105 /\ Below(n, d, 73)'
  BY DEF Slow
<1>1. n \in Nat \ {0} /\ d \in Nat \ {0}
  BY DEF Near
<1>2. PICK Q \in Int, e \in Int : Q = Samples(d) /\ e = Drift(n, d) /\ e <= 0
  BY <1>1, SamplesNext DEF Drift
<1>3. ASSUME dup' PROVE Below(n, d, 72)'
  <2>1. Dups
    BY <1>3 DEF Decided, Drops, Rests, HeldOff
  <2>2. PICK t \in Nat : t = total /\ t <= 72
    BY <2>1 DEF Pace, Dups
  <2>3. holdoff = 0 /\ ~drop /\ ~dup
    BY <2>1 DEF Pace, Dups
  <2>4. (Backlog' - t) % 16 = 0
    BY <2>2, <2>3, SameStep DEF Seen
  <2>5. Samples(d)' = Q + e
    <3>1. Corrected(d) = Q
      BY <1>2, <2>1, CorrectedNext
    <3> QED
      BY <1>2, <3>1, SamplesNext
  <2>6. Q < d * t + 32 * d + 64 * n + e
    BY <1>2, <2>2, <2>3 DEF Seen
  <2>7. Q + e < (t + 32) * d + 64 * n
    <3>1. PICK x \in Int : x = d * t /\ (t + 32) * d = x + 32 * d
      BY <1>1, <2>2
    <3> QED
      BY <1>1, <1>2, <2>6, <3>1
  <2> QED
    BY <2>2, <2>4, <2>5, <2>7 DEF Below
<1>4. ASSUME last' = "dup" PROVE ~drop' /\ total' <= 105 /\ Below(n, d, 73)'
  <2>1. ~drop /\ total' = Backlog
    BY <1>4 DEF Reads
  <2>2. CASE dup
    <3>1. Below(n, d, 72)
      BY <2>2 DEF Slow
    <3>2. PICK bound \in Int : bound = 72
      OBVIOUS
    <3>3. Backlog <= bound + 32 /\ Below(n, d, bound + 1)'
      BY <2>1, <2>2, <3>1, <3>2, BelowNext
    <3>4. Backlog <= 105 /\ Below(n, d, 73)'
      <4>1. PICK B \in Nat : B = Backlog
        BY DEF Reads
      <4>2. bound + 1 = 73
        BY <3>2
      <4> QED
        BY <3>2, <3>3, <4>1, <4>2
    <3>5. ~drop'
      BY <2>2 DEF Pace, Decided, Drops, Dups, Rests, HeldOff
    <3> QED
      BY <2>1, <3>4, <3>5
  <2>3. CASE ~dup
    <3>1. last = "dup"
      BY <1>4, <2>1, <2>3 DEF Reads
    <3>2. total <= 105 /\ Below(n, d, 73)
      BY <3>1 DEF Slow
    <3>3. PICK bound \in Int : bound = 73
      OBVIOUS
    <3>4. Backlog <= bound + 32 /\ Below(n, d, bound)'
      BY <2>1, <2>3, <3>2, <3>3, BelowNext
    <3>5. Backlog <= 105 /\ Below(n, d, 73)'
      BY <3>3, <3>4
    <3>6. ~Drops
      <4>1. PICK t \in Nat : t = total
        BY DEF Pace
      <4> QED
        BY <3>2, <4>1 DEF Drops
    <3>7. ~drop'
      BY <3>6 DEF Decided, Dups, Rests, HeldOff
    <3> QED
      BY <2>1, <3>5, <3>7
  <2> QED
    BY <2>2, <2>3
<1> QED
  BY <1>3, <1>4

\* The backlog comes up to that of the last drop, and stays there.
LEMMA AboveNext ==
  ASSUME NEW n, NEW d, Near(n, d), n > d, NEW k, Reads(n, d, k), Pace, ~dup,
         NEW bound \in Int, Above(n, d, bound)
  PROVE  /\ Backlog >= bound - 32
         /\ ~drop => Above(n, d, bound)'
         /\ drop => Above(n, d, bound - 1)'
<1>1. n \in Nat \ {0} /\ d \in Nat \ {0} /\ k \in 0..2
  BY DEF Near, Reads
<1>2. PICK b \in Int : b >= bound /\ (Backlog - b) % 16 = 0 /\ n * Backlog + 16 * Lag(d) >= (b + 48) * n
  BY DEF Above
<1>3. PICK B \in Nat, L \in Nat : B = Backlog /\ L = Lag(d)
  BY DEF Reads
<1>4. PICK x \in Int, y \in Int : x = n * B /\ y = n * b
  BY <1>1
<1>5. (b + 48) * n = y + 48 * n
  BY <1>1, <1>4
<1>6. x + 16 * L >= y + 48 * n /\ L < 2 * d + 4 * n
  BY <1>2, <1>3, <1>4, <1>5 DEF Reads
<1>7. B >= bound - 32
  <2>1. PICK z \in Int : z = B - b
    BY <1>3
  <2>2. n * z = x - y
    BY <1>1, <1>4, <2>1
  <2>3. x - y > 0 - 48 * n
    BY <1>1, <1>4, <1>6
  <2>4. z > 0 - 48
    <3>1. z <= 0 - 48 => n * z <= n * (0 - 48)
      BY <1>1, <2>1
    <3>2. n * (0 - 48) = 0 - 48 * n
      BY <1>1
    <3>3. PICK w \in Int : w = n * z
      BY <1>1, <2>1
    <3>4. ~(w <= 0 - 48 * n)
      BY <1>1, <1>4, <2>2, <2>3, <3>3
    <3> QED
      BY <2>1, <3>1, <3>2, <3>3, <3>4
  <2>5. z % 16 = 0
    BY <1>2, <1>3, <2>1
  <2>6. z >= 0 - 32
    BY <2>1, <2>4, <2>5
  <2> QED
    BY <1>2, <1>3, <2>1, <2>6
<1>8. ~(drop /\ dup)
  BY DEF Pace
<1>9. PICK g \in Int : g = k * (n - d) /\ g >= 0
  BY <1>1
<1>10. Lag(d)' = L + n - 2 * d * k
  BY <1>3 DEF Reads
<1>11. ASSUME ~drop PROVE Above(n, d, bound)'
  <2>1. (Backlog' - b) % 16 = 0
    BY <1>2, <1>8, <1>11, SameStep
  <2>2. Backlog' = B + 32 * k - 16
    BY <1>1, <1>3, <1>11 DEF Reads
  <2>3. n * (B + 32 * k - 16) + 16 * (L + n - 2 * d * k) = n * B + 16 * L + 32 * (k * (n - d))
    BY <1>1, <1>3
  <2>4. n * Backlog' + 16 * Lag(d)' = x + 16 * L + 32 * g
    BY <1>4, <1>9, <1>10, <2>2, <2>3
  <2>5. x + 16 * L + 32 * g >= y + 48 * n
    BY <1>1, <1>3, <1>4, <1>6, <1>9
  <2> QED
    BY <1>2, <1>5, <2>1, <2>4, <2>5 DEF Above
<1>12. ASSUME drop PROVE Above(n, d, bound - 1)'
  <2>1. PICK c \in Int : c = b - 1 /\ c >= bound - 1
    BY <1>2
  <2>2. (Backlog' - c) % 16 = 0
    BY <1>2, <1>8, <1>12, <2>1, SameStep
  <2>3. Backlog' = B + 32 * k - 17
    BY <1>1, <1>3, <1>12 DEF Reads
  <2>4. n * (B + 32 * k - 17) + 16 * (L + n - 2 * d * k) = n * B + 16 * L + 32 * (k * (n - d)) - n
    BY <1>1, <1>3
  <2>5. n * Backlog' + 16 * Lag(d)' = x + 16 * L + 32 * g - n
    BY <1>4, <1>9, <1>10, <2>3, <2>4
  <2>6. x + 16 * L + 32 * g - n >= y + 48 * n - n
    BY <1>1, <1>3, <1>4, <1>6, <1>9
  <2>7. (c + 48) * n = y + 48 * n - n
    BY <1>1, <1>4, <2>1
  <2> QED
    BY <2>1, <2>2, <2>5, <2>6, <2>7 DEF Above
<1> QED
  BY <1>3, <1>7, <1>11, <1>12

\* After a drop none is repeated while the writer is fast.
LEMMA FastNext ==
  ASSUME NEW n, NEW d, Near(n, d), NEW k, Reads(n, d, k), Pace, Decided, Seen(n, d), Fast(n, d)
  PROVE  Fast(n, d)'
<1> SUFFICES ASSUME n > d
             PROVE  /\ drop' => Above(n, d, 120)'
                    /\ last' = "drop" => ~dup' /\ total' >= 87 /\ Above(n, d, 119)'
  BY DEF Fast
<1>1. n \in Nat \ {0} /\ d \in Nat \ {0} /\ k \in 0..2
  BY DEF Near, Reads
<1>2. PICK B \in Nat, L \in Nat : B = Backlog /\ L = Lag(d)
  BY DEF Reads
<1>3. ASSUME drop' PROVE Above(n, d, 120)'
  <2>1. Drops
    BY <1>3 DEF Decided, Dups, Rests, HeldOff
  <2>2. PICK t \in Nat : t = total /\ t >= 120
    BY <2>1 DEF Pace, Drops
  <2>3. holdoff = 0 /\ ~drop /\ ~dup
    BY <2>1 DEF Pace, Drops
  <2>4. (Backlog' - t) % 16 = 0
    BY <2>2, <2>3, SameStep DEF Seen
  <2>5. d * t + 48 * n + Drift(n, d) <= Samples(d) /\ B >= t - 16
    BY <1>2, <2>2, <2>3 DEF Seen
  <2>6. d * t + 48 * n + 16 * (n - d) <= d * B + 16 * L
    BY <1>2, <2>5 DEF Samples, Drift
  <2>7. (n - d) * B >= (n - d) * (t - 16)
    BY <1>1, <1>2, <2>2, <2>5
  <2>8. PICK x \in Int, y \in Int, u \in Int, v \in Int : x = d * t /\ y = d * B /\ u = n * t /\ v = n * B
    BY <1>1
  <2>9. (n - d) * B = v - y /\ (n - d) * (t - 16) = u - x - 16 * (n - d)
    BY <1>1, <2>2, <2>8
  <2>10. v + 16 * L >= u + 48 * n
    BY <1>1, <1>2, <2>6, <2>7, <2>8, <2>9
  <2>11. Backlog' = B + 32 * k - 16 /\ Lag(d)' = L + n - 2 * d * k
    BY <1>1, <1>2, <2>3 DEF Reads
  <2>12. PICK g \in Int : g = k * (n - d) /\ g >= 0
    BY <1>1
  <2>13. n * (B + 32 * k - 16) + 16 * (L + n - 2 * d * k) = n * B + 16 * L + 32 * (k * (n - d))
    BY <1>1, <1>2
  <2>14. n * Backlog' + 16 * Lag(d)' = v + 16 * L + 32 * g
    BY <2>8, <2>11, <2>12, <2>13
  <2>15. v + 16 * L + 32 * g >= u + 48 * n
    BY <1>1, <1>2, <2>8, <2>10, <2>12
  <2>16. (t + 48) * n = u + 48 * n
    BY <1>1, <2>2, <2>8
  <2> QED
    BY <2>2, <2>4, <2>14, <2>15, <2>16 DEF Above
<1>4. ASSUME last' = "drop" PROVE ~dup' /\ total' >= 87 /\ Above(n, d, 119)'
  <2>1. total' = Backlog
    BY DEF Reads
  <2>2. CASE drop
    <3>1. Above(n, d, 120) /\ ~dup
      BY <2>2 DEF Fast, Pace
    <3>2. PICK bound \in Int : bound = 120
      OBVIOUS
    <3>3. Backlog >= bound - 32 /\ Above(n, d, bound - 1)'
      BY <2>2, <3>1, <3>2, AboveNext
    <3>4. Backlog >= 87 /\ Above(n, d, 119)'
      <4>1. bound - 1 = 119
        BY <3>2
      <4> QED
        BY <1>2, <3>2, <3>3, <4>1
    <3>5. ~dup'
      BY <2>2 DEF Pace, Decided, Drops, Dups, Rests, HeldOff
    <3> QED
      BY <2>1, <3>4, <3>5
  <2>3. CASE ~drop
    <3>1. last = "drop" /\ ~dup
      BY <1>4, <2>3 DEF Reads
    <3>2. total >= 87 /\ Above(n, d, 119)
      BY <3>1 DEF Fast
    <3>3. PICK bound \in Int : bound = 119
      OBVIOUS
    <3>4. Backlog >= bound - 32 /\ Above(n, d, bound)'
      BY <2>3, <3>1, <3>2, <3>3, AboveNext
    <3>5. Backlog >= 87 /\ Above(n, d, 119)'
      BY <1>2, <3>3, <3>4
    <3>6. ~Dups
      <4>1. PICK t \in Nat : t = total
        BY DEF Pace
      <4> QED
        BY <3>2, <4>1 DEF Dups
    <3>7. ~dup'
      BY <3>6 DEF Decided, Drops, Rests, HeldOff
    <3> QED
      BY <2>1, <3>5, <3>7
  <2> QED
    BY <2>2, <2>3
<1> QED
  BY <1>3, <1>4

\* What the writer has in the buffer, on its way and in the FIFO is never little.
LEMMA BacklogLow ==
  ASSUME NEW n, NEW d, Near(n, d), Lag(d) \in Nat, Lag(d) < 2 * d + 4 * n, visible \in Nat,
         Pace, Lower(n, d)
  PROVE  Backlog \in Nat /\ Backlog >= 40 + (IF drop THEN 1 ELSE 0) - (IF dup THEN 1 ELSE 0)
<1>1. /\ n \in Nat \ {0} /\ d \in Nat \ {0} /\ 144 * (n - d) <= d /\ 144 * (d - n) <= d
  BY DEF Near
<1>2. PICK B \in Nat, L \in Nat : B = Backlog /\ L = Lag(d)
  BY DEF Backlog, Pace
<1>3. PICK x \in Int : x = d * B
  BY <1>1
<1>4. PICK Q \in Int : Q = Samples(d) /\ Q = x + 16 * L
  BY <1>1, <1>2, <1>3 DEF Samples
<1>5. PICK o \in {0 - 1, 0, 1} : /\ o = (IF drop THEN 1 ELSE 0) - (IF dup THEN 1 ELSE 0)
                                 /\ Corrected(d) = Q - o * d
  <2>1. CASE drop
    <3>1. ~dup
      BY <2>1 DEF Pace
    <3>2. Corrected(d) = Q - 1 * d
      BY <1>1, <1>4, <2>1, <3>1 DEF Corrected
    <3> QED
      BY <2>1, <3>1, <3>2
  <2>2. CASE ~drop /\ dup
    <3>1. Corrected(d) = Q - (0 - 1) * d
      BY <1>1, <1>4, <2>2 DEF Corrected
    <3> QED
      BY <2>2, <3>1
  <2>3. CASE ~drop /\ ~dup
    <3>1. Corrected(d) = Q - 0 * d
      BY <1>1, <1>4, <2>3 DEF Corrected
    <3> QED
      BY <2>3, <3>1
  <2> QED
    BY <2>1, <2>2, <2>3
<1>6. PICK e \in Int : e = Drift(n, d) /\ e = 16 * (n - d)
  BY <1>1 DEF Drift
<1>7. PICK h \in 0..7 : h = holdoff
  BY DEF Pace
<1>8. PICK C \in Int : C = Corrected(d) /\ C = Q - o * d
  BY <1>1, <1>5
<1>9. x > 39 * d + o * d
  <2>1. CASE n >= d
    <3>1. C >= 96 * d + 48 * n
      BY <1>8, <2>1 DEF Lower
    <3>2. PICK u \in Int : u = o * d
      BY <1>1
    <3>3. x + 16 * L - u >= 96 * d + 48 * n
      BY <1>4, <1>8, <3>1, <3>2
    <3> QED
      BY <1>1, <1>2, <1>3, <3>2, <3>3
  <2>2. CASE n < d
    <3>1. C + (IF Late THEN 0 ELSE e * (h + 1)) >= 73 * d + 64 * n + 2 * e
      BY <1>1, <1>6, <1>7, <1>8, <2>2 DEF Lower
    <3>2. e * (h + 1) <= 0
      BY <1>1, <1>6, <1>7, <2>2
    <3>3. PICK g \in Int : g = e * (h + 1)
      BY <1>6, <1>7
    <3>4. C >= 73 * d + 64 * n + 2 * e
      <4>1. CASE Late
        BY <1>8, <3>1, <4>1
      <4>2. CASE ~Late
        <5>1. C + g >= 73 * d + 64 * n + 2 * e /\ g <= 0
          BY <3>1, <3>2, <3>3, <4>2
        <5> QED
          BY <1>1, <1>6, <1>8, <3>3, <5>1
      <4> QED
        BY <4>1, <4>2
    <3>5. PICK u \in Int : u = o * d
      BY <1>1
    <3>6. x + 16 * L - u >= 73 * d + 64 * n + 2 * e
      BY <1>4, <1>8, <3>4, <3>5
    <3> QED
      BY <1>1, <1>2, <1>3, <1>6, <3>5, <3>6
  <2> QED
    BY <1>1, <2>1, <2>2
<1>10. B >= 40 + o
  <2>1. B <= 39 + o => x <= d * (39 + o)
    BY <1>1, <1>2, <1>3, <1>5
  <2>2. d * (39 + o) = 39 * d + o * d
    BY <1>1, <1>5
  <2>3. PICK v \in Int : v = 39 * d + o * d
    BY <1>1, <1>5
  <2>4. ~(x <= v)
    BY <1>3, <1>9, <2>3
  <2> QED
    BY <1>2, <1>5, <2>1, <2>2, <2>3, <2>4
<1>11. 40 + o = 40 + (IF drop THEN 1 ELSE 0) - (IF dup THEN 1 ELSE 0)
  <2>1. CASE drop
    BY <1>5, <2>1
  <2>2. CASE ~drop
    <3>1. CASE dup
      BY <1>5, <2>2, <3>1
    <3>2. CASE ~dup
      BY <1>5, <2>2, <3>2
    <3> QED
      BY <3>1, <3>2
  <2> QED
    BY <2>1, <2>2
<1> QED
  BY <1>2, <1>10, <1>11

\* The seven bits of fill do not wrap while the reader runs.
LEMMA FillNext ==
  ASSUME AsBuilt, running, Read, Pace, visible \in Nat,
         Backlog >= 40 + (IF drop THEN 1 ELSE 0) - (IF dup THEN 1 ELSE 0)
  PROVE  /\ fill' \in 24..96
         /\ fill' = fill + 32 * Popped - 16 - (IF drop THEN 1 ELSE 0) + (IF dup THEN 1 ELSE 0)
<1>1. PICK f \in 24..96, v \in Nat : f = fill /\ v = visible
  BY DEF Pace
<1>2. PICK o \in {0 - 1, 0, 1} : o = (IF drop THEN 1 ELSE 0) - (IF dup THEN 1 ELSE 0)
  <2>1. CASE drop
    BY <2>1 DEF Pace
  <2>2. CASE ~drop
    <3>1. CASE dup
      BY <2>2, <3>1
    <3>2. CASE ~dup
      BY <2>2, <3>2
    <3> QED
      BY <3>1, <3>2
  <2> QED
    BY <2>1, <2>2
<1>3. f + 32 * v >= 40 + o
  <2>1. 40 + o = 40 + (IF drop THEN 1 ELSE 0) - (IF dup THEN 1 ELSE 0)
    <3>1. CASE drop
      BY <1>2, <3>1
    <3>2. CASE ~drop
      <4>1. CASE dup
        BY <1>2, <3>2, <4>1
      <4>2. CASE ~dup
        BY <1>2, <3>2, <4>2
      <4> QED
        BY <4>1, <4>2
    <3> QED
      BY <3>1, <3>2
  <2> QED
    BY <1>1, <2>1 DEF Backlog
<1>4. consume = 16 + o
  <2>1. CASE drop
    <3>1. ~dup
      BY <2>1 DEF Pace
    <3> QED
      BY <1>2, <2>1, <3>1 DEF consume, AsBuilt
  <2>2. CASE ~drop /\ dup
    BY <1>2, <2>2 DEF consume, AsBuilt
  <2>3. CASE ~drop /\ ~dup
    BY <1>2, <2>3 DEF consume, AsBuilt
  <2> QED
    BY <2>1, <2>2, <2>3
<1>5. PICK p \in 0..1 : p = Popped
  BY DEF Popped
<1>6. p = 1 <=> v > 0 /\ f <= 64
  BY <1>1, <1>5 DEF Popped, pop, AsBuilt, E
<1>7. (IF pop THEN E ELSE 0) = 32 * p
  BY <1>5 DEF Popped, AsBuilt, E
<1>8. fill' = (f + 32 * p - (16 + o)) % 128
  BY <1>1, <1>4, <1>7 DEF Read, FillRange
<1>9. f + 32 * p - (16 + o) \in 24..96
  <2>1. CASE p = 1
    BY <1>1, <1>2, <1>6, <2>1
  <2>2. CASE p = 0 /\ v > 0
    BY <1>1, <1>2, <1>6, <2>2
  <2>3. CASE p = 0 /\ v = 0
    BY <1>1, <1>2, <1>3, <2>3
  <2> QED
    BY <1>1, <1>5, <2>1, <2>2, <2>3
<1>10. PICK g \in 24..96 : g = f + 32 * p - (16 + o)
  BY <1>9
<1>11. g % 128 = g
  BY <1>10
<1>12. fill' = g
  BY <1>8, <1>10, <1>11
<1>13. g = f + 32 * p - 16 - (IF drop THEN 1 ELSE 0) + (IF dup THEN 1 ELSE 0)
  <2>1. CASE drop
    <3>1. ~dup
      BY <2>1 DEF Pace
    <3> QED
      BY <1>2, <1>10, <2>1, <3>1
  <2>2. CASE ~drop
    <3>1. CASE dup
      BY <1>1, <1>2, <1>5, <1>10, <2>2, <3>1
    <3>2. CASE ~dup
      BY <1>1, <1>2, <1>5, <1>10, <2>2, <3>2
    <3> QED
      BY <3>1, <3>2
  <2> QED
    BY <2>1, <2>2
<1> QED
  BY <1>1, <1>5, <1>10, <1>12, <1>13

\* Whatever has become visible was three cycles on its way, and time goes on.
Arrived(n, d) == visible > 0 \/ fill > 0 \/ total > 0 \/ running => 3 * n <= Lag(d)

\* An entry is written where there is room for it.
LEMMA RoomFor ==
  ASSUME NEW n, NEW d, Near(n, d), Flight(n, d), NEW f \in Nat, f = fill,
         Samples(d) < d * f + 32 * d + 16 * (2 * d - n) + 160 * d
  PROVE  credit + n >= 2 * d => Len(flying) + visible <= 6
<1>1. n \in Nat \ {0} /\ d \in Nat \ {0}
  BY DEF Near
<1>2. PICK N \in Nat, v \in Nat, c \in Nat : N = Len(flying) /\ v = visible /\ c = credit
  BY <1>1 DEF Flight
<1>3. Samples(d) = d * (f + 32 * v) + 16 * (c + 2 * d * N)
  BY <1>2 DEF Samples, Backlog, Lag
<1>4. PICK x \in Int, m \in Int : x = d * f /\ m = d * (N + v)
  BY <1>1, <1>2
<1>5. d * (f + 32 * v) + 16 * (c + 2 * d * N) = x + 32 * m + 16 * c
  BY <1>1, <1>2, <1>4
<1>6. x + 32 * m + 16 * c < x + 32 * d + 16 * (2 * d - n) + 160 * d
  BY <1>3, <1>4, <1>5
<1>7. ASSUME c + n >= 2 * d PROVE N + v <= 6
  <2>1. 32 * m < 192 * d
    BY <1>1, <1>2, <1>4, <1>6, <1>7
  <2>2. N + v >= 7 => m >= 7 * d
    BY <1>1, <1>2, <1>4
  <2>3. ~(m >= 7 * d)
    BY <1>1, <1>4, <2>1
  <2> QED
    BY <1>2, <2>2, <2>3
<1> QED
  BY <1>2, <1>7

\* A running reader leaves room in the FIFO.
LEMMA SettledRoom ==
  ASSUME NEW n, NEW d, Near(n, d), Flight(n, d), Pace, Upper(n, d)
  PROVE  credit + n >= 2 * d => Len(flying) + visible <= 6
<1>1. n \in Nat \ {0} /\ d \in Nat \ {0} /\ 144 * (n - d) <= d /\ 144 * (d - n) <= d
  BY DEF Near
<1>2. PICK f \in 24..96, h \in 0..7 : f = fill /\ h = holdoff
  BY DEF Pace
<1>3. Lag(d) \in Nat /\ visible \in Nat
  BY LagBelow DEF Flight
<1>4. PICK B \in Int : B = Backlog
  BY <1>2, <1>3 DEF Backlog
<1>5. PICK Q \in Int : Q = Samples(d)
  BY <1>1, <1>3, <1>4 DEF Samples
<1>6. PICK C \in Int : C = Corrected(d) /\ Q <= C + d
  <2>1. CASE drop
    BY <1>1, <1>5, <2>1 DEF Corrected
  <2>2. CASE ~drop
    <3>1. CASE dup
      BY <1>1, <1>5, <2>2, <3>1 DEF Corrected
    <3>2. CASE ~dup
      BY <1>1, <1>5, <2>2, <3>2 DEF Corrected
    <3> QED
      BY <3>1, <3>2
  <2> QED
    BY <2>1, <2>2
<1>7. PICK e \in Int : e = Drift(n, d) /\ e = 16 * (n - d)
  BY <1>1 DEF Drift
<1>8. Q < 24 * d + 32 * d + 16 * (2 * d - n) + 160 * d
  <2>1. CASE n > d
    <3>1. C + e * h <= 152 * d + 64 * n + 2 * e
      BY <1>2, <1>6, <1>7, <2>1 DEF Upper
    <3>2. e * h >= 0
      BY <1>1, <1>2, <1>7, <2>1
    <3>3. PICK g \in Int : g = e * h
      BY <1>2, <1>7
    <3>4. C <= 152 * d + 64 * n + 2 * e
      BY <1>1, <1>6, <1>7, <3>1, <3>2, <3>3
    <3> QED
      BY <1>1, <1>5, <1>6, <1>7, <3>4
  <2>2. CASE n <= d
    <3>1. C < 96 * d + 112 * n
      BY <1>1, <1>6, <2>2 DEF Upper
    <3> QED
      BY <1>1, <1>5, <1>6, <2>2, <3>1
  <2> QED
    BY <1>1, <2>1, <2>2
<1>9. PICK x \in Int : x = d * f /\ x >= 24 * d
  BY <1>1, <1>2
<1>10. Q < x + 32 * d + 16 * (2 * d - n) + 160 * d
  BY <1>1, <1>5, <1>8, <1>9
<1>11. Samples(d) < d * f + 32 * d + 16 * (2 * d - n) + 160 * d
  BY <1>5, <1>9, <1>10
<1> QED
  BY <1>2, <1>11, RoomFor

\* The cycle of a running reader.
LEMMA ReaderStep ==
  ASSUME AsBuilt, NEW n, NEW d, Near(n, d), Flight(n, d), Arrived(n, d), running, Pace, Lower(n, d), Read,
         NEW k \in 0..2, Shows(n, d, k)
  PROVE  fill' \in 24..96 /\ Reads(n, d, k)
<1>1. Lag(d) \in Nat /\ Lag(d) < 2 * d + 4 * n /\ visible \in Nat
  BY LagBelow DEF Flight
<1>2. Backlog \in Nat /\ Backlog >= 40 + (IF drop THEN 1 ELSE 0) - (IF dup THEN 1 ELSE 0)
  BY <1>1, BacklogLow
<1>3. /\ fill' \in 24..96
      /\ fill' = fill + 32 * Popped - 16 - (IF drop THEN 1 ELSE 0) + (IF dup THEN 1 ELSE 0)
  BY <1>1, <1>2, FillNext
<1>4. PICK f \in Nat, v \in Nat, p \in 0..1 : f = fill /\ v = visible /\ p = Popped
  BY <1>1 DEF Pace, Popped
<1>5. PICK r \in Int, u \in Int : r = (IF drop THEN 1 ELSE 0) /\ u = (IF dup THEN 1 ELSE 0)
  OBVIOUS
<1>6. fill' = f + 32 * p - 16 - r + u
  BY <1>3, <1>4, <1>5
<1>7. visible' = v + k - p
  BY <1>4 DEF Shows
<1>8. (f + 32 * p - 16 - r + u) + 32 * (v + k - p) = (f + 32 * v) + 32 * k - 16 - r + u
  BY <1>4, <1>5
<1>9. Backlog' = Backlog + 32 * k - 16 - (IF drop THEN 1 ELSE 0) + (IF dup THEN 1 ELSE 0)
  BY <1>4, <1>5, <1>6, <1>7, <1>8 DEF Backlog
<1>10. total' = Backlog
  <2>1. total' = f + v * 32
    BY <1>4 DEF Read, E, AsBuilt
  <2> QED
    BY <1>4, <2>1 DEF Backlog
<1>11. 3 * n <= Lag(d) /\ Lag(d)' = Lag(d) + n - 2 * d * k /\ (n <= d => k <= 1)
  BY DEF Arrived, Shows
<1>12. /\ since' = IF drop \/ dup THEN 1 ELSE IF since < 8 THEN since + 1 ELSE since
       /\ last' = IF drop THEN "drop" ELSE IF dup THEN "dup" ELSE last
  BY DEF Read, AsBuilt
<1> QED
  BY <1>1, <1>2, <1>3, <1>9, <1>10, <1>11, <1>12 DEF Reads

\* A running reader goes on as it is.
LEMMA SettledNext ==
  ASSUME AsBuilt, NEW n, NEW d, Near(n, d), Flight(n, d), Arrived(n, d), running, Settled(n, d), Read,
         NEW k \in 0..2, Shows(n, d, k)
  PROVE  Settled(n, d)'
<1>1. Pace /\ Seen(n, d) /\ Upper(n, d) /\ Lower(n, d) /\ Slow(n, d) /\ Fast(n, d)
  BY DEF Settled
<1>2. fill' \in 24..96 /\ Reads(n, d, k)
  BY <1>1, ReaderStep
<1>3. Decided
  BY <1>1, Decision
<1>4. Pace'
  BY <1>1, <1>2, <1>3, PaceNext
<1>5. Seen(n, d)'
  BY <1>1, <1>2, <1>3, SeenNext
<1>6. Upper(n, d)'
  BY <1>1, <1>2, <1>3, UpperNext
<1>7. Lower(n, d)'
  BY <1>1, <1>2, <1>3, LowerNext
<1>8. Slow(n, d)'
  BY <1>1, <1>2, <1>3, SlowNext
<1>9. Fast(n, d)'
  BY <1>1, <1>2, <1>3, FastNext
<1> QED
  BY <1>4, <1>5, <1>6, <1>7, <1>8, <1>9 DEF Settled

\* The reader waits for TARGET samples, and entries come in the meantime.
Waiting(n, d) ==
  /\ fill \in {0, 32, 64, 96} /\ total \in Nat /\ total % 32 = 0 /\ total <= Backlog
  /\ holdoff = 0 /\ drop = FALSE /\ dup = FALSE /\ since = 8 /\ last = "none"
  /\ total < 96 => Samples(d) < 96 * d + 80 * n
  /\ Samples(d) < 96 * d + 96 * n

\* A reader that waits leaves room in the FIFO.
LEMMA WaitingRoom ==
  ASSUME NEW n, NEW d, Near(n, d), Flight(n, d), Waiting(n, d)
  PROVE  credit + n >= 2 * d => Len(flying) + visible <= 6
<1>1. n \in Nat \ {0} /\ d \in Nat \ {0} /\ 144 * (n - d) <= d
  BY DEF Near
<1>2. PICK f \in Nat : f = fill
  BY DEF Waiting
<1>3. Lag(d) \in Nat /\ visible \in Nat
  BY LagBelow DEF Flight
<1>4. PICK B \in Int : B = Backlog
  BY <1>2, <1>3 DEF Backlog
<1>5. PICK Q \in Int : Q = Samples(d)
  BY <1>1, <1>3, <1>4 DEF Samples
<1>6. Q < 96 * d + 96 * n
  BY <1>5 DEF Waiting
<1>7. PICK x \in Int : x = d * f /\ x >= 0
  BY <1>1, <1>2
<1>8. Q < x + 32 * d + 16 * (2 * d - n) + 160 * d
  BY <1>1, <1>5, <1>6, <1>7
<1>9. Samples(d) < d * f + 32 * d + 16 * (2 * d - n) + 160 * d
  BY <1>5, <1>7, <1>8
<1> QED
  BY <1>2, <1>9, RoomFor

\* Nothing leaves, and what comes is counted.
Collects(n, d, k) ==
  /\ Backlog \in Nat /\ total' = Backlog /\ Backlog' = Backlog + 32 * k
  /\ fill' \in {0, 32, 64, 96} /\ fill' = fill + 32 * Popped
  /\ Samples(d) \in Int /\ Samples(d)' = Samples(d) + 16 * n
  /\ holdoff' = 0 /\ drop' = FALSE /\ dup' = FALSE /\ since' = 8 /\ last' = "none"
  /\ running' \in BOOLEAN /\ (running' <=> total >= 96)

\* The cycle of a reader that waits.
LEMMA WaitingStep ==
  ASSUME AsBuilt, NEW n, NEW d, Near(n, d), Flight(n, d), running = FALSE, Waiting(n, d), Read,
         NEW k \in 0..2, Shows(n, d, k)
  PROVE  Collects(n, d, k)
<1>1. n \in Nat \ {0} /\ d \in Nat \ {0}
  BY DEF Near
<1>2. Lag(d) \in Nat /\ visible \in Nat
  BY LagBelow DEF Flight
<1>a. Popped \in 0..1
  BY DEF Popped
<1>b. fill \in {0, 32, 64, 96}
  BY DEF Waiting
<1>3. PICK f \in {0, 32, 64, 96}, v \in Nat, p \in 0..1, L \in Nat :
        f = fill /\ v = visible /\ p = Popped /\ L = Lag(d)
  BY <1>2, <1>a, <1>b
<1>4. consume = 0
  BY DEF consume
<1>5. p = 1 <=> v > 0 /\ f <= 64
  BY <1>3 DEF Popped, pop, AsBuilt, E
<1>6. (IF pop THEN E ELSE 0) = 32 * p
  BY <1>3 DEF Popped, AsBuilt, E
<1>7. fill' = (f + 32 * p - 0) % 128
  BY <1>3, <1>4, <1>6 DEF Read, FillRange
<1>8. f + 32 * p - 0 \in {0, 32, 64, 96}
  BY <1>3, <1>5
<1>9. PICK g \in {0, 32, 64, 96} : g = f + 32 * p - 0
  BY <1>8
<1>10. g % 128 = g
  BY <1>9
<1>11. fill' = g /\ g = f + 32 * p
  BY <1>3, <1>7, <1>9, <1>10
<1>12. visible' = v + k - p
  BY <1>3 DEF Shows
<1>13. PICK B \in Nat : B = Backlog /\ B = f + 32 * v
  BY <1>3 DEF Backlog
<1>14. Backlog' = B + 32 * k
  <2>1. (f + 32 * p) + 32 * (v + k - p) = (f + 32 * v) + 32 * k
    BY <1>3
  <2> QED
    BY <1>11, <1>12, <1>13, <2>1 DEF Backlog
<1>15. total' = B
  BY <1>3, <1>13 DEF Read, E, AsBuilt
<1>16. Samples(d) = d * B + 16 * L /\ Samples(d)' = d * (B + 32 * k) + 16 * (L + n - 2 * d * k)
  BY <1>3, <1>13, <1>14 DEF Samples, Shows
<1>17. d * (B + 32 * k) + 16 * (L + n - 2 * d * k) = (d * B + 16 * L) + 16 * n
  BY <1>1, <1>3, <1>13
<1>18. d * B + 16 * L \in Int
  BY <1>1, <1>3, <1>13
<1>19. drop_next = FALSE /\ dup_next = FALSE
  BY DEF drop_next, dup_next
<1>20. next_holdoff = 0
  BY <1>19 DEF next_holdoff, armed, Waiting
<1>21. holdoff' = 0 /\ drop' = FALSE /\ dup' = FALSE
  BY <1>19, <1>20 DEF Read
<1>22. since' = 8 /\ last' = "none"
  BY DEF Read, Waiting, AsBuilt
<1>23. running' \in BOOLEAN /\ (running' <=> total >= 96)
  <2>1. CASE total >= 96
    <3>1. running' = TRUE
      BY <2>1 DEF Read, start, AsBuilt
    <3> QED
      BY <2>1, <3>1
  <2>2. CASE ~(total >= 96)
    <3>1. running' = FALSE
      BY <2>2 DEF Read, start, AsBuilt
    <3> QED
      BY <2>2, <3>1
  <2> QED
    BY <2>1, <2>2
<1>24. fill' = fill + 32 * Popped
  BY <1>3, <1>11
<1> QED
  BY <1>9, <1>11, <1>13, <1>14, <1>15, <1>16, <1>17, <1>18, <1>21, <1>22, <1>23, <1>24 DEF Collects

\* It waits on for the rest of TARGET samples.
LEMMA WaitingNext ==
  ASSUME AsBuilt, NEW n, NEW d, Near(n, d), Flight(n, d), running = FALSE, Waiting(n, d), Read,
         NEW k \in 0..2, Shows(n, d, k), total < 96
  PROVE  running' = FALSE /\ Waiting(n, d)'
<1>0. Collects(n, d, k)
  BY WaitingStep
<1>1. n \in Nat \ {0} /\ d \in Nat \ {0}
  BY DEF Near
<1>2. Lag(d) \in Nat /\ Lag(d) < 2 * d + 4 * n /\ visible \in Nat
  BY LagBelow DEF Flight
<1>3. PICK B \in Nat, L \in Nat, Q \in Int : B = Backlog /\ L = Lag(d) /\ Q = Samples(d)
  BY <1>0, <1>2 DEF Collects
<1>4. PICK t \in Nat : t = total /\ t < 96
  BY DEF Waiting
<1>5. running' = FALSE
  <2>1. ~(total >= 96)
    BY <1>4
  <2> QED
    BY <1>0, <2>1 DEF Collects
<1>6. total' = B /\ total' <= Backlog'
  BY <1>0, <1>3 DEF Collects
<1>7. B % 32 = 0
  <2>1. PICK f \in {0, 32, 64, 96}, v \in Nat : f = fill /\ v = visible
    BY <1>2 DEF Waiting
  <2>2. B = f + 32 * v
    BY <1>3, <2>1 DEF Backlog
  <2> QED
    BY <2>1, <2>2
<1>8. Samples(d)' = Q + 16 * n /\ Q < 96 * d + 80 * n
  BY <1>0, <1>3, <1>4 DEF Collects, Waiting
<1>9. B < 96 => Q + 16 * n < 96 * d + 80 * n
  <2>1. Q = d * B + 16 * L
    BY <1>3 DEF Samples
  <2>2. B < 96 => B <= 64
    BY <1>3, <1>7
  <2>3. B <= 64 => d * B <= 64 * d
    BY <1>1, <1>3
  <2>4. PICK x \in Int : x = d * B
    BY <1>1, <1>3
  <2> QED
    BY <1>1, <1>2, <1>3, <2>1, <2>2, <2>3, <2>4
<1>10. Q + 16 * n < 96 * d + 96 * n
  BY <1>1, <1>3, <1>8
<1>11. total' \in Nat /\ total' % 32 = 0 /\ (total' < 96 => Samples(d)' < 96 * d + 80 * n)
       /\ Samples(d)' < 96 * d + 96 * n
  BY <1>3, <1>6, <1>7, <1>8, <1>9, <1>10
<1> QED
  BY <1>0, <1>5, <1>6, <1>11 DEF Waiting, Collects

\* The backlog is there: the reader starts.
LEMMA StartNext ==
  ASSUME AsBuilt, NEW n, NEW d, Near(n, d), Flight(n, d), Arrived(n, d), running = FALSE, Waiting(n, d), Read,
         NEW k \in 0..2, Shows(n, d, k), ~(total < 96)
  PROVE  running' = TRUE /\ Settled(n, d)'
<1>0. Collects(n, d, k)
  BY WaitingStep
<1>1. n \in Nat \ {0} /\ d \in Nat \ {0} /\ 144 * (n - d) <= d /\ 144 * (d - n) <= d
  BY DEF Near
<1>2. Lag(d) \in Nat /\ visible \in Nat
  BY LagBelow DEF Flight
<1>3. PICK B \in Nat, L \in Nat, Q \in Int : B = Backlog /\ L = Lag(d) /\ Q = Samples(d)
  BY <1>0, <1>2 DEF Collects
<1>4. PICK t \in Nat : t = total /\ t >= 96
  BY DEF Waiting
<1>5. running' = TRUE
  BY <1>0, <1>4 DEF Collects
<1>6. B >= 96 /\ L >= 3 * n
  BY <1>1, <1>3, <1>4 DEF Waiting, Arrived
<1>7. Q = d * B + 16 * L /\ Q < 96 * d + 96 * n
  BY <1>3 DEF Samples, Waiting
<1>8. total' = B /\ Backlog' = B + 32 * k
  BY <1>0, <1>3 DEF Collects
<1>9. PICK R \in Int : R = Samples(d)' /\ R = Q + 16 * n
  BY <1>0, <1>1, <1>3 DEF Collects
<1>10. PICK x \in Int : x = d * B /\ x >= 96 * d
  BY <1>1, <1>6
<1>11. R < 96 * d + 112 * n /\ R >= x + 64 * n
  BY <1>1, <1>3, <1>6, <1>7, <1>9, <1>10
<1>12. PICK e \in Int : e = Drift(n, d) /\ e = 16 * (n - d)
  BY <1>1 DEF Drift
<1>13. Drift(n, d)' = e
  BY <1>12 DEF Drift
<1>14. Corrected(d)' = R
  BY <1>0, <1>1, <1>9 DEF Collects, Corrected
<1>15. fill' \in 24..96
  <2>1. fill = 0 => visible > 0
    BY <1>2, <1>3, <1>6 DEF Backlog
  <2>2. fill' # 0
    <3>1. CASE fill = 0
      <4>1. Popped = 1
        BY <2>1, <3>1 DEF Popped, pop, AsBuilt, E
      <4> QED
        BY <1>0, <3>1, <4>1 DEF Collects
    <3>2. CASE fill # 0
      <4>1. PICK f \in {32, 64, 96}, p \in 0..1 : f = fill /\ p = Popped /\ fill' = f + 32 * p
        BY <1>0, <3>2 DEF Waiting, Popped, Collects
      <4>2. f + 32 * p # 0
        BY <4>1
      <4> QED
        BY <4>1, <4>2
    <3> QED
      BY <3>1, <3>2
  <2>3. fill' \in {0, 32, 64, 96}
    BY <1>0 DEF Collects
  <2> QED
    BY <2>2, <2>3
<1>16. holdoff' = 0 /\ drop' = FALSE /\ dup' = FALSE /\ since' = 8 /\ last' = "none"
  BY <1>0 DEF Collects
<1>17. Pace'
  <2>1. total' \in Nat
    BY <1>8
  <2>2. /\ holdoff' \in 0..7 /\ since' \in 1..8
        /\ holdoff' # 7 /\ ~(holdoff' \in 1..6) /\ since' \in {7, 8}
    BY <1>16
  <2>4. /\ drop' \in BOOLEAN /\ dup' \in BOOLEAN
        /\ ~(drop' /\ dup') /\ ~(drop' \/ dup')
    BY <1>16
  <2>3. (drop' \/ dup') <=> holdoff' = 7
    BY <2>2, <2>4
  <2> QED
    BY <1>15, <2>1, <2>2, <2>3, <2>4 DEF Pace
<1>18. Seen(n, d)'
  <2>1. (Backlog' - total') % 16 = 0
    <3>1. (B + 32 * k) - B = 32 * k /\ (32 * k) % 16 = 0
      BY <1>3
    <3> QED
      BY <1>8, <3>1
  <2>2. Backlog' >= total' - 16
    BY <1>3, <1>8
  <2>3. x + 48 * n + e <= R
    BY <1>1, <1>9, <1>10, <1>11, <1>12
  <2>4. total' >= 96 /\ Samples(d)' < 96 * d + 112 * n
    BY <1>6, <1>8, <1>9, <1>11
  <2>5. d * total' + 48 * n + Drift(n, d) <= Samples(d)'
    BY <1>8, <1>9, <1>10, <1>12, <2>3
  <2> QED
    BY <1>12, <1>13, <2>1, <2>2, <2>4, <2>5 DEF Seen
<1>19. Upper(n, d)'
  <2>1. R <= 152 * d + 64 * n + 2 * e \/ n <= d
    BY <1>1, <1>9, <1>11, <1>12
  <2>2. e * 0 = 0 /\ R + 0 = R
    BY <1>9, <1>12
  <2>3. n > d => R + e * 0 <= 152 * d + 64 * n + 2 * e
    BY <1>1, <2>1, <2>2
  <2> QED
    BY <1>11, <1>12, <1>13, <1>14, <1>16, <2>3 DEF Upper
<1>20. Lower(n, d)'
  <2>1. R >= 96 * d + 48 * n
    BY <1>1, <1>9, <1>10, <1>11
  <2>2. n < d => R >= 73 * d + 64 * n + e /\ R >= 73 * d + 64 * n + 2 * e /\ R + 0 = R
    BY <1>1, <1>9, <1>10, <1>11, <1>12
  <2>3. Backlog' >= total' /\ total' >= 96
    BY <1>3, <1>6, <1>8
  <2>4. Late'
    BY <1>16 DEF Late
  <2>5. n >= d \/ n < d
    BY <1>1
  <2> QED
    BY <1>9, <1>12, <1>13, <1>14, <2>1, <2>2, <2>3, <2>4, <2>5 DEF Lower
<1>21. Slow(n, d)' /\ Fast(n, d)'
  <2>1. dup' = FALSE /\ drop' = FALSE /\ last' # "dup" /\ last' # "drop"
    BY <1>16
  <2> QED
    BY <2>1 DEF Slow, Fast
<1> QED
  BY <1>5, <1>17, <1>18, <1>19, <1>20, <1>21 DEF Settled

\* A domain that has not come up has nothing in it.
Idle ==
  /\ ~up("tx_async") => /\ flying = <<>> /\ visible = 0 /\ fill = 0 /\ total = 0 /\ running = FALSE
  /\ ~up("rx_cdr") => fill = 0 /\ total = 0 /\ running = FALSE

\* Nothing is in the FIFO, and the reader starts from nothing.
Nothing(d) ==
  /\ credit \in 0..(2 * d - 1) /\ flying = <<>> /\ visible = 0 /\ overflow = FALSE
  /\ fill = 0 /\ total = 0 /\ running = FALSE
  /\ holdoff = 0 /\ drop = FALSE /\ dup = FALSE /\ since = 8 /\ last = "none"

\* That is how the reader waits at first.
LEMMA NothingWaits ==
  ASSUME NEW n, NEW d, Near(n, d), Nothing(d)
  PROVE  Flight(n, d) /\ Arrived(n, d) /\ Waiting(n, d) /\ Idle
<1>1. n \in Nat \ {0} /\ d \in Nat \ {0}
  BY DEF Near
<1>2. PICK c \in Nat : c = credit /\ c < 2 * d
  BY <1>1 DEF Nothing
<1>3. flying = <<>> /\ Len(flying) = 0 /\ flying \in Seq(1..4)
  BY DEF Nothing
<1>4. Flight(n, d)
  BY <1>3 DEF Flight, Nothing, AgesFit
<1>5. Arrived(n, d) /\ Idle
  BY DEF Arrived, Idle, Nothing
<1>6. Samples(d) = 16 * c
  <2>1. Backlog = 0 + 32 * 0 /\ Lag(d) = c + 2 * d * 0
    BY <1>2, <1>3 DEF Backlog, Lag, Nothing
  <2>2. d * (0 + 32 * 0) + 16 * (c + 2 * d * 0) = 16 * c
    BY <1>1
  <2> QED
    BY <2>1, <2>2 DEF Samples
<1>7. 16 * c < 96 * d + 80 * n /\ 16 * c < 96 * d + 96 * n
  BY <1>1, <1>2
<1>8. 0 <= Backlog /\ 0 % 32 = 0
  BY DEF Backlog, Nothing
<1> QED
  BY <1>4, <1>5, <1>6, <1>7, <1>8 DEF Waiting, Nothing

\* The same for the next state.
LEMMA NothingWaitsNext ==
  ASSUME NEW n, NEW d, Near(n, d), Nothing(d)'
  PROVE  Flight(n, d)' /\ Arrived(n, d)' /\ Waiting(n, d)' /\ Idle'
<1>1. n \in Nat \ {0} /\ d \in Nat \ {0}
  BY DEF Near
<1>2. PICK c \in Nat : c = credit' /\ c < 2 * d
  BY <1>1 DEF Nothing
<1>3. flying' = <<>> /\ Len(flying') = 0 /\ flying' \in Seq(1..4)
  BY DEF Nothing
<1>4. Flight(n, d)'
  BY <1>3 DEF Flight, Nothing, AgesFit
<1>5. Arrived(n, d)' /\ Idle'
  BY DEF Arrived, Idle, Nothing
<1>6. Samples(d)' = 16 * c
  <2>1. Backlog' = 0 + 32 * 0 /\ Lag(d)' = c + 2 * d * 0
    BY <1>2, <1>3 DEF Backlog, Lag, Nothing
  <2>2. d * (0 + 32 * 0) + 16 * (c + 2 * d * 0) = 16 * c
    BY <1>1
  <2> QED
    BY <2>1, <2>2 DEF Samples
<1>7. 16 * c < 96 * d + 80 * n /\ 16 * c < 96 * d + 96 * n
  <2>1. c < 2 * d
    BY <1>2
  <2>2. PICK m \in Nat, l \in Nat : m = d /\ l = n
    BY <1>1
  <2>3. 16 * c < 96 * m + 80 * l /\ 16 * c < 96 * m + 96 * l
    BY <2>1, <2>2
  <2> QED
    BY <2>2, <2>3
<1>8. 0 <= Backlog' /\ 0 % 32 = 0
  BY DEF Backlog, Nothing
<1> QED
  BY <1>4, <1>5, <1>6, <1>7, <1>8 DEF Waiting, Nothing

\* A reader that waits with nothing to read goes on waiting.
LEMMA NothingRead ==
  ASSUME AsBuilt, visible = 0, fill = 0, total = 0, running = FALSE, Read
  PROVE  fill' = 0 /\ total' = 0 /\ running' = FALSE
<1>1. ~pop /\ consume = 0
  BY DEF pop, consume
<1>2. fill' = (0 + 0 - 0) % 128
  BY <1>1 DEF Read, FillRange
<1>3. (0 + 0 - 0) % 128 = 0
  OBVIOUS
<1>4. total' = 0 + 0 * 32
  BY DEF Read, E, AsBuilt
<1>5. ~start
  BY DEF start, AsBuilt
<1>6. running' = FALSE
  BY <1>5 DEF Read
<1> QED
  BY <1>2, <1>3, <1>4, <1>6

\* A domain stays up until its reset comes.
LEMMA StaysUp ==
  ASSUME Locks, NEW e, Clocks(e), \A c \in Domains : e[c] \in Nat, NEW d \in Domains, ~up(d)'
  PROVE  ~up(d) \/ arst(d)'
<1> SUFFICES ASSUME up(d), ~arst(d)' PROVE FALSE
  OBVIOUS
<1>1. released[d] = 2
  BY DEF up, Stages
<1>2. ~arst(d)
  BY <1>1 DEF Locks
<1>3. released'[d] = IF released[d] + e[d] < 2 THEN released[d] + e[d] ELSE 2
  BY <1>2 DEF Clocks, Stages
<1>4. PICK m \in Nat : m = e[d]
  OBVIOUS
<1>5. released'[d] = 2
  BY <1>1, <1>3, <1>4
<1> QED
  BY <1>5 DEF up, Stages

\* The resampler at any time, with the ratio n to d of its clocks.
Keeps(n, d) ==
  /\ rate[1] = n /\ rate[2] = d /\ Flight(n, d) /\ Arrived(n, d) /\ Idle
  /\ \/ running = TRUE /\ Settled(n, d)
     \/ running = FALSE /\ Waiting(n, d)
\* The inductive invariant of the resampler, for some pair of near clocks.
Resampled == \E n, d : Near(n, d) /\ Keeps(n, d)

\* An entry comes in a cycle of the reader, or in none.
LEMMA FifoKeeps ==
  ASSUME AsBuilt, NEW n, NEW d, Near(n, d), Keeps(n, d), Fifo
  PROVE  Flight(n, d)' /\ \E k \in 0..2 : Shows(n, d, k)
<1>1. credit + n >= 2 * d => Len(flying) + visible <= 6
  BY SettledRoom, WaitingRoom DEF Keeps, Settled
<1> QED
  BY <1>1, FlightFifo DEF Keeps

\* Time passes for what is on its way.
LEMMA ArrivedNext ==
  ASSUME AsBuilt, NEW n, NEW d, Near(n, d), Keeps(n, d), Fifo, NEW k \in 0..2, Shows(n, d, k),
         Read \/ ReadReset
  PROVE  Arrived(n, d)'
<1>1. n \in Nat \ {0} /\ d \in Nat \ {0}
  BY DEF Near
<1>2. Lag(d) \in Nat /\ visible \in Nat
  BY LagBelow DEF Flight, Keeps
<1>3. CASE k > 0
  BY <1>3 DEF Shows, Arrived
<1>4. CASE k = 0
  <2>1. Lag(d)' = Lag(d) + n
    <3>1. 2 * d * 0 = 0
      BY <1>1
    <3>2. Lag(d)' = Lag(d) + n - 0
      BY <1>4, <3>1 DEF Shows
    <3> QED
      BY <1>1, <1>2, <3>2
  <2>2. CASE visible > 0 \/ fill > 0 \/ total > 0 \/ running
    <3>1. 3 * n <= Lag(d)
      BY <2>2 DEF Arrived, Keeps
    <3>2. 3 * n <= Lag(d)'
      BY <1>1, <1>2, <2>1, <3>1
    <3> QED
      BY <3>2 DEF Arrived
  <2>3. CASE ~(visible > 0 \/ fill > 0 \/ total > 0 \/ running)
    <3>1. visible = 0 /\ running = FALSE /\ fill = 0 /\ total = 0
      <4>1. running = FALSE /\ Waiting(n, d)
        BY <2>3 DEF Keeps
      <4>2. PICK v \in Nat, f \in Nat, t \in Nat : v = visible /\ f = fill /\ t = total
        BY <1>2, <4>1 DEF Waiting
      <4> QED
        BY <2>3, <4>1, <4>2
    <3>2. ~pop /\ Popped = 0
      BY <3>1 DEF pop, Popped
    <3>3. visible' = 0
      BY <1>4, <3>1, <3>2 DEF Shows
    <3>4. CASE ReadReset
      BY <3>3, <3>4 DEF ReadReset, Arrived
    <3>5. CASE Read
      <4>1. fill' = 0 /\ total' = 0 /\ running' = FALSE
        BY <3>1, <3>5, NothingRead
      <4> QED
        BY <3>3, <4>1 DEF Arrived
    <3> QED
      BY <3>4, <3>5
  <2> QED
    BY <2>2, <2>3
<1> QED
  BY <1>3, <1>4

\* A cycle of both sides, of one while the other is in reset, or of none.
LEMMA KeepsNext ==
  ASSUME AsBuilt, NEW n, NEW d, Near(n, d), Keeps(n, d), Resample,
         ~up("tx_async")' => ~up("tx_async") \/ arst("tx_async")',
         ~up("rx_cdr")' => ~up("rx_cdr") \/ arst("rx_cdr")',
         arst("tx_async")' <=> arst("rx_cdr")'
  PROVE  Keeps(n, d)'
<1>1. rate'[1] = n /\ rate'[2] = d
  BY DEF Resample, Keeps
<1>2. n \in Nat \ {0} /\ d \in Nat \ {0}
  BY DEF Near
<1>3. CASE up("tx_async") /\ ~arst("tx_async")'
  <2>1. Fifo
    BY <1>3 DEF Resample, in_domain
  <2>2. Flight(n, d)'
    BY <2>1, FifoKeeps
  <2>3. PICK k \in 0..2 : Shows(n, d, k)
    BY <2>1, FifoKeeps
  <2>4. CASE up("rx_cdr")
    <3>1. Read /\ up("tx_async")' /\ up("rx_cdr")'
      BY <1>3, <2>4 DEF Resample, out_domain
    <3>2. Arrived(n, d)'
      BY <2>1, <2>3, <3>1, ArrivedNext
    <3>a. Idle'
      BY <3>1 DEF Idle
    <3>3. CASE running = TRUE
      <4>1. Settled(n, d)'
        BY <2>3, <3>1, <3>3, SettledNext DEF Keeps
      <4>2. running' = TRUE
        BY <3>1, <3>3 DEF Read
      <4> QED
        BY <1>1, <2>2, <3>a, <3>2, <4>1, <4>2 DEF Keeps
    <3>4. CASE running = FALSE
      <4>1. CASE total < 96
        <5>1. running' = FALSE /\ Waiting(n, d)'
          BY <2>3, <3>1, <3>4, <4>1, WaitingNext DEF Keeps
        <5> QED
          BY <1>1, <2>2, <3>a, <3>2, <5>1 DEF Keeps
      <4>2. CASE ~(total < 96)
        <5>1. running' = TRUE /\ Settled(n, d)'
          BY <2>3, <3>1, <3>4, <4>2, StartNext DEF Keeps
        <5> QED
          BY <1>1, <2>2, <3>a, <3>2, <5>1 DEF Keeps
      <4> QED
        BY <4>1, <4>2
    <3> QED
      BY <3>3, <3>4 DEF Keeps
  <2>5. CASE ~up("rx_cdr")
    <3>1. ReadReset /\ up("tx_async")'
      BY <1>3, <2>5 DEF Resample, out_domain
    <3>2. Arrived(n, d)'
      BY <2>1, <2>3, <3>1, ArrivedNext
    <3>3. fill = 0 /\ total = 0 /\ running = FALSE /\ Waiting(n, d)
      BY <2>5 DEF Keeps, Idle
    <3>4. Waiting(n, d)'
      <4>1. PICK v \in Nat, L \in Nat, p \in 0..1 : v = visible /\ L = Lag(d) /\ p = Popped
        <5>1. visible \in Nat /\ Lag(d) \in Nat
          BY LagBelow DEF Keeps, Flight
        <5>2. Popped \in 0..1
          BY DEF Popped
        <5> QED
          BY <5>1, <5>2
      <4>2. p = 1 <=> v > 0
        BY <3>3, <4>1 DEF Popped, pop, AsBuilt, E
      <4>3. L < 2 * d + 4 * n
        BY <4>1, LagBelow DEF Keeps
      <4>4. visible' = v + k - p /\ Lag(d)' = L + n - 2 * d * k /\ fill' = 0 /\ total' = 0
        BY <2>3, <3>1, <4>1 DEF Shows, ReadReset
      <4>5. Samples(d) = d * (0 + 32 * v) + 16 * L
        BY <3>3, <4>1 DEF Samples, Backlog
      <4>6. Samples(d)' = d * (0 + 32 * (v + k - p)) + 16 * (L + n - 2 * d * k)
        BY <4>4 DEF Samples, Backlog
      <4>7. d * (0 + 32 * (v + k - p)) + 16 * (L + n - 2 * d * k) = 32 * (d * v) + 16 * L + 16 * n - 32 * (d * p)
        BY <1>2, <4>1
      <4>8. d * (0 + 32 * v) + 16 * L = 32 * (d * v) + 16 * L
        BY <1>2, <4>1
      <4>9. PICK x \in Nat, y \in Int : x = d * v /\ y = d * p
        BY <1>2, <4>1
      <4>10. 32 * x + 16 * L < 96 * d + 80 * n
        BY <3>3, <4>5, <4>8, <4>9 DEF Waiting
      <4>11. 32 * x + 16 * L + 16 * n - 32 * y < 96 * d + 80 * n
        <5>1. CASE v = 0
          <6>1. x = 0 /\ y = 0
            BY <1>2, <4>1, <4>2, <4>9, <5>1
          <6> QED
            BY <1>2, <4>1, <4>3, <6>1
        <5>2. CASE v # 0
          <6>1. y = d
            BY <1>2, <4>1, <4>2, <4>9, <5>2
          <6>2. n <= 2 * d
            BY DEF Near
          <6> QED
            BY <1>2, <4>1, <4>9, <4>10, <6>1, <6>2
        <5> QED
          BY <5>1, <5>2
      <4>12. Samples(d)' = 32 * x + 16 * L + 16 * n - 32 * y
        BY <4>6, <4>7, <4>9
      <4>13. Samples(d)' < 96 * d + 80 * n /\ Samples(d)' < 96 * d + 96 * n
        BY <1>2, <4>1, <4>9, <4>11, <4>12
      <4>14. 0 <= Backlog' /\ 0 % 32 = 0
        <5>1. v + k - p \in Nat
          BY <4>1, <4>2
        <5> QED
          BY <4>4, <5>1 DEF Backlog
      <4>15. /\ holdoff' = 0 /\ drop' = FALSE /\ dup' = FALSE /\ since' = 8 /\ last' = "none"
        BY <3>1 DEF ReadReset, AsBuilt
      <4> QED
        BY <4>4, <4>13, <4>14, <4>15 DEF Waiting
    <3>5. running' = FALSE /\ fill' = 0 /\ total' = 0
      BY <3>1 DEF ReadReset
    <3>6. Idle'
      BY <3>1, <3>5 DEF Idle
    <3> QED
      BY <1>1, <2>2, <3>2, <3>4, <3>5, <3>6 DEF Keeps
  <2> QED
    BY <2>4, <2>5
<1>4. CASE ~(up("tx_async") /\ ~arst("tx_async")')
  <2>1. FifoReset
    BY <1>4 DEF Resample, in_domain
  <2>2. credit' \in 0..(2 * d - 1)
    <3>1. credit' = (credit + n) % (2 * d)
      BY <2>1 DEF FifoReset, Keeps
    <3>2. credit \in Nat
      BY <1>2 DEF Keeps, Flight
    <3>3. PICK a \in Nat, m \in Nat \ {0} : a = credit + n /\ m = 2 * d
      BY <1>2, <3>2
    <3>4. a % m \in 0..(m - 1)
      BY <3>3
    <3> QED
      BY <3>1, <3>3, <3>4
  <2>3. Nothing(d)'
    <3>1. flying' = <<>> /\ visible' = 0 /\ overflow' = FALSE
      BY <2>1 DEF FifoReset
    <3>2. CASE up("rx_cdr") /\ ~arst("rx_cdr")'
      <4>1. Read /\ ~up("tx_async")
        BY <1>4, <3>2 DEF Resample, out_domain
      <4>2. visible = 0 /\ fill = 0 /\ total = 0 /\ running = FALSE /\ Waiting(n, d)
        BY <4>1 DEF Keeps, Idle
      <4>3. fill' = 0 /\ total' = 0 /\ running' = FALSE
        BY <4>1, <4>2, NothingRead
      <4>4. drop_next = FALSE /\ dup_next = FALSE
        BY <4>2 DEF drop_next, dup_next
      <4>5. next_holdoff = 0
        BY <4>2, <4>4 DEF next_holdoff, armed, Waiting
      <4>6. holdoff' = 0 /\ drop' = FALSE /\ dup' = FALSE /\ since' = 8 /\ last' = "none"
        BY <4>1, <4>2, <4>4, <4>5 DEF Read, Waiting, AsBuilt
      <4> QED
        BY <2>2, <3>1, <4>3, <4>6 DEF Nothing
    <3>3. CASE ~(up("rx_cdr") /\ ~arst("rx_cdr")')
      <4>1. ReadReset
        BY <3>3 DEF Resample, out_domain
      <4> QED
        BY <2>2, <3>1, <4>1 DEF Nothing, ReadReset, AsBuilt
    <3> QED
      BY <3>2, <3>3
  <2> QED
    BY <1>1, <2>3, NothingWaitsNext DEF Keeps, Nothing
<1> QED
  BY <1>3, <1>4

\* It starts with nothing.
LEMMA ResampledInit ==
  ASSUME AsBuilt, CloseRates, LoopbackInit
  PROVE  Resampled
<1>1. Near(rate[1], rate[2])
  BY DEF LoopbackInit, ResamplerInit, CloseRates
<1>2. PICK n, d : n = rate[1] /\ d = rate[2]
  OBVIOUS
<1>3. Near(n, d)
  BY <1>1, <1>2
<1>4. Nothing(d)
  BY <1>2 DEF LoopbackInit, ResamplerInit, Nothing, AsBuilt
<1>5. Flight(n, d) /\ Arrived(n, d) /\ Waiting(n, d) /\ Idle
  BY <1>3, <1>4, NothingWaits
<1>6. Keeps(n, d)
  BY <1>2, <1>4, <1>5 DEF Keeps, Nothing
<1> QED
  BY <1>3, <1>6 DEF Resampled

\* Every step keeps it.
LEMMA ResampledNext ==
  ASSUME AsBuilt, StartUp, Resampled, [LoopbackNext]_allVars
  PROVE  Resampled'
<1>1. PICK n, d : Near(n, d) /\ Keeps(n, d)
  BY DEF Resampled
<1>2. CASE LoopbackNext
  <2>1. Clocks(edges) /\ Resample /\ Locks /\ \A c \in Domains : edges[c] \in Nat
    BY <1>2, EdgesAreNatural DEF LoopbackNext, StartUp
  <2>2. "tx_async" \in Domains /\ "rx_cdr" \in Domains
    BY DEF Domains
  <2>3. /\ ~up("tx_async")' => ~up("tx_async") \/ arst("tx_async")'
        /\ ~up("rx_cdr")' => ~up("rx_cdr") \/ arst("rx_cdr")'
    BY <2>1, <2>2, StaysUp
  <2>4. arst("tx_async")' <=> arst("rx_cdr")'
    BY DEF arst
  <2>5. Keeps(n, d)'
    BY <1>1, <2>1, <2>3, <2>4, KeepsNext
  <2> QED
    BY <1>1, <2>5 DEF Resampled
<1>3. CASE UNCHANGED allVars
  <2>1. /\ UNCHANGED <<released, rate, credit, flying, visible, overflow, fill, total>>
        /\ UNCHANGED <<running, holdoff, drop, dup, since, last>>
    BY <1>3 DEF allVars, clockVars, resamplerVars, fifoVars
  <2>2. Lag(d)' = Lag(d) /\ Backlog' = Backlog /\ Drift(n, d)' = Drift(n, d)
    BY <2>1 DEF Lag, Backlog, Drift
  <2>3. Samples(d)' = Samples(d) /\ Corrected(d)' = Corrected(d)
    BY <2>1, <2>2 DEF Samples, Corrected
  <2>4. Flight(n, d)' /\ Arrived(n, d)' /\ Idle' /\ Waiting(n, d)' = Waiting(n, d)
    BY <1>1, <2>1, <2>2, <2>3 DEF Keeps, Flight, AgesFit, Arrived, Idle, up, Waiting
  <2>5. Settled(n, d) => Settled(n, d)'
    <3>1. Pace => Pace'
      BY <2>1 DEF Pace
    <3>2. Seen(n, d) => Seen(n, d)'
      BY <2>1, <2>2, <2>3 DEF Seen
    <3>3. Upper(n, d) => Upper(n, d)'
      BY <2>1, <2>2, <2>3 DEF Upper
    <3>4. Lower(n, d) => Lower(n, d)'
      BY <2>1, <2>2, <2>3 DEF Lower, Late
    <3>5. Slow(n, d) => Slow(n, d)'
      BY <2>1, <2>2, <2>3 DEF Slow, Below
    <3>6. Fast(n, d) => Fast(n, d)'
      BY <2>1, <2>2, <2>3 DEF Fast, Above
    <3> QED
      BY <3>1, <3>2, <3>3, <3>4, <3>5, <3>6 DEF Settled
  <2> QED
    BY <1>1, <2>1, <2>4, <2>5 DEF Resampled, Keeps
<1> QED
  BY <1>2, <1>3

\* It holds at any time.
LEMMA ResampledHolds == AsBuilt /\ CloseRates => (LoopbackSpec => []Resampled)
<1> SUFFICES ASSUME AsBuilt, CloseRates PROVE LoopbackSpec => []Resampled
  OBVIOUS
<1>1. LoopbackInit => Resampled
  BY ResampledInit
<1>2. StartUp /\ Resampled /\ [LoopbackNext]_allVars => Resampled'
  BY ResampledNext
<1> QED
  BY <1>1, <1>2, StartUpHolds, PTL DEF LoopbackSpec

(* The crossing FIFO never overruns, with the built sizes and whichever two
   clocks within one part in 144 of each other, also while they come and go. *)
THEOREM FifoNeverOverruns == AsBuilt /\ CloseRates => (LoopbackSpec => []NeverOverruns)
<1> SUFFICES ASSUME AsBuilt, CloseRates PROVE LoopbackSpec => []NeverOverruns
  OBVIOUS
<1>1. Resampled => NeverOverruns
  BY DEF Resampled, Keeps, Flight, NeverOverruns
<1> QED
  BY <1>1, ResampledHolds, PTL

(* The buffer of a running reader holds what the next word takes, and never
   more than it has room for. *)
THEOREM BufferHoldsAWord == AsBuilt /\ CloseRates => (LoopbackSpec => []KeepsValidSamples)
<1> SUFFICES ASSUME AsBuilt, CloseRates PROVE LoopbackSpec => []KeepsValidSamples
  OBVIOUS
<1>1. Resampled => KeepsValidSamples
  BY DEF Resampled, Keeps, Settled, Pace, KeepsValidSamples, AsBuilt
<1> QED
  BY <1>1, ResampledHolds, PTL

(* Steps are eight cycles apart, and all of them go the way of the offset once
   one has. *)
THEOREM StepsGoOneWay == AsBuilt /\ CloseRates => (LoopbackSpec => StepsLikeAnOffset)
<1> SUFFICES ASSUME AsBuilt, CloseRates PROVE LoopbackSpec => StepsLikeAnOffset
  OBVIOUS
<1>1. Resampled => /\ drop \/ dup => since >= HOLDOFF
                   /\ drop /\ rate[1] < rate[2] => last # "dup"
                   /\ dup /\ rate[1] > rate[2] => last # "drop"
  <2> SUFFICES ASSUME Resampled
               PROVE  /\ drop \/ dup => since >= HOLDOFF
                      /\ drop /\ rate[1] < rate[2] => last # "dup"
                      /\ dup /\ rate[1] > rate[2] => last # "drop"
    OBVIOUS
  <2>1. PICK n, d : Keeps(n, d)
    BY DEF Resampled
  <2>2. CASE running = TRUE /\ Settled(n, d)
    <3>1. drop \/ dup => since = 8
      BY <2>2 DEF Settled, Pace
    <3>2. drop /\ n < d => last # "dup"
      BY <2>2 DEF Settled, Slow
    <3>3. dup /\ n > d => last # "drop"
      BY <2>2 DEF Settled, Fast
    <3> QED
      BY <2>1, <3>1, <3>2, <3>3 DEF Keeps, AsBuilt
  <2>3. CASE Waiting(n, d)
    BY <2>3 DEF Waiting
  <2> QED
    BY <2>1, <2>2, <2>3 DEF Keeps
<1>2. Resampled => [/\ drop \/ dup => since >= HOLDOFF
                    /\ drop /\ rate[1] < rate[2] => last # "dup"
                    /\ dup /\ rate[1] > rate[2] => last # "drop"]_resamplerVars
  BY <1>1
<1> QED
  BY <1>2, ResampledHolds, PTL DEF StepsLikeAnOffset

-----------------------------------------------------------------------------
(* The link test.  A packet is followed through the registers that made it:
   a and b are the two sums and l the shift register after each of its bytes. *)

\* The first n bytes of p are those of the packet with number z.
Traced(p, n, z, a, b, l) ==
  /\ a[0] = 0 /\ b[0] = 0 /\ l[2] = lfsr_seed(z)
  /\ \A i \in 1..n : a[i] = (a[i - 1] + p[i]) % 256 /\ b[i] = (b[i - 1] + a[i]) % 256
  /\ n >= 1 => p[1] = z % 256
  /\ n >= 2 => p[2] = z \div 256
  /\ \A i \in 3..n : p[i] = l[i - 1] % 256 /\ l[i] = lfsr_step(l[i - 1])

\* The byte that comes after n of them.
Follows(byte, n, z, l) ==
  /\ n = 0 => byte = z % 256
  /\ n = 1 => byte = z \div 256
  /\ n >= 2 => byte = l[n] % 256

\* The shift register after n bytes.
Now(l, n) == l[IF n < 2 THEN 2 ELSE n]

\* A trace with one byte more.
Longer(p, n, z, a, b, l, byte, a2, b2, l2) ==
  /\ Traced(Append(p, byte), n + 1, z, a2, b2, l2)
  /\ a2[n + 1] = (a[n] + byte) % 256 /\ b2[n + 1] = (b[n] + a2[n + 1]) % 256
  /\ Now(l2, n + 1) = IF n < 2 THEN l[2] ELSE lfsr_step(l[n])

\* p is the whole packet with number z: the sums are its last two bytes.
MadeBy(p, z, a, b, l) ==
  /\ p \in Seq(Octet) /\ Len(p) >= 5 /\ Len(p) <= 1027
  /\ Traced(p, Len(p) - 2, z, a, b, l)
  /\ p[Len(p) - 1] = a[Len(p) - 2] /\ p[Len(p)] = b[Len(p) - 2]

\* p is the generator's packet of number z.
Made(p, z) ==
  \E a \in [Nat -> Octet], b \in [Nat -> Octet], l \in [Nat -> Word] : MadeBy(p, z, a, b, l)

\* A payload length.
Fits(n) == n \in Nat /\ n > 0 /\ n < 1024

\* The generator's registers go with the bytes it has handed over.
Building(a, b, l, n) ==
  /\ sending \in Seq(Octet) /\ n \in Nat /\ n <= 1025
  /\ Len(sending) = IF g_state = "CK2" THEN n + 1 ELSE n
  /\ Traced(sending, n, g_seq, a, b, l)
  /\ g_f1 = a[n] /\ g_f2 = b[n] /\ g_lfsr = Now(l, n)
  /\ g_state = "SEQ_LO" => n = 0
  /\ g_state = "SEQ_HI" => n = 1
  /\ g_state \in {"SEQ_LO", "SEQ_HI"} => Fits(remaining)
  /\ g_state = "PAYLOAD" => n >= 2 /\ Fits(remaining) /\ n + remaining <= 1025
  /\ g_state \in {"CK1", "CK2"} => n >= 3
  /\ g_state = "CK2" => sending[n + 1] = a[n]

\* What was sent so far is the beginning of the packet of g_seq, and the registers its traces.
InMaking ==
  g_state # "GAP" =>
    \E a \in [Nat -> Octet], b \in [Nat -> Octet], l \in [Nat -> Word], n \in Nat :
      Building(a, b, l, n)

\* The generator's registers keep to their widths.
GenTypes ==
  /\ g_state \in {"GAP", "SEQ_LO", "SEQ_HI", "PAYLOAD", "CK1", "CK2"}
  /\ g_seq \in Word /\ g_lfsr \in Word /\ g_f1 \in Octet /\ g_f2 \in Octet
  /\ length_sel \in 0..(Len(LENGTHS) - 1) /\ gap \in 0..gap_cycles /\ packets \in Nat
  /\ g_state = "GAP" => sending = <<>>

\* Packets are numbered from the present one backwards.
Number(o) == (g_seq + o - 1 - packets) % 65536

\* What the generator has put on the link is its last packet.
OnLink ==
  carried # <<>> =>
    packets >= 1 /\ \E p \in Seq(Octet) : carried = <<p>> /\ Made(p, Number(packets))

\* The generator's inductive invariant.
GenInv == GenTypes /\ InMaking /\ OnLink

-----------------------------------------------------------------------------

\* A set of integers up to a bound, the bound a variable: a range of literals the provers would list.
LEMMA InRange == \A n \in Int : \A x : x \in 0..n <=> x \in Int /\ 0 <= x /\ x <= n
  BY SMT

\* What a byte is.
LEMMA InOctet == \A x : x \in Octet <=> x \in Int /\ 0 <= x /\ x <= 255
  BY SMT DEF Octet

\* What a sixteen-bit word is.
LEMMA InWord == \A x : x \in Word <=> x \in Int /\ 0 <= x /\ x <= 65535
<1>1. PICK n \in Int : n = 65535
  BY SMT
<1>2. Word = 0..n
  BY <1>1, SMT DEF Word
<1>3. \A x : x \in 0..n <=> x \in Int /\ 0 <= x /\ x <= n
  BY InRange, SMT
<1>4. \A x : x \in Word <=> x \in Int /\ 0 <= x /\ x <= n
  BY <1>2, <1>3, Zenon
<1> QED
  BY <1>1, <1>4, SMT

\* ZeroFits is a value of each.
LEMMA ZeroFits == 0 \in Octet /\ 0 \in Word
<1>1. 0 \in Octet
  BY InOctet, SMT
<1>2. 0 \in Word
  BY InWord, SMT
<1> QED
  BY <1>1, <1>2

\* A remainder by 256 is a byte.
LEMMA ToOctet == \A x \in Int : x % 256 \in Octet
<1> TAKE x \in Int
<1>1. x % 256 \in Int /\ 0 <= x % 256 /\ x % 256 <= 255
  BY SMT
<1> QED
  BY <1>1, InOctet

\* A remainder by 65536 is a word.
LEMMA ToWord == \A x \in Int : x % 65536 \in Word
<1> TAKE x \in Int
<1>1. x % 65536 \in Int /\ 0 <= x % 65536 /\ x % 65536 <= 65535
  BY SMT
<1> QED
  BY <1>1, InWord

\* The two bytes of a word.
LEMMA Halves == \A s \in Word : s % 256 \in Octet /\ s \div 256 \in Octet
<1> TAKE s \in Word
<1>1. s \in Int /\ 0 <= s /\ s <= 65535
  BY InWord
<1>2. s \div 256 \in Int /\ 0 <= s \div 256 /\ s \div 256 <= 255
  BY <1>1, SMT
<1> QED
  BY <1>1, <1>2, InOctet, ToOctet

\* A bit is 0 or 1.
LEMMA BitType ==
  \A s \in Int : \A v \in Nat \ {0} : BitAt(s, v) \in Int /\ 0 <= BitAt(s, v) /\ BitAt(s, v) <= 1
<1> TAKE s \in Int
<1> TAKE v \in Nat \ {0}
<1>1. PICK q \in Int : q = s \div v
  BY SMT
<1>2. q % 2 \in Int /\ 0 <= q % 2 /\ q % 2 <= 1
  BY SMT
<1> QED
  BY <1>1, <1>2 DEF BitAt

\* The shift register stays within its sixteen bits when it is stepped.
LEMMA StepType == \A s \in Word : lfsr_step(s) \in Word
<1> TAKE s \in Word
<1>1. s \in Int /\ 0 <= s /\ s <= 65535
  BY InWord
<1>2. PICK x \in Int : x = BitAt(s, 1) + BitAt(s, 4) + BitAt(s, 8) + BitAt(s, 32)
  <2>1. BitAt(s, 1) \in Int /\ BitAt(s, 4) \in Int /\ BitAt(s, 8) \in Int /\ BitAt(s, 32) \in Int
    BY <1>1, BitType
  <2> QED
    BY <2>1
<1>3. PICK y \in Int : y = x % 2 /\ 0 <= y /\ y <= 1
  <2>1. x % 2 \in Int /\ 0 <= x % 2 /\ x % 2 <= 1
    BY SMT
  <2> QED
    BY <2>1
<1>4. PICK h \in Int : h = s \div 2 /\ 0 <= h /\ h <= 32767
  <2>1. s \div 2 \in Int /\ 0 <= s \div 2 /\ s \div 2 <= 32767
    BY <1>1, SMT
  <2> QED
    BY <2>1
<1>5. lfsr_step(s) = h + 32768 * y
  BY <1>2, <1>3, <1>4 DEF lfsr_step
<1>6. h + 32768 * y \in Int /\ 0 <= h + 32768 * y /\ h + 32768 * y <= 65535
  BY <1>3, <1>4, SMT
<1> QED
  BY <1>5, <1>6, InWord

\* It is seeded within them.
LEMMA SeedType == \A s \in Int : lfsr_seed(s) \in Word
<1> TAKE s \in Int
<1>1. Common(s) \in Int
  <2>1. /\ BitAt(s, 2) \in Int /\ BitAt(s, 8) \in Int /\ BitAt(s, 16) \in Int
        /\ BitAt(s, 64) \in Int /\ BitAt(s, 512) \in Int /\ BitAt(s, 2048) \in Int
        /\ BitAt(s, 4096) \in Int /\ BitAt(s, 16384) \in Int
    BY BitType, SMT
  <2> QED
    BY <2>1, SMT DEF Common
<1>2. PICK x \in Int : x = s + 23130 - 2 * Common(s)
  BY <1>1, SMT
<1>3. PICK y \in Int : y = x % 32768 /\ 0 <= y /\ y <= 32767
  <2>1. x % 32768 \in Int /\ 0 <= x % 32768 /\ x % 32768 <= 32767
    BY SMT
  <2> QED
    BY <2>1
<1>4. lfsr_seed(s) = 32768 + y
  BY <1>2, <1>3, SMT DEF lfsr_seed
<1>5. 32768 + y \in Int /\ 0 <= 32768 + y /\ 32768 + y <= 65535
  BY <1>3, SMT
<1> QED
  BY <1>4, <1>5, InWord, SMT

\* A byte more carries the trace on.
LEMMA Grows ==
  ASSUME NEW a \in [Nat -> Octet], NEW b \in [Nat -> Octet], NEW l \in [Nat -> Word],
         NEW n \in Nat, NEW p \in Seq(Octet), Len(p) = n, NEW z \in Word, NEW byte \in Octet,
         Traced(p, n, z, a, b, l), Follows(byte, n, z, l)
  PROVE  \E a2 \in [Nat -> Octet], b2 \in [Nat -> Octet], l2 \in [Nat -> Word] :
           Longer(p, n, z, a, b, l, byte, a2, b2, l2)
<1> DEFINE x == (a[n] + byte) % 256
           y == (b[n] + x) % 256
           a2 == [a EXCEPT ![n + 1] = x]
           b2 == [b EXCEPT ![n + 1] = y]
           l2 == IF n < 2 THEN l ELSE [l EXCEPT ![n + 1] = lfsr_step(l[n])]
           q == Append(p, byte)
<1>1. a[n] \in Octet /\ b[n] \in Octet /\ l[n] \in Word
  OBVIOUS
<1>2. x \in Octet
  BY <1>1, InOctet, ToOctet
<1>3. y \in Octet
  BY <1>1, <1>2, InOctet, ToOctet
<1>4. lfsr_step(l[n]) \in Word
  BY <1>1, StepType
<1>5. a2 \in [Nat -> Octet] /\ b2 \in [Nat -> Octet] /\ l2 \in [Nat -> Word]
  BY <1>2, <1>3, <1>4
<1>6. a2[n + 1] = x /\ b2[n + 1] = y /\ \A i \in 0..n : a2[i] = a[i] /\ b2[i] = b[i]
  OBVIOUS
<1>7. /\ n >= 2 => l2[n + 1] = lfsr_step(l[n])
      /\ \A i \in Nat : i <= n \/ n < 2 => l2[i] = l[i]
  OBVIOUS
<1>8. q[n + 1] = byte /\ \A i \in 1..n : q[i] = p[i]
  OBVIOUS
<1> HIDE DEF x, y, a2, b2, l2, q
<1>9. a2[0] = 0 /\ b2[0] = 0 /\ l2[2] = lfsr_seed(z)
  BY <1>6, <1>7 DEF Traced
<1>10. ASSUME NEW i \in 1..(n + 1)
       PROVE  a2[i] = (a2[i - 1] + q[i]) % 256 /\ b2[i] = (b2[i - 1] + a2[i]) % 256
  <2>1. CASE i = n + 1
    <3>1. i - 1 = n /\ a2[i - 1] = a[n] /\ b2[i - 1] = b[n]
      BY <2>1, <1>6
    <3> QED
      BY <2>1, <3>1, <1>6, <1>8 DEF x, y
  <2>2. CASE i # n + 1
    <3>1. i \in 1..n /\ i - 1 \in 0..n /\ i \in 0..n
      BY <2>2
    <3>2. a[i] = (a[i - 1] + p[i]) % 256 /\ b[i] = (b[i - 1] + a[i]) % 256
      BY <3>1 DEF Traced
    <3> QED
      BY <3>1, <3>2, <1>6, <1>8
  <2> QED
    BY <2>1, <2>2
<1>11. n + 1 >= 1 => q[1] = z % 256
  BY <1>8 DEF Traced, Follows
<1>12. n + 1 >= 2 => q[2] = z \div 256
  BY <1>8 DEF Traced, Follows
<1>13. ASSUME NEW i \in 3..(n + 1) PROVE q[i] = l2[i - 1] % 256 /\ l2[i] = lfsr_step(l2[i - 1])
  <2>1. CASE i = n + 1
    <3>1. i - 1 = n /\ n >= 2 /\ l2[n] = l[n]
      BY <2>1, <1>7 DEF Now
    <3> QED
      BY <2>1, <3>1, <1>7, <1>8 DEF Follows
  <2>2. CASE i # n + 1
    <3>1. i \in 3..n /\ i - 1 \in Nat /\ i - 1 <= n /\ i \in 1..n /\ i \in Nat
      BY <2>2
    <3>2. l2[i] = l[i] /\ l2[i - 1] = l[i - 1] /\ q[i] = p[i]
      BY <3>1, <1>7, <1>8
    <3> QED
      BY <3>1, <3>2 DEF Traced
  <2> QED
    BY <2>1, <2>2
<1>14. Traced(q, n + 1, z, a2, b2, l2)
  BY <1>9, <1>10, <1>11, <1>12, <1>13 DEF Traced
<1>15. Now(l2, n + 1) = IF n < 2 THEN l[2] ELSE lfsr_step(l[n])
  <2>1. CASE n >= 2
    BY <2>1, <1>7 DEF Now
  <2>2. CASE n = 1
    BY <2>2, <1>7 DEF Now
  <2>3. CASE n = 0
    BY <2>3, <1>7 DEF Now
  <2> QED
    BY <2>1, <2>2, <2>3
<1> QED
  BY <1>5, <1>6, <1>14, <1>15 DEF q, Longer, x, y

-----------------------------------------------------------------------------
(* The generator. *)

\* What is assumed of the payload lengths, one by one.
LEMMA Lengths ==
  /\ Len(LENGTHS) \in Nat \ {0} /\ gap_cycles \in Nat /\ MaxPackets \in Nat
  /\ \A i \in 1..Len(LENGTHS) : Fits(LENGTHS[i])
<1>1. Len(LENGTHS) \in Nat /\ DOMAIN LENGTHS = 1..Len(LENGTHS)
      /\ \A i \in 1..Len(LENGTHS) : LENGTHS[i] \in Nat
  BY LengthsAssumption
<1>2. MaxPackets \in Nat
  BY LinkAssumption
<1>3. \A i \in 1..Len(LENGTHS) : Fits(LENGTHS[i])
  BY <1>1, LengthsAssumption DEF Fits
<1> QED
  BY <1>1, <1>2, <1>3, LengthsAssumption

\* The remainder of a number is an index.
LEMMA Remainder ==
  ASSUME NEW x \in Nat, NEW n \in Nat \ {0}
  PROVE  x % n \in 0..(n - 1)
  OBVIOUS

\* The generator starts with an empty link and nothing of a packet.
LEMMA GenInit == LinkInit => GenInv
<1> SUFFICES ASSUME LinkInit PROVE GenInv
  OBVIOUS
<1>1. g_seq \in Word /\ g_seq \in Nat
  BY LinkAssumption, InWord DEF LinkInit
<1>2. length_sel \in 0..(Len(LENGTHS) - 1)
  BY <1>1, Lengths, Remainder DEF LinkInit
<1>3. GenTypes
  BY <1>1, <1>2, Lengths, ZeroFits DEF GenTypes, LinkInit
<1>4. InMaking /\ OnLink
  BY DEF InMaking, OnLink, LinkInit
<1> QED
  BY <1>3, <1>4 DEF GenInv

\* A packet is begun with its registers cleared and the shift register seeded.
LEMMA GapKeeps == ASSUME GenInv, Gap, UNCHANGED carried PROVE GenInv'
<1>1. GenTypes /\ InMaking /\ OnLink
  BY DEF GenInv
<1>2. OnLink'
  BY <1>1 DEF OnLink, Gap, Number
<1>3. CASE gap # gap_cycles
  <2>1. g_state' = "GAP" /\ gap' = gap + 1 /\ gap' \in 0..gap_cycles
    BY <1>1, <1>3, Lengths DEF Gap, GenTypes
  <2>2. GenTypes'
    BY <1>1, <1>3, <2>1 DEF Gap, GenTypes
  <2> QED
    BY <1>2, <2>1, <2>2 DEF GenInv, InMaking
<1>4. CASE gap = gap_cycles
  <2>1. /\ g_state' = "SEQ_LO" /\ gap' = 0 /\ g_f1' = 0 /\ g_f2' = 0
        /\ g_lfsr' = lfsr_seed(g_seq) /\ remaining' = LENGTHS[length_sel + 1]
        /\ g_seq' = g_seq /\ length_sel' = length_sel /\ packets' = packets /\ sending' = sending
        /\ sending = <<>>
    BY <1>1, <1>4 DEF Gap, GenTypes
  <2>2. lfsr_seed(g_seq) \in Word
    BY <1>1, SeedType, InWord DEF GenTypes
  <2>3. Fits(remaining')
    BY <1>1, <2>1, Lengths DEF GenTypes
  <2>4. GenTypes'
    BY <1>1, <2>1, <2>2, Lengths, ZeroFits DEF GenTypes
  <2>5. PICK z, s : z = [i \in Nat |-> 0] /\ s = [i \in Nat |-> lfsr_seed(g_seq)]
    OBVIOUS
  <2>6. z \in [Nat -> Octet] /\ s \in [Nat -> Word] /\ z[0] = 0 /\ s[2] = lfsr_seed(g_seq)
    BY <2>2, <2>5, ZeroFits
  <2>7. Traced(<<>>, 0, g_seq, z, z, s)
    BY <2>6 DEF Traced
  <2>8. sending' = <<>> /\ sending' \in Seq(Octet) /\ Len(sending') = 0
    BY <2>1
  <2>9. Building(z, z, s, 0)'
    BY <2>1, <2>3, <2>6, <2>7, <2>8 DEF Building, Now
  <2> QED
    BY <1>2, <2>4, <2>6, <2>9 DEF GenInv, InMaking
<1> QED
  BY <1>3, <1>4

\* A byte that is summed goes to the trace.
LEMMA SumKeeps == ASSUME GenInv, SeqBytes \/ Payload, UNCHANGED carried PROVE GenInv'
<1>0. /\ g_state \in {"SEQ_LO", "SEQ_HI", "PAYLOAD"}
      /\ g_lfsr' = IF g_state = "PAYLOAD" THEN lfsr_step(g_lfsr) ELSE g_lfsr
      /\ g_state = "SEQ_LO" => g_state' = "SEQ_HI" /\ remaining' = remaining
      /\ g_state = "SEQ_HI" => g_state' = "PAYLOAD" /\ remaining' = remaining
      /\ g_state = "PAYLOAD" =>
           remaining' = remaining - 1 /\ g_state' = IF remaining = 1 THEN "CK1" ELSE "PAYLOAD"
      /\ g_seq' = g_seq /\ length_sel' = length_sel /\ gap' = gap /\ packets' = packets
      /\ carried' = carried
  BY DEF SeqBytes, Payload
<1>1. GenTypes /\ InMaking /\ OnLink
  BY DEF GenInv
<1>b. PICK byte :
        /\ Sum(byte)
        /\ g_state = "SEQ_LO" => byte = g_seq % 256
        /\ g_state = "SEQ_HI" => byte = g_seq \div 256
        /\ g_state = "PAYLOAD" => byte = g_lfsr % 256
  BY DEF SeqBytes, Payload
<1>c. byte \in Octet
  <2>1. g_seq % 256 \in Octet /\ g_seq \div 256 \in Octet /\ g_lfsr % 256 \in Octet
    BY <1>1, Halves DEF GenTypes
  <2> QED
    BY <1>0, <1>b, <2>1
<1>2. PICK a \in [Nat -> Octet], b \in [Nat -> Octet], l \in [Nat -> Word], n \in Nat :
        Building(a, b, l, n)
  BY <1>0, <1>1 DEF InMaking
<1>3. /\ sending \in Seq(Octet) /\ n <= 1025 /\ Len(sending) = n /\ g_seq \in Word
      /\ Traced(sending, n, g_seq, a, b, l)
      /\ g_f1 = a[n] /\ g_f2 = b[n] /\ g_lfsr = Now(l, n)
  BY <1>0, <1>1, <1>2 DEF Building, GenTypes
<1>5. /\ g_state = "SEQ_LO" => n = 0
      /\ g_state = "SEQ_HI" => n = 1
      /\ g_state \in {"SEQ_LO", "SEQ_HI"} => Fits(remaining)
      /\ g_state = "PAYLOAD" => n >= 2 /\ Fits(remaining) /\ n + remaining <= 1025
  BY <1>2 DEF Building
<1>6. Follows(byte, n, g_seq, l)
  BY <1>0, <1>b, <1>3, <1>5 DEF Follows, Now
<1>7. PICK a2 \in [Nat -> Octet], b2 \in [Nat -> Octet], l2 \in [Nat -> Word] :
        Longer(sending, n, g_seq, a, b, l, byte, a2, b2, l2)
  BY <1>c, <1>3, <1>6, Grows
<1>8. /\ Traced(Append(sending, byte), n + 1, g_seq, a2, b2, l2)
      /\ Now(l2, n + 1) = IF n < 2 THEN l[2] ELSE lfsr_step(l[n])
  BY <1>7 DEF Longer
<1>9. g_f1' = a2[n + 1] /\ g_f2' = b2[n + 1] /\ sending' = Append(sending, byte)
  BY <1>b, <1>3, <1>7 DEF Sum, Longer
<1>10. sending' \in Seq(Octet) /\ Len(sending') = n + 1 /\ n + 1 \in Nat
  BY <1>c, <1>3, <1>9
<1>11. g_lfsr' = Now(l2, n + 1)
  BY <1>0, <1>3, <1>5, <1>8 DEF Now
<1>12. /\ n + 1 <= 1025
       /\ g_state' \in {"SEQ_HI", "PAYLOAD", "CK1"}
       /\ g_state' = "SEQ_HI" => n + 1 = 1 /\ Fits(remaining')
       /\ g_state' = "PAYLOAD" => n + 1 >= 2 /\ Fits(remaining') /\ n + 1 + remaining' <= 1025
       /\ g_state' = "CK1" => n + 1 >= 3
  <2>1. CASE g_state = "SEQ_LO"
    BY <2>1, <1>0, <1>5
  <2>2. CASE g_state = "SEQ_HI"
    BY <2>2, <1>0, <1>5 DEF Fits
  <2>3. CASE g_state = "PAYLOAD"
    BY <2>3, <1>0, <1>5 DEF Fits
  <2> QED
    BY <1>0, <2>1, <2>2, <2>3
<1>13. g_seq' = g_seq
  BY <1>0
<1>14. Building(a2, b2, l2, n + 1)'
  BY <1>8, <1>9, <1>10, <1>11, <1>12, <1>13 DEF Building
<1>15. InMaking'
  BY <1>8, <1>9, <1>10, <1>14 DEF InMaking
<1>16. g_lfsr' \in Word /\ g_f1' \in Octet /\ g_f2' \in Octet
  BY <1>8, <1>9, <1>10, <1>11 DEF Now
<1>17. GenTypes'
  BY <1>0, <1>1, <1>12, <1>16 DEF GenTypes
<1>18. OnLink'
  BY <1>0, <1>1 DEF OnLink, Number
<1> QED
  BY <1>15, <1>17, <1>18 DEF GenInv

\* A packet that agrees in the first bytes has the same trace so far.
LEMMA SameTrace ==
  ASSUME NEW p, NEW q, NEW n \in Nat, NEW z, NEW a, NEW b, NEW l,
         Traced(p, n, z, a, b, l), \A i \in 1..n : q[i] = p[i]
  PROVE  Traced(q, n, z, a, b, l)
<1>1. /\ \A i \in 1..n : a[i] = (a[i - 1] + q[i]) % 256 /\ b[i] = (b[i - 1] + a[i]) % 256
      /\ n >= 1 => q[1] = z % 256
      /\ n >= 2 => q[2] = z \div 256
      /\ \A i \in 3..n : q[i] = l[i - 1] % 256 /\ l[i] = lfsr_step(l[i - 1])
  BY DEF Traced
<1> QED
  BY <1>1 DEF Traced

\* The first sum is handed over as it is.
LEMMA Check1Keeps == ASSUME GenInv, Check1, UNCHANGED carried PROVE GenInv'
<1>1. GenTypes /\ InMaking /\ OnLink
  BY DEF GenInv
<1>2. /\ g_state = "CK1" /\ sending' = Append(sending, g_f1) /\ g_state' = "CK2"
      /\ g_seq' = g_seq /\ length_sel' = length_sel /\ remaining' = remaining
      /\ g_lfsr' = g_lfsr /\ g_f1' = g_f1 /\ g_f2' = g_f2 /\ gap' = gap /\ packets' = packets
  BY DEF Check1
<1>3. PICK a \in [Nat -> Octet], b \in [Nat -> Octet], l \in [Nat -> Word], n \in Nat :
        Building(a, b, l, n)
  BY <1>1, <1>2 DEF InMaking
<1>4. /\ sending \in Seq(Octet) /\ n <= 1025 /\ Len(sending) = n /\ n >= 3
      /\ Traced(sending, n, g_seq, a, b, l)
      /\ g_f1 = a[n] /\ g_f2 = b[n] /\ g_lfsr = Now(l, n)
  BY <1>2, <1>3 DEF Building
<1>5. /\ sending' \in Seq(Octet) /\ Len(sending') = n + 1 /\ sending'[n + 1] = g_f1
      /\ \A i \in 1..n : sending'[i] = sending[i]
  BY <1>1, <1>2, <1>4 DEF GenTypes
<1>6. Traced(sending', n, g_seq, a, b, l)
  BY <1>4, <1>5, SameTrace
<1>7. Building(a, b, l, n)'
  BY <1>2, <1>4, <1>5, <1>6 DEF Building
<1>8. InMaking'
  BY <1>7 DEF InMaking
<1>9. GenTypes'
  BY <1>1, <1>2 DEF GenTypes
<1>10. OnLink'
  BY <1>1, <1>2 DEF OnLink, Number
<1> QED
  BY <1>8, <1>9, <1>10 DEF GenInv

\* A turn of the sequence number is one of its remainder.
LEMMA Turn == \A x \in Int : (x + 65536) % 65536 = x % 65536
  BY SMT

\* The numbering of the packets stays the same when one more is sent.
LEMMA NumberKeeps ==
  ASSUME g_seq \in Word, packets \in Nat, g_seq' = (g_seq + 1) % 65536, packets' = packets + 1,
         NEW o \in Int
  PROVE  Number(o)' = Number(o)
<1>1. g_seq \in Int /\ 0 <= g_seq /\ g_seq <= 65535
  BY InWord
<1>2. CASE g_seq = 65535
  <2>1. g_seq' = 0
    BY <1>2
  <2>2. PICK x \in Int : x = 0 + o - 1 - (packets + 1)
    OBVIOUS
  <2>3. x + 65536 = g_seq + o - 1 - packets
    BY <1>2, <2>2
  <2>4. (x + 65536) % 65536 = x % 65536
    BY Turn
  <2> QED
    BY <2>1, <2>2, <2>3, <2>4 DEF Number
<1>3. CASE g_seq # 65535
  <2>1. g_seq' = g_seq + 1
    BY <1>1, <1>3
  <2>2. g_seq' + o - 1 - packets' = g_seq + o - 1 - packets
    BY <1>1, <2>1
  <2> QED
    BY <2>2 DEF Number
<1> QED
  BY <1>2, <1>3

\* The last byte makes the packet whole and puts it on the link under its number.
LEMMA Check2Keeps == ASSUME GenInv, Check2 PROVE GenInv'
<1>1. GenTypes /\ InMaking
  BY DEF GenInv
<1>2. /\ g_state = "CK2" /\ carried = <<>> /\ g_state' = "GAP"
      /\ g_seq' = (g_seq + 1) % 65536 /\ packets' = packets + 1
      /\ length_sel' = (length_sel + 1) % Len(LENGTHS)
      /\ sending' = <<>> /\ carried' = <<Append(sending, g_f2)>>
      /\ remaining' = remaining /\ g_lfsr' = g_lfsr /\ g_f1' = g_f1 /\ g_f2' = g_f2 /\ gap' = gap
  BY DEF Check2
<1>3. PICK a \in [Nat -> Octet], b \in [Nat -> Octet], l \in [Nat -> Word], n \in Nat :
        Building(a, b, l, n)
  <2>1. InMaking /\ g_state # "GAP"
    BY <1>1, <1>2
  <2> QED
    BY <2>1 DEF InMaking
<1>4. /\ sending \in Seq(Octet) /\ n <= 1025 /\ Len(sending) = n + 1 /\ n >= 3
      /\ Traced(sending, n, g_seq, a, b, l)
      /\ g_f2 = b[n] /\ sending[n + 1] = a[n]
  BY <1>2, <1>3 DEF Building
<1>5. PICK p : p = Append(sending, g_f2)
  OBVIOUS
<1>6. /\ p \in Seq(Octet) /\ Len(p) = n + 2 /\ p[n + 2] = g_f2
      /\ \A i \in 1..(n + 1) : p[i] = sending[i]
  BY <1>1, <1>4, <1>5 DEF GenTypes
<1>7. Traced(p, n, g_seq, a, b, l)
  BY <1>4, <1>6, SameTrace
<1>8. Len(p) - 2 = n /\ Len(p) - 1 = n + 1
  BY <1>6
<1>9. MadeBy(p, g_seq, a, b, l)
  BY <1>4, <1>6, <1>7, <1>8 DEF MadeBy
<1>10. Made(p, g_seq)
  BY <1>3, <1>9 DEF Made
<1>11. g_seq \in Int /\ 0 <= g_seq /\ g_seq <= 65535 /\ packets \in Nat
  BY <1>1, InWord DEF GenTypes
<1>12. Number(packets') = g_seq
  <2>1. g_seq + packets' - 1 - packets = g_seq
    BY <1>2, <1>11
  <2>2. g_seq % 65536 = g_seq
    BY <1>11
  <2> QED
    BY <2>1, <2>2 DEF Number
<1>13. Number(packets)' = g_seq
  <2>1. PICK o \in Int : o = packets'
    BY <1>2, <1>11
  <2>2. Number(o)' = Number(o)
    BY <1>1, <1>2, <2>1, NumberKeeps DEF GenTypes
  <2> QED
    BY <1>12, <2>1, <2>2 DEF Number
<1>14. OnLink'
  <2>1. packets' >= 1
    BY <1>2, <1>11
  <2>2. carried' = <<p>> /\ p \in Seq(Octet) /\ Made(p, Number(packets)')
    BY <1>2, <1>5, <1>6, <1>10, <1>13
  <2> QED
    BY <2>1, <2>2 DEF OnLink
<1>15. g_seq' \in Word
  BY <1>2, <1>11, ToWord
<1>16. length_sel' \in 0..(Len(LENGTHS) - 1)
  <2>1. PICK k \in Nat : k = length_sel + 1
    BY <1>1, Lengths DEF GenTypes
  <2>2. PICK m \in Nat \ {0} : m = Len(LENGTHS)
    BY Lengths
  <2>3. k % m \in 0..(m - 1)
    BY Remainder
  <2> QED
    BY <1>2, <2>1, <2>2, <2>3
<1>17. GenTypes'
  BY <1>1, <1>2, <1>11, <1>15, <1>16 DEF GenTypes
<1>18. InMaking'
  BY <1>2 DEF InMaking
<1> QED
  BY <1>14, <1>17, <1>18 DEF GenInv

\* A step of the generator.
LEMMA GeneratorKeeps == ASSUME GenInv, Generator PROVE GenInv'
  BY GapKeeps, SumKeeps, Check1Keeps, Check2Keeps DEF Generator

-----------------------------------------------------------------------------
(* The checker.  q is the packet as it is heard and k the number of its bytes *)
(* that are in the registers.                                                 *)

\* A byte is on its way into the registers.
Pending == IF rx_valid = NoData THEN 0 ELSE 1

\* What is still to come is the rest of q.
StillToCome(q, k) ==
  /\ k + Pending + Len(incoming) = Len(q)
  /\ rx_valid # NoData => rx_valid = q[k + 1]
  /\ \A i \in 1..Len(incoming) : incoming[i] = q[k + Pending + i]

\* The registers that do not depend on what the packet ought to be.
Heard(q, k) ==
  /\ count = k
  /\ k >= 1 => last2[2] = q[k]
  /\ k = 1 => seq % 256 = q[1]
  /\ k >= 2 => last2[1] = q[k - 1] /\ seq = q[1] + 256 * q[2]

\* q is p but for byte j, which is off by e.
OffBy(q, p, j, e) ==
  /\ Len(q) = Len(p) /\ j \in 1..Len(p) /\ e \in Octet
  /\ \A i \in 1..Len(p) : q[i] = IF i = j THEN (p[i] + e) % 256 ELSE p[i]

\* The first sum is off from the damaged byte on, the second is right up to it;
\* the shift register follows an undamaged packet.
Summed(a, b, l, j, e, k) ==
  /\ k < 2 => f1 = 0 /\ f2 = 0
  /\ k >= 2 => f1 = IF k - 2 < j THEN a[k - 2] ELSE (a[k - 2] + e) % 256
  /\ k >= 2 /\ (k - 2 < j \/ e = 0) => f2 = b[k - 2]
  /\ e = 0 => ~mismatch /\ (k >= 2 => lfsr = Now(l, k - 2))

\* What is known of q by what the link did to it.
Trails(q, p, a, b, l, j, e) ==
  /\ MadeBy(p, Number(origin), a, b, l) /\ OffBy(q, p, j, e)
  /\ fate = "intact" <=> e = 0
  /\ prev_active => Summed(a, b, l, j, e, count)

\* q is the generator's packet, or one byte off it.
AsMade(q) ==
  \E p \in Seq(Octet), a \in [Nat -> Octet], b \in [Nat -> Octet], l \in [Nat -> Word],
     j \in Nat, e \in Octet : Trails(q, p, a, b, l, j, e)

\* q begins with the number z, as far as it goes.
Begins(q, z) ==
  /\ Len(q) >= 1 => q[1] = z % 256
  /\ Len(q) >= 2 => q[2] = z \div 256

\* What the link may have made of a packet, by its fate.
Fated(q) ==
  \/ fate = "noise" /\ origin = 0 /\ Len(q) < 4
  \/ fate = "cut" /\ origin > 0 /\ Begins(q, Number(origin))
  \/ fate \in {"intact", "byte"} /\ origin > 0 /\ AsMade(q)

\* q is the packet the checker is hearing: what came is in its registers, the rest still comes.
Hearing(q) ==
  /\ Len(q) <= 1027 /\ Fated(q)
  /\ prev_active => StillToCome(q, count) /\ Heard(q, count)
  /\ ~prev_active => StillToCome(q, 0) /\ rx_valid = NoData
  /\ ~rx_active => rx_valid = NoData /\ incoming = <<>>

\* While the receiver is active, or the checker has not seen its end, there is such a packet.
Reception ==
  /\ prev_active \/ rx_active => \E q \in Seq(Octet) : Hearing(q)
  /\ ~rx_active => rx_valid = NoData

\* The number expected is that after the last good packet's.
Expecting ==
  /\ have_expect <=> last_good # 0
  /\ last_good # 0 => expect_seq = (Number(last_good) + 1) % 65536

\* The checker's registers keep to their widths, those that take a packet's bytes first.
ChkRegs ==
  /\ seq \in Word /\ lfsr \in Word /\ f1 \in Octet /\ f2 \in Octet
  /\ last2 \in Octet \X Octet /\ count \in Nat /\ count < 2048 /\ mismatch \in BOOLEAN

\* The types of all the checker's registers and of what it hears.
ChkTypes ==
  /\ ChkRegs /\ expect_seq \in Word /\ have_expect \in BOOLEAN
  /\ rx_active \in BOOLEAN /\ prev_active \in BOOLEAN /\ rx_valid \in Octet \cup {NoData}
  /\ incoming \in Seq(Octet) /\ origin \in Nat /\ last_good \in Nat
  /\ counted \subseteq {"good", "bad", "errors", "gaps"}

\* The checker's inductive invariant.
ChkInv == ChkTypes /\ Reception /\ Expecting

-----------------------------------------------------------------------------

\* What is added late comes to the same sum.
LEMMA LateSum ==
  /\ \A x, y, e \in Int : (x + ((y + e) % 256)) % 256 = (((x + y) % 256) + e) % 256
  /\ \A x, y, e \in Int : (((x + e) % 256) + y) % 256 = (((x + y) % 256) + e) % 256
<1>1. \A x, y, e \in Int : (x + ((y + e) % 256)) % 256 = (((x + y) % 256) + e) % 256
  BY SMT
<1>2. \A x, y, e \in Int : (((x + e) % 256) + y) % 256 = (((x + y) % 256) + e) % 256
  BY SMT
<1> QED
  BY <1>1, <1>2

\* A byte that is off by one to 255 is another byte.
LEMMA ByteShows == \A x, e \in Octet : (e # 0 => (x + e) % 256 # x) /\ (x + 0) % 256 = x
<1> TAKE x, e \in Octet
<1>1. x \in Int /\ 0 <= x /\ x <= 255 /\ e \in Int /\ 0 <= e /\ e <= 255
  BY InOctet
<1>2. e # 0 => (x + e) % 256 # x
  BY <1>1, SMT
<1>3. (x + 0) % 256 = x
  BY <1>1, SMT
<1> QED
  BY <1>2, <1>3

\* A word is made up of its two bytes.
LEMMA Joined ==
  /\ \A z \in Word : z = (z % 256) + 256 * (z \div 256)
  /\ \A c, d \in Octet : c + 256 * d \in Word
  /\ \A s \in Word : \A c \in Octet : (c + 256 * (s \div 256)) % 256 = c
<1>1. ASSUME NEW z \in Word PROVE z = (z % 256) + 256 * (z \div 256)
  <2>1. z \in Int
    BY InWord
  <2> QED
    BY <2>1, SMT
<1>2. ASSUME NEW c \in Octet, NEW d \in Octet PROVE c + 256 * d \in Word
  <2>1. c \in Int /\ 0 <= c /\ c <= 255 /\ d \in Int /\ 0 <= d /\ d <= 255
    BY InOctet
  <2>2. c + 256 * d \in Int /\ 0 <= c + 256 * d /\ c + 256 * d <= 65535
    BY <2>1, SMT
  <2> QED
    BY <2>2, InWord
<1>3. ASSUME NEW s \in Word, NEW c \in Octet PROVE (c + 256 * (s \div 256)) % 256 = c
  <2>1. c \in Int /\ 0 <= c /\ c <= 255 /\ s \in Int
    BY InOctet, InWord
  <2>2. PICK h \in Int : h = s \div 256
    BY <2>1, SMT
  <2>3. (c + 256 * h) % 256 = c
    BY <2>1, SMT
  <2> QED
    BY <2>2, <2>3
<1> QED
  BY <1>1, <1>2, <1>3

\* Wherever the sequence numbers wrap, a gap is a difference that is no multiple of 65536.
LEMMA GapShows ==
  \A x, y \in Int : (x % 65536 # ((y % 65536) + 1) % 65536) <=> ((x - y - 1) % 65536 # 0)
  BY SMT

\* A packet that has ended is judged by what the link did to it.
LEMMA Verdict ==
  ASSUME ChkTypes, NEW q \in Seq(Octet), Hearing(q), falls, \A o \in Int : Number(o) \in Word
  PROVE  /\ fate = "intact" => ok
         /\ fate \in {"byte", "noise"} => ~ok
         /\ ok => origin > 0 /\ seq = Number(origin)
<1>1. /\ count = Len(q) /\ Heard(q, count) /\ prev_active /\ Len(q) \in Nat
      /\ last2 = <<last2[1], last2[2]>> /\ last2[1] \in Octet /\ last2[2] \in Octet
  BY DEF Hearing, falls, StillToCome, Pending, ChkTypes, ChkRegs
<1>2. CASE fate = "noise" /\ origin = 0 /\ Len(q) < 4
  BY <1>1, <1>2 DEF ok
<1>3. CASE fate = "cut" /\ origin > 0 /\ Begins(q, Number(origin))
  <2>1. ASSUME ok PROVE seq = Number(origin)
    <3>1. Len(q) >= 4
      BY <1>1, <2>1 DEF ok
    <3>2. seq = q[1] + 256 * q[2]
      BY <1>1, <3>1 DEF Heard
    <3>3. q[1] = Number(origin) % 256 /\ q[2] = Number(origin) \div 256
      BY <1>3, <3>1 DEF Begins
    <3>4. Number(origin) \in Word
      BY DEF ChkTypes
    <3> QED
      BY <3>2, <3>3, <3>4, Joined
  <2> QED
    BY <1>3, <2>1
<1>4. CASE fate \in {"intact", "byte"} /\ origin > 0 /\ AsMade(q)
  <2>1. PICK p \in Seq(Octet), a \in [Nat -> Octet], b \in [Nat -> Octet], l \in [Nat -> Word],
             j \in Nat, e \in Octet : Trails(q, p, a, b, l, j, e)
    BY <1>4 DEF AsMade
  <2>2. PICK n : n = Len(p) - 2
    OBVIOUS
  <2>3. /\ n \in Nat /\ n >= 3 /\ Len(p) = n + 2 /\ count = n + 2
        /\ p[n + 1] = a[n] /\ p[n + 2] = b[n]
        /\ \A i \in 1..(n + 2) : q[i] = IF i = j THEN (p[i] + e) % 256 ELSE p[i]
        /\ \A i \in 1..(n + 2) : p[i] \in Octet
        /\ Traced(p, n, Number(origin), a, b, l) /\ j \in 1..(n + 2)
        /\ fate = "intact" <=> e = 0
    <3>1. n \in Nat /\ n >= 3 /\ Len(p) = n + 2 /\ Len(p) - 1 = n + 1 /\ Len(q) = Len(p)
      BY <2>1, <2>2 DEF Trails, MadeBy, OffBy
    <3> QED
      BY <1>1, <2>1, <2>2, <3>1 DEF Trails, MadeBy, OffBy
  <2>4. last2[1] = q[n + 1] /\ last2[2] = q[n + 2] /\ seq = q[1] + 256 * q[2]
    <3>1. n + 2 >= 2 /\ n + 2 - 1 = n + 1
      BY <2>3
    <3> QED
      BY <1>1, <2>3, <3>1 DEF Heard
  <2>5. /\ f1 = IF n < j THEN a[n] ELSE (a[n] + e) % 256
        /\ n < j \/ e = 0 => f2 = b[n]
        /\ e = 0 => ~mismatch
    <3>1. PICK k \in Nat : k = n + 2 /\ k >= 2 /\ k - 2 = n /\ ~(k < 2)
      BY <2>3
    <3>2. Summed(a, b, l, j, e, k)
      BY <1>1, <2>1, <2>3, <3>1 DEF Trails
    <3> QED
      BY <3>1, <3>2 DEF Summed
  <2>6. a[n] \in Octet /\ b[n] \in Octet
    BY <2>3
  <2>7. CASE e = 0
    <3>1. \A i \in 1..(n + 2) : q[i] = p[i]
      BY <2>3, <2>7, ByteShows
    <3>2. f1 = a[n] /\ f2 = b[n] /\ ~mismatch
      BY <2>5, <2>6, <2>7, ByteShows
    <3>3. last2[1] = a[n] /\ last2[2] = b[n]
      BY <2>3, <2>4, <3>1
    <3>4. ok
      BY <1>1, <2>3, <3>2, <3>3 DEF ok
    <3>5. p[1] = Number(origin) % 256 /\ p[2] = Number(origin) \div 256
      BY <2>3 DEF Traced
    <3>6. seq = (Number(origin) % 256) + 256 * (Number(origin) \div 256)
      BY <2>3, <2>4, <3>1, <3>5
    <3>7. Number(origin) \in Word
      BY DEF ChkTypes
    <3>8. seq = Number(origin)
      BY <3>6, <3>7, Joined
    <3> QED
      BY <1>4, <2>3, <2>7, <3>4, <3>8
  <2>8. CASE e # 0
    <3>1. CASE j <= n
      <4>1. f1 = (a[n] + e) % 256 /\ last2[1] = a[n]
        BY <2>3, <2>4, <2>5, <3>1
      <4>2. f1 # a[n]
        BY <2>6, <2>8, <4>1, ByteShows
      <4> QED
        BY <2>3, <2>8, <4>1, <4>2 DEF ok
    <3>2. CASE j = n + 1
      <4>1. f1 = a[n] /\ last2[1] = (a[n] + e) % 256
        BY <2>3, <2>4, <2>5, <3>2
      <4>2. last2[1] # a[n]
        BY <2>6, <2>8, <4>1, ByteShows
      <4> QED
        BY <2>3, <2>8, <4>1, <4>2 DEF ok
    <3>3. CASE j = n + 2
      <4>1. f2 = b[n] /\ last2[2] = (b[n] + e) % 256
        BY <2>3, <2>4, <2>5, <3>3
      <4>2. last2[2] # b[n]
        BY <2>6, <2>8, <4>1, ByteShows
      <4> QED
        BY <2>3, <2>8, <4>1, <4>2 DEF ok
    <3> QED
      BY <2>3, <3>1, <3>2, <3>3
  <2> QED
    BY <2>7, <2>8
<1> QED
  BY <1>2, <1>3, <1>4 DEF Hearing, Fated

\* The bytes move up: one from the wire to rx_valid, one from there to the registers.
LEMMA RestKeeps ==
  ASSUME ChkTypes, NEW q \in Seq(Octet), NEW k \in Nat, StillToCome(q, k), NoData \notin Octet,
         NEW h, h = k + Pending,
         \/ incoming # <<>> /\ rx_valid' = Head(incoming) /\ incoming' = Tail(incoming)
         \/ rx_valid' = NoData /\ incoming' = incoming
  PROVE  StillToCome(q, h)'
<1>1. h \in Nat
  BY DEF Pending
<1>2. /\ h + Len(incoming) = Len(q) /\ incoming \in Seq(Octet) /\ Len(q) \in Nat
      /\ \A i \in 1..Len(incoming) : incoming[i] = q[h + i]
  <2>1. /\ h + Len(incoming) = Len(q)
        /\ \A i \in 1..Len(incoming) : incoming[i] = q[h + i]
    BY Zenon DEF StillToCome
  <2> QED
    BY <2>1 DEF ChkTypes
<1>4. CASE incoming # <<>> /\ rx_valid' = Head(incoming) /\ incoming' = Tail(incoming)
  <2>1. /\ Len(incoming) \in Nat /\ Len(incoming) > 0 /\ Head(incoming) = incoming[1]
        /\ Len(incoming') = Len(incoming) - 1 /\ Head(incoming) \in Octet
        /\ \A i \in 1..Len(incoming') : incoming'[i] = incoming[i + 1] /\ i + 1 \in 1..Len(incoming)
    BY <1>2, <1>4
  <2>2. rx_valid' # NoData /\ Pending' = 1
    BY <1>4, <2>1 DEF Pending
  <2>3. h + 1 + Len(incoming') = Len(q)
    BY <1>1, <1>2, <2>1
  <2>4. rx_valid' = q[h + 1]
    <3>1. 1 \in 1..Len(incoming)
      BY <2>1
    <3> QED
      BY <1>2, <1>4, <2>1, <3>1
  <2>5. ASSUME NEW i \in 1..Len(incoming') PROVE incoming'[i] = q[h + 1 + i]
    <3>1. h + (i + 1) = h + 1 + i
      BY <1>1, <2>1
    <3> QED
      BY <1>2, <2>1, <3>1
  <2> QED
    BY <2>2, <2>3, <2>4, <2>5 DEF StillToCome
<1>5. CASE rx_valid' = NoData /\ incoming' = incoming
  <2>1. Pending' = 0 /\ Len(incoming) \in Nat /\ h + 0 = h
    BY <1>1, <1>2, <1>5 DEF Pending
  <2> QED
    BY <1>1, <1>2, <1>5, <2>1 DEF StillToCome
<1> QED
  BY <1>4, <1>5

\* A byte more in the registers.
LEMMA HeardKeeps ==
  ASSUME ChkTypes, NEW q \in Seq(Octet), NEW k \in Nat, Heard(q, k), k < Len(q), Len(q) <= 1027,
         Take(q[k + 1])
  PROVE  Heard(q, k + 1)' /\ ChkRegs'
<1>1. /\ count = k /\ count' = (k + 1) % 2048 /\ last2' = <<last2[2], q[k + 1]>>
      /\ seq' = CASE k = 0 -> q[k + 1] + 256 * (seq \div 256)
                  [] k = 1 -> 256 * q[k + 1] + (seq % 256)
                  [] OTHER -> seq
      /\ f1' = IF k >= 2 THEN (f1 + last2[1]) % 256 ELSE f1
      /\ f2' = IF k >= 2 THEN (f2 + f1') % 256 ELSE f2
      /\ lfsr' = CASE k = 1 -> lfsr_seed(seq')
                  [] k # 1 /\ k >= 4 -> lfsr_step(lfsr)
                  [] OTHER -> lfsr
      /\ mismatch' = (mismatch \/ (k >= 4 /\ last2[1] # lfsr % 256))
  BY DEF Heard, Take, folds, compares
<1>2. q[k + 1] \in Octet /\ k + 1 < 2048 /\ k + 1 \in Nat /\ Len(q) \in Nat
  OBVIOUS
<1>3. count' = k + 1
  BY <1>1, <1>2
<1>4. /\ last2[1] \in Octet /\ last2[2] \in Octet /\ seq \in Word /\ lfsr \in Word
      /\ f1 \in Octet /\ f2 \in Octet /\ mismatch \in BOOLEAN
  BY DEF ChkTypes, ChkRegs
<1>5. last2' \in Octet \X Octet /\ last2'[1] = last2[2] /\ last2'[2] = q[k + 1]
  BY <1>1, <1>2, <1>4
<1>6. /\ seq' \in Word
      /\ k = 0 => seq' % 256 = q[1]
      /\ k = 1 => seq' = q[1] + 256 * q[2]
      /\ k >= 2 => seq' = seq
  <2>1. CASE k = 0
    <3>1. seq' = q[1] + 256 * (seq \div 256)
      BY <1>1, <2>1
    <3>2. seq \div 256 \in Octet /\ q[1] \in Octet
      BY <1>2, <1>4, <2>1, Halves
    <3> QED
      BY <1>4, <2>1, <3>1, <3>2, Joined
  <2>2. CASE k = 1
    <3>1. seq' = 256 * q[2] + (seq % 256) /\ seq % 256 = q[1]
      BY <1>1, <2>2 DEF Heard
    <3>2. q[1] \in Octet /\ q[2] \in Octet
      BY <1>2, <2>2
    <3>3. seq' = q[1] + 256 * q[2]
      BY <3>1, <3>2, InOctet
    <3> QED
      BY <2>2, <3>2, <3>3, Joined
  <2>3. CASE k >= 2
    BY <1>1, <1>4, <2>3
  <2> QED
    BY <2>1, <2>2, <2>3
<1>7. Heard(q, k + 1)'
  <2>1. PICK m \in Nat : m = k + 1 /\ m - 1 = k
    OBVIOUS
  <2>2. m >= 2 => last2'[1] = q[m - 1]
    BY <1>5, <2>1 DEF Heard
  <2>3. m >= 2 => seq' = q[1] + 256 * q[2]
    BY <1>6, <2>1 DEF Heard
  <2>4. Heard(q, m)'
    BY <1>3, <1>5, <1>6, <2>1, <2>2, <2>3 DEF Heard
  <2> QED
    BY <2>1, <2>4
<1>8. f1' \in Octet /\ f2' \in Octet
  <2>1. f1 \in Int /\ f2 \in Int /\ last2[1] \in Int
    BY <1>4, InOctet
  <2>2. f1' \in Octet
    <3>1. (f1 + last2[1]) % 256 \in Octet
      BY <2>1, ToOctet
    <3> QED
      BY <1>1, <1>4, <3>1
  <2>3. f1' \in Int
    BY <2>2, InOctet
  <2>4. (f2 + f1') % 256 \in Octet
    BY <2>1, <2>3, ToOctet
  <2> QED
    BY <1>1, <1>4, <2>2, <2>4
<1>9. lfsr' \in Word
  <2>1. lfsr_seed(seq') \in Word /\ lfsr_step(lfsr) \in Word
    BY <1>4, <1>6, InWord, SeedType, StepType
  <2> QED
    BY <1>1, <1>4, <2>1
<1>10. mismatch' \in BOOLEAN
  BY <1>1
<1> QED
  BY <1>2, <1>3, <1>5, <1>6, <1>7, <1>8, <1>9, <1>10 DEF ChkRegs

\* The sums and the shift register follow the trace of the packet as it was made.
LEMMA SummedKeeps ==
  ASSUME ChkTypes, NEW q \in Seq(Octet), NEW k \in Nat, Heard(q, k), k < Len(q), Len(q) <= 1027,
         Take(q[k + 1]), NEW p \in Seq(Octet), NEW a \in [Nat -> Octet], NEW b \in [Nat -> Octet],
         NEW l \in [Nat -> Word], NEW j \in Nat, NEW e \in Octet, NEW z \in Word,
         MadeBy(p, z, a, b, l), OffBy(q, p, j, e), Summed(a, b, l, j, e, k)
  PROVE  Summed(a, b, l, j, e, k + 1)'
<1>1. /\ count = k
      /\ f1' = IF k >= 2 THEN (f1 + last2[1]) % 256 ELSE f1
      /\ f2' = IF k >= 2 THEN (f2 + f1') % 256 ELSE f2
      /\ lfsr' = CASE k = 1 -> lfsr_seed(seq')
                  [] k # 1 /\ k >= 4 -> lfsr_step(lfsr)
                  [] OTHER -> lfsr
  BY DEF Heard, Take, folds, compares
<1>8. ASSUME ~mismatch, k >= 4 => last2[1] = lfsr % 256 PROVE ~mismatch'
  <2>1. count = k /\ mismatch' = (mismatch \/ (count >= 4 /\ last2[1] # lfsr % 256))
    BY DEF Heard, Take, compares
  <2> QED
    BY <1>8, <2>1
<1>0. PICK n : n = Len(p) - 2
  OBVIOUS
<1>2. n \in Nat /\ Len(p) = n + 2 /\ Len(q) = n + 2 /\ n >= 3 /\ Len(p) - 2 = n
  <2>1. Len(p) \in Nat /\ Len(p) >= 5 /\ Len(q) = Len(p)
    BY DEF MadeBy, OffBy
  <2> QED
    BY <1>0, <2>1
<1>3. /\ Traced(p, n, z, a, b, l) /\ j \in 1..(n + 2)
      /\ \A i \in 1..(n + 2) : q[i] = IF i = j THEN (p[i] + e) % 256 ELSE p[i]
      /\ \A i \in 1..(n + 2) : p[i] \in Octet
  BY <1>2 DEF MadeBy, OffBy
<1>4. PICK m \in Nat : m = k + 1
  OBVIOUS
<1>9. ASSUME e = 0 PROVE \A i \in 1..(n + 2) : q[i] = p[i]
  <2> TAKE i \in 1..(n + 2)
  <2>1. p[i] \in Octet /\ q[i] = IF i = j THEN (p[i] + e) % 256 ELSE p[i]
    BY <1>3
  <2>2. (p[i] + e) % 256 = p[i]
    BY <1>9, <2>1, ByteShows
  <2> QED
    BY <2>1, <2>2
<1>5. CASE k = 0
  <2>1. f1' = f1 /\ f2' = f2 /\ f1 = 0 /\ f2 = 0 /\ m < 2 /\ ~(m >= 2)
    BY <1>1, <1>4, <1>5 DEF Summed
  <2>2. e = 0 => ~mismatch'
    BY <1>5, <1>8 DEF Summed
  <2>3. Summed(a, b, l, j, e, m)'
    BY <2>1, <2>2 DEF Summed
  <2> QED
    BY <1>4, <2>3
<1>6. CASE k = 1
  <2>1. f1' = f1 /\ f2' = f2 /\ f1 = 0 /\ f2 = 0 /\ ~(m < 2) /\ m - 2 = 0 /\ 0 < j
    BY <1>1, <1>3, <1>4, <1>6 DEF Summed
  <2>2. a[0] = 0 /\ b[0] = 0 /\ l[2] = lfsr_seed(z)
    BY <1>3 DEF Traced
  <2>3. ASSUME e = 0 PROVE ~mismatch' /\ lfsr' = Now(l, 0)
    <3>1. ~mismatch'
      BY <1>6, <1>8, <2>3 DEF Summed
    <3>2. Heard(q, m)'
      BY <1>4, HeardKeeps
    <3>3. seq' = q[1] + 256 * q[2]
      BY <1>4, <1>6, <3>2 DEF Heard
    <3>4. q[1] = p[1] /\ q[2] = p[2]
      <4>1. 1 \in 1..(n + 2) /\ 2 \in 1..(n + 2)
        BY <1>2
      <4> QED
        BY <1>9, <2>3, <4>1
    <3>5. p[1] = z % 256 /\ p[2] = z \div 256
      BY <1>2, <1>3 DEF Traced
    <3>6. seq' = (z % 256) + 256 * (z \div 256)
      BY <3>3, <3>4, <3>5
    <3>7. seq' = z
      BY <3>6, Joined
    <3>8. lfsr' = lfsr_seed(seq')
      BY <1>1, <1>6
    <3> QED
      BY <2>2, <3>1, <3>7, <3>8 DEF Now
  <2>4. Summed(a, b, l, j, e, m)'
    BY <2>1, <2>2, <2>3 DEF Summed
  <2> QED
    BY <1>4, <2>4
<1>7. CASE k >= 2
  <2>1. PICK i \in Nat : i = k - 1 /\ i - 1 = k - 2 /\ m - 2 = i /\ i >= 1 /\ i <= n /\ ~(m < 2) /\ m >= 2
    BY <1>2, <1>4, <1>7
  <2>2. PICK h \in Nat : h = i - 1 /\ h = k - 2
    BY <2>1
  <2>3. /\ a[i] = (a[h] + p[i]) % 256 /\ b[i] = (b[h] + a[i]) % 256
        /\ i \in 1..n /\ i \in 1..(n + 2)
    BY <1>2, <1>3, <2>1, <2>2 DEF Traced
  <2>4. a[h] \in Int /\ b[h] \in Int /\ p[i] \in Octet /\ p[i] \in Int /\ e \in Int /\ a[i] \in Octet
    <3>1. a[h] \in Octet /\ b[h] \in Octet /\ p[i] \in Octet /\ a[i] \in Octet
      BY <1>3, <2>3
    <3> QED
      BY <3>1, InOctet
  <2>5. /\ last2[1] = q[i] /\ f1' = (f1 + q[i]) % 256 /\ f2' = (f2 + f1') % 256
        /\ f1 = IF h < j THEN a[h] ELSE (a[h] + e) % 256
        /\ (h < j \/ e = 0) => f2 = b[h]
    BY <1>1, <1>7, <2>1, <2>2 DEF Heard, Summed
  <2>6. q[i] = IF i = j THEN (p[i] + e) % 256 ELSE p[i]
    BY <1>3, <2>3
  <2>7. f1' = IF i < j THEN a[i] ELSE (a[i] + e) % 256
    <3>1. CASE i < j
      BY <2>2, <2>3, <2>5, <2>6, <3>1
    <3>2. CASE i = j
      <4>1. f1' = (a[h] + ((p[i] + e) % 256)) % 256
        BY <2>2, <2>5, <2>6, <3>2
      <4>2. f1' = (((a[h] + p[i]) % 256) + e) % 256
        <5>1. PICK x, y, f \in Int : x = a[h] /\ y = p[i] /\ f = e
          BY <2>4
        <5>2. (x + ((y + f) % 256)) % 256 = (((x + y) % 256) + f) % 256
          BY LateSum
        <5> QED
          BY <4>1, <5>1, <5>2
      <4> QED
        BY <2>3, <3>2, <4>2
    <3>3. CASE i > j
      <4>1. f1' = (((a[h] + e) % 256) + p[i]) % 256
        BY <2>2, <2>5, <2>6, <3>3
      <4>2. f1' = (((a[h] + p[i]) % 256) + e) % 256
        <5>1. PICK x, y, f \in Int : x = a[h] /\ y = p[i] /\ f = e
          BY <2>4
        <5>2. (((x + f) % 256) + y) % 256 = (((x + y) % 256) + f) % 256
          BY LateSum
        <5> QED
          BY <4>1, <5>1, <5>2
      <4> QED
        BY <2>3, <3>3, <4>2
    <3> QED
      BY <3>1, <3>2, <3>3
  <2>8. ASSUME i < j \/ e = 0 PROVE f2' = b[i]
    <3>1. f1' = a[i]
      BY <2>4, <2>7, <2>8, ByteShows
    <3>2. f2 = b[h]
      BY <2>2, <2>5, <2>8
    <3> QED
      BY <2>3, <2>5, <3>1, <3>2
  <2>9. ASSUME e = 0 PROVE ~mismatch' /\ lfsr' = Now(l, i)
    <3>1. lfsr = Now(l, h) /\ ~mismatch
      BY <1>7, <2>2, <2>9 DEF Summed
    <3>2. CASE k < 4
      <4>1. lfsr' = lfsr /\ Now(l, h) = l[2] /\ Now(l, i) = l[2]
        BY <1>1, <1>7, <2>1, <2>2, <3>2 DEF Now
      <4> QED
        BY <1>8, <3>1, <3>2, <4>1
    <3>3. CASE k >= 4
      <4>1. i \in 3..n /\ lfsr = l[h] /\ h = i - 1
        BY <2>1, <2>2, <3>1, <3>3 DEF Now
      <4>2. p[i] = l[h] % 256 /\ l[i] = lfsr_step(l[h])
        BY <1>3, <4>1 DEF Traced
      <4>3. q[i] = p[i]
        BY <1>9, <2>3, <2>9
      <4>4. last2[1] = lfsr % 256
        BY <2>5, <4>1, <4>2, <4>3
      <4>5. lfsr' = l[i]
        BY <1>1, <3>3, <4>1, <4>2
      <4> QED
        BY <1>8, <3>1, <4>1, <4>4, <4>5 DEF Now
    <3> QED
      BY <3>2, <3>3
  <2>10. Summed(a, b, l, j, e, m)'
    BY <2>1, <2>7, <2>8, <2>9 DEF Summed
  <2> QED
    BY <1>4, <2>10
<1> QED
  BY <1>5, <1>6, <1>7

\* Packets' numbers are sequence numbers, and a step of either side leaves them.
LEMMA NumberType == ASSUME GenTypes PROVE \A o \in Int : Number(o) \in Word
<1> TAKE o \in Int
<1>1. PICK x \in Int : x = g_seq + o - 1 - packets
  BY InWord DEF GenTypes
<1>2. x % 65536 \in Word
  BY ToWord
<1> QED
  BY <1>1, <1>2 DEF Number

\* The assumption on the bytes, in the terms of these proofs.
LEMMA BytesType == Bytes = Octet /\ NoData \notin Octet
  BY ByteAssumption

\* What a step of the checker does to a packet that is being received.
LEMMA LinkMoves ==
  ASSUME Checker, rx_active
  PROVE  /\ prev_active' = TRUE /\ fate' = fate /\ origin' = origin
         /\ \/ incoming # <<>> /\ rx_valid' = Head(incoming) /\ incoming' = Tail(incoming)
            \/ rx_valid' = NoData /\ incoming' = incoming
         /\ rx_active' \in BOOLEAN
         /\ ~rx_active' => rx_valid' = NoData /\ incoming' = <<>>
<1>1. prev_active' = TRUE /\ Link
  BY DEF Checker
<1>2. ~Deliver /\ ~MakeUp
  BY DEF Deliver, MakeUp, Quiet
<1>3. CASE /\ rx_active /\ incoming # <<>> /\ Receive /\ rx_valid' = Head(incoming)
           /\ incoming' = Tail(incoming) /\ UNCHANGED <<carried, fate, origin>>
  BY <1>1, <1>3 DEF Receive
<1>4. CASE /\ rx_active /\ incoming = <<>> /\ Close /\ (rx_error' <=> fate = "cut")
           /\ UNCHANGED <<carried, incoming, fate, origin>>
  BY <1>1, <1>4 DEF Close
<1>5. CASE Quiescent /\ UNCHANGED <<carried, incoming, fate, origin>>
  BY <1>1, <1>5 DEF Quiescent
<1> QED
  BY <1>1, <1>2, <1>3, <1>4, <1>5 DEF Link

\* The packet stays followed while it is received.
LEMMA HearingKeeps ==
  ASSUME GenTypes, ChkTypes, NEW q \in Seq(Octet), Hearing(q), rx_active, Checker
  PROVE  Hearing(q)' /\ ChkRegs'
<1>1. /\ prev_active' = TRUE /\ fate' = fate /\ origin' = origin
      /\ \/ incoming # <<>> /\ rx_valid' = Head(incoming) /\ incoming' = Tail(incoming)
         \/ rx_valid' = NoData /\ incoming' = incoming
      /\ ~rx_active' => rx_valid' = NoData /\ incoming' = <<>>
  BY LinkMoves
<1>2. Receiving /\ UNCHANGED genVars
  BY DEF Checker
<1>3. PICK k \in Nat : k = IF prev_active THEN count ELSE 0
  BY DEF ChkTypes, ChkRegs
<1>4. PICK h \in Nat : h = k + Pending
  BY DEF Pending
<1>5. StillToCome(q, k) /\ Len(q) <= 1027 /\ Len(q) \in Nat /\ Len(incoming) \in Nat
  BY <1>3 DEF Hearing, ChkTypes
<1>6. StillToCome(q, h)'
  BY <1>1, <1>4, <1>5, BytesType, RestKeeps
<1>7. Number(origin)' = Number(origin) /\ Number(origin) \in Word
  BY <1>1, <1>2, NumberType DEF Number, genVars, ChkTypes
<1>8. /\ Heard(q, h)' /\ ChkRegs'
      /\ \A p \in Seq(Octet) : \A a, b \in [Nat -> Octet] : \A l \in [Nat -> Word] :
           \A j \in Nat : \A e \in Octet :
             Trails(q, p, a, b, l, j, e) => Summed(a, b, l, j, e, h)'
  <2>1. CASE rx_valid = NoData /\ ~prev_active
    <3>1. /\ h = 0 /\ count' = 0 /\ f1' = 0 /\ f2' = 0 /\ mismatch' = FALSE
          /\ last2' = last2 /\ seq' = seq /\ lfsr' = lfsr
      BY <1>2, <1>3, <1>4, <2>1 DEF Receiving, rises, Pending
    <3>2. Heard(q, h)'
      BY <3>1 DEF Heard
    <3>3. ChkRegs'
      <4>1. ChkRegs
        BY DEF ChkTypes
      <4>2. f1' \in Octet /\ f2' \in Octet
        BY <3>1, ZeroFits
      <4>3. mismatch' \in BOOLEAN
        BY <3>1
      <4> QED
        BY <3>1, <4>1, <4>2, <4>3 DEF ChkRegs
    <3>4. ASSUME NEW a, NEW b, NEW l, NEW j, NEW e PROVE Summed(a, b, l, j, e, h)'
      BY <3>1 DEF Summed
    <3> QED
      BY <3>2, <3>3, <3>4
  <2>2. CASE rx_valid = NoData /\ prev_active
    <3>1. /\ h = count /\ count' = count /\ f1' = f1 /\ f2' = f2 /\ mismatch' = mismatch
          /\ last2' = last2 /\ seq' = seq /\ lfsr' = lfsr
      BY <1>2, <1>3, <1>4, <2>2 DEF Receiving, rises, Pending
    <3>2. Heard(q, h) /\ Heard(q, h)'
      BY <2>2, <3>1 DEF Heard, Hearing
    <3>3. ChkRegs'
      BY <3>1 DEF ChkTypes, ChkRegs
    <3>4. ASSUME NEW p, NEW a, NEW b, NEW l, NEW j, NEW e, Trails(q, p, a, b, l, j, e)
          PROVE  Summed(a, b, l, j, e, h)'
      <4>1. Summed(a, b, l, j, e, h)
        BY <2>2, <3>1, <3>4 DEF Trails
      <4> QED
        BY <3>1, <4>1 DEF Summed
    <3> QED
      BY <3>2, <3>3, <3>4
  <2>3. CASE rx_valid # NoData
    <3>1. prev_active /\ k = count /\ h = k + 1 /\ Heard(q, k) /\ rx_valid = q[k + 1]
      BY <1>3, <1>4, <1>5, <2>3 DEF Hearing, Pending, StillToCome
    <3>2. k < Len(q)
      BY <1>5, <2>3 DEF Pending, StillToCome
    <3>3. Take(q[k + 1])
      BY <1>2, <2>3, <3>1 DEF Receiving
    <3>4. Heard(q, k + 1)' /\ ChkRegs'
      BY <1>5, <3>1, <3>2, <3>3, HeardKeeps
    <3>5. ASSUME NEW p \in Seq(Octet), NEW a \in [Nat -> Octet], NEW b \in [Nat -> Octet],
                 NEW l \in [Nat -> Word], NEW j \in Nat, NEW e \in Octet,
                 Trails(q, p, a, b, l, j, e)
          PROVE  Summed(a, b, l, j, e, k + 1)'
      <4>1. PICK z \in Word : z = Number(origin)
        BY <1>7
      <4>2. MadeBy(p, z, a, b, l) /\ OffBy(q, p, j, e) /\ Summed(a, b, l, j, e, k)
        BY <3>1, <3>5, <4>1 DEF Trails
      <4> QED
        BY <1>5, <3>1, <3>2, <3>3, <4>2, SummedKeeps
    <3> QED
      BY <3>1, <3>4, <3>5
  <2> QED
    BY <2>1, <2>2, <2>3
<1>9. count' = h
  BY <1>8 DEF Heard
<1>10. Fated(q)'
  <2>1. CASE fate = "noise" /\ origin = 0 /\ Len(q) < 4
    BY <1>1, <2>1 DEF Fated
  <2>2. CASE fate = "cut" /\ origin > 0 /\ Begins(q, Number(origin))
    BY <1>1, <1>7, <2>2 DEF Fated, Begins
  <2>3. CASE fate \in {"intact", "byte"} /\ origin > 0 /\ AsMade(q)
    <3>1. PICK p \in Seq(Octet), a \in [Nat -> Octet], b \in [Nat -> Octet], l \in [Nat -> Word],
               j \in Nat, e \in Octet : Trails(q, p, a, b, l, j, e)
      BY <2>3 DEF AsMade
    <3>2. Summed(a, b, l, j, e, h)'
      BY <1>8, <3>1
    <3>3. Trails(q, p, a, b, l, j, e)'
      BY <1>1, <1>7, <1>9, <3>1, <3>2 DEF Trails
    <3>4. AsMade(q)'
      BY <3>1, <3>3 DEF AsMade
    <3> QED
      BY <1>1, <2>3, <3>4 DEF Fated
  <2> QED
    BY <2>1, <2>2, <2>3 DEF Hearing, Fated
<1>11. Hearing(q)'
  BY <1>1, <1>5, <1>6, <1>8, <1>9, <1>10 DEF Hearing
<1> QED
  BY <1>8, <1>11

\* A packet begins as the link gives it: whole, damaged in one byte, cut, or made up.
LEMMA BeginKeeps ==
  ASSUME GenInv, ChkTypes, Reception, Checker, Deliver \/ MakeUp
  PROVE  Reception' /\ incoming' \in Seq(Octet) /\ origin' \in Nat
<1>1. /\ ~rx_active /\ ~prev_active /\ rx_valid = NoData /\ prev_active' = FALSE
      /\ UNCHANGED genVars
  BY DEF Deliver, MakeUp, Quiet, Reception, Checker
<1>2. \A o : Number(o)' = Number(o)
  BY <1>1 DEF Number, genVars
<1>3. ASSUME NEW q \in Seq(Octet), NEW what, NEW number \in Nat, Begin(q, what, number),
             Len(q) <= 1027, Fated(q)'
      PROVE  Reception' /\ incoming' \in Seq(Octet) /\ origin' \in Nat
  <2>1. /\ rx_active' = TRUE /\ rx_valid' = NoData /\ incoming' = q /\ origin' = number
    BY <1>3 DEF Begin, Open
  <2>2. Pending' = 0 /\ Len(q) \in Nat
    BY <2>1 DEF Pending
  <2>3. StillToCome(q, 0)'
    <3>1. 0 + 0 + Len(q) = Len(q) /\ \A i \in 1..Len(q) : 0 + 0 + i = i
      BY <2>2
    <3> QED
      BY <2>1, <2>2, <3>1 DEF StillToCome
  <2>4. Hearing(q)'
    BY <1>1, <1>3, <2>1, <2>3 DEF Hearing
  <2> QED
    BY <2>1, <2>4 DEF Reception
<1>4. CASE Deliver
  <2>1. PICK p \in Seq(Octet) : carried = <<p>> /\ Made(p, Number(packets))
    BY <1>4 DEF Deliver, GenInv, OnLink
  <2>2. packets \in Nat /\ packets >= 1 /\ carried[1] = p
    BY <1>4, <2>1 DEF Deliver, GenInv, OnLink, GenTypes
  <2>3. PICK a \in [Nat -> Octet], b \in [Nat -> Octet], l \in [Nat -> Word] :
          MadeBy(p, Number(packets), a, b, l)
    BY <2>1 DEF Made
  <2>4. /\ Len(p) \in Nat /\ Len(p) >= 5 /\ Len(p) <= 1027 /\ DOMAIN p = 1..Len(p)
        /\ \A i \in 1..Len(p) : p[i] \in Octet
    BY <2>3 DEF MadeBy
  <2>5. CASE Begin(p, "intact", packets)
    <3>1. OffBy(p, p, 1, 0)
      <4>1. \A i \in 1..Len(p) : (p[i] + 0) % 256 = p[i]
        BY <2>4, ZeroFits, ByteShows
      <4> QED
        BY <2>4, <4>1, ZeroFits DEF OffBy
    <3>2. fate' = "intact" /\ origin' = packets
      BY <2>5 DEF Begin
    <3>3. Trails(p, p, a, b, l, 1, 0)'
      BY <1>1, <1>2, <2>3, <3>1, <3>2 DEF Trails
    <3>4. AsMade(p)'
      BY <2>3, <3>3, ZeroFits DEF AsMade
    <3>5. Fated(p)'
      BY <2>2, <3>2, <3>4 DEF Fated
    <3> QED
      BY <1>3, <2>2, <2>4, <2>5, <3>5
  <2>6. CASE \E j \in DOMAIN p, e \in Errors : Begin(Damaged(p, j, e), "byte", packets)
    <3>1. PICK j \in DOMAIN p, e \in Errors : Begin(Damaged(p, j, e), "byte", packets)
      BY <2>6
    <3>2. e \in Octet /\ e # 0
      <4>1. e \in Nat /\ e > 0 /\ e < 256
        BY LinkAssumption
      <4>2. e \in Int /\ 0 <= e /\ e <= 255 /\ e # 0
        BY <4>1
      <4> QED
        BY <4>2, InOctet
    <3>3. PICK q : q = Damaged(p, j, e)
      OBVIOUS
    <3>4. j \in 1..Len(p) /\ p[j] \in Octet /\ (p[j] + e) % 256 \in Octet
      <4>1. j \in 1..Len(p) /\ p[j] \in Octet
        BY <2>4
      <4>2. p[j] + e \in Int
        BY <3>2, <4>1, InOctet
      <4> QED
        BY <4>1, <4>2, ToOctet
    <3>5. /\ q \in Seq(Octet) /\ Len(q) = Len(p)
          /\ \A i \in 1..Len(p) : q[i] = IF i = j THEN (p[i] + e) % 256 ELSE p[i]
      <4>1. q = [p EXCEPT ![j] = (p[j] + e) % 256]
        BY <3>3 DEF Damaged
      <4> QED
        BY <2>4, <3>4, <4>1
    <3>6. OffBy(q, p, j, e)
      BY <3>2, <3>4, <3>5 DEF OffBy
    <3>7. fate' = "byte" /\ origin' = packets
      BY <3>1 DEF Begin
    <3>8. Trails(q, p, a, b, l, j, e)'
      BY <1>1, <1>2, <2>3, <3>2, <3>6, <3>7 DEF Trails
    <3>9. j \in Nat
      BY <3>4
    <3>10. AsMade(q)'
      BY <2>3, <3>2, <3>8, <3>9 DEF AsMade
    <3>11. Fated(q)'
      BY <2>2, <3>7, <3>10 DEF Fated
    <3> QED
      BY <1>3, <2>2, <2>4, <3>1, <3>3, <3>5, <3>11
  <2>7. CASE \E k \in 0..Len(p) : Begin(SubSeq(p, 1, k), "cut", packets)
    <3>1. PICK k \in 0..Len(p) : Begin(SubSeq(p, 1, k), "cut", packets)
      BY <2>7
    <3>2. PICK q : q = SubSeq(p, 1, k)
      OBVIOUS
    <3>3. q \in Seq(Octet) /\ Len(q) = k /\ \A i \in 1..k : q[i] = p[i]
      BY <2>4, <3>2
    <3>4. p[1] = Number(packets) % 256 /\ p[2] = Number(packets) \div 256
      <4>1. Len(p) - 2 >= 2 /\ Len(p) - 2 >= 1
        BY <2>4
      <4> QED
        BY <2>3, <4>1 DEF MadeBy, Traced
    <3>5. Begins(q, Number(packets))
      BY <3>3, <3>4 DEF Begins
    <3>6. fate' = "cut" /\ origin' = packets
      BY <3>1 DEF Begin
    <3>7. Fated(q)'
      BY <1>2, <2>2, <3>5, <3>6 DEF Fated, Begins
    <3>8. Len(q) <= 1027 /\ Begin(q, "cut", packets)
      BY <2>4, <3>1, <3>2, <3>3
    <3> QED
      BY <1>3, <2>2, <3>3, <3>7, <3>8
  <2>8. CASE Quiescent /\ UNCHANGED <<incoming, fate, origin>>
    BY <1>1, <2>8 DEF Quiescent, Reception, ChkTypes
  <2> QED
    BY <1>4, <2>2, <2>5, <2>6, <2>7, <2>8 DEF Deliver
<1>5. CASE MakeUp
  <2>1. PICK q \in Noise : Begin(q, "noise", 0)
    BY <1>5 DEF MakeUp
  <2>2. q \in Seq(Octet) /\ Len(q) < 4 /\ Len(q) \in Nat
    BY LinkAssumption, BytesType
  <2>3. fate' = "noise" /\ origin' = 0
    BY <2>1 DEF Begin
  <2>4. Fated(q)'
    BY <2>2, <2>3 DEF Fated
  <2> QED
    BY <1>3, <2>1, <2>2, <2>4
<1> QED
  BY <1>4, <1>5

\* Nothing is received and nothing has just ended: the registers stay.
LEMMA IdleRegs ==
  ASSUME ChkTypes, Checker, rx_valid = NoData, ~rises
  PROVE  ChkRegs'
<1>1. /\ count' = count /\ f1' = f1 /\ f2' = f2 /\ mismatch' = mismatch
      /\ last2' = last2 /\ seq' = seq /\ lfsr' = lfsr
  BY DEF Checker, Receiving
<1>2. ChkRegs
  BY DEF ChkTypes
<1> QED
  BY <1>1, <1>2 DEF ChkRegs

\* What is being received stays accounted for.
LEMMA ReceptionKeeps ==
  ASSUME GenInv, ChkInv, Checker
  PROVE  Reception' /\ ChkRegs' /\ incoming' \in Seq(Octet) /\ origin' \in Nat
<1>1. ChkTypes /\ Reception /\ GenTypes
  BY DEF ChkInv, GenInv
<1>2. CASE rx_active
  <2>1. PICK q \in Seq(Octet) : Hearing(q)
    BY <1>1, <1>2 DEF Reception
  <2>2. Hearing(q)' /\ ChkRegs'
    BY <1>1, <1>2, <2>1, HearingKeeps
  <2>3. /\ origin' = origin
        /\ \/ incoming # <<>> /\ incoming' = Tail(incoming)
           \/ incoming' = incoming
        /\ ~rx_active' => rx_valid' = NoData
    BY <1>2, LinkMoves
  <2>4. incoming \in Seq(Octet) /\ origin \in Nat
    BY <1>1 DEF ChkTypes
  <2>5. incoming' \in Seq(Octet)
    BY <2>3, <2>4
  <2> QED
    BY <2>2, <2>3, <2>4, <2>5 DEF Reception
<1>3. CASE ~rx_active
  <2>1. rx_valid = NoData /\ ~rises
    BY <1>1, <1>3 DEF Reception, rises
  <2>2. ChkRegs'
    BY <1>1, <2>1, IdleRegs
  <2>3. CASE Deliver \/ MakeUp
    BY <1>1, <2>2, <2>3, BeginKeeps
  <2>4. CASE ~(Deliver \/ MakeUp)
    <3>1. /\ Quiescent /\ incoming' = incoming /\ origin' = origin /\ prev_active' = rx_active
      BY <1>3, <2>4 DEF Checker, Link
    <3>2. rx_active' = rx_active /\ rx_valid' = NoData
      BY <3>1 DEF Quiescent
    <3> QED
      BY <1>1, <1>3, <2>2, <3>1, <3>2 DEF Reception, ChkTypes
  <2> QED
    BY <2>3, <2>4
<1> QED
  BY <1>2, <1>3

\* Unless a packet ends well the number expected next stays what it is.
LEMMA JudgeKeeps ==
  ASSUME GenInv, ChkInv, Checker
  PROVE  /\ Expecting' /\ expect_seq' \in Word /\ have_expect' \in BOOLEAN /\ last_good' \in Nat
         /\ counted' \subseteq {"good", "bad", "errors", "gaps"}
<1>1. ChkTypes /\ Reception /\ GenTypes /\ Expecting /\ Judge /\ UNCHANGED genVars
  BY DEF ChkInv, GenInv, Checker
<1>2. \A o : Number(o)' = Number(o)
  BY <1>1 DEF Number, genVars
<1>3. counted' \subseteq {"good", "bad", "errors", "gaps"}
  <2>1. counted' = (IF rx_error THEN {"errors"} ELSE {})
                   \cup (IF ~falls THEN {} ELSE IF ok THEN {"good"} ELSE {"bad"})
                   \cup (IF falls /\ ok /\ have_expect /\ seq # expect_seq THEN {"gaps"} ELSE {})
    BY <1>1 DEF Judge
  <2> QED
    BY <2>1
<1>4. CASE falls /\ ok
  <2>1. PICK q \in Seq(Octet) : Hearing(q)
    BY <1>1, <1>4 DEF Reception, falls
  <2>2. origin > 0 /\ seq = Number(origin)
    <3>1. \A o \in Int : Number(o) \in Word
      BY <1>1, NumberType
    <3> QED
      BY <1>1, <1>4, <2>1, <3>1, Verdict
  <2>3. /\ expect_seq' = (seq + 1) % 65536 /\ last_good' = origin
        /\ have_expect' /\ have_expect' \in BOOLEAN
    <3>1. have_expect' = (have_expect \/ (falls /\ ok))
      BY <1>1 DEF Judge
    <3>2. expect_seq' = (seq + 1) % 65536 /\ last_good' = origin
      BY <1>1, <1>4 DEF Judge, next_seq
    <3>3. have_expect' /\ have_expect' \in BOOLEAN
      BY <1>4, <3>1, Zenon
    <3> QED
      BY <3>2, <3>3
  <2>4. seq + 1 \in Int /\ origin \in Nat
    BY <1>1, InWord DEF ChkTypes, ChkRegs
  <2>5. expect_seq' \in Word
    BY <2>3, <2>4, ToWord
  <2>6. Number(last_good)' = Number(origin)
    BY <1>2, <2>3 DEF Number
  <2>7. Expecting'
    BY <2>2, <2>3, <2>4, <2>6 DEF Expecting
  <2> QED
    BY <1>3, <2>3, <2>4, <2>5, <2>7
<1>5. CASE ~(falls /\ ok)
  <2>1. expect_seq' = expect_seq /\ last_good' = last_good
    BY <1>1, <1>5 DEF Judge
  <2>2. have_expect' = have_expect
    BY <1>1, <1>5 DEF Judge, ChkTypes
  <2>3. Number(last_good)' = Number(last_good)
    BY <1>2, <2>1 DEF Number
  <2>4. Expecting'
    BY <1>1, <2>1, <2>2, <2>3 DEF Expecting
  <2> QED
    BY <1>1, <1>3, <2>1, <2>2, <2>4 DEF ChkTypes
<1> QED
  BY <1>4, <1>5

\* The checker's step keeps both invariants.
LEMMA CheckerKeeps == ASSUME GenInv, ChkInv, Checker PROVE GenInv' /\ ChkInv'
<1>1. Reception' /\ ChkRegs' /\ incoming' \in Seq(Octet) /\ origin' \in Nat
  BY ReceptionKeeps
<1>2. /\ Expecting' /\ expect_seq' \in Word /\ have_expect' \in BOOLEAN /\ last_good' \in Nat
      /\ counted' \subseteq {"good", "bad", "errors", "gaps"}
  BY JudgeKeeps
<1>3. prev_active' \in BOOLEAN /\ rx_active' \in BOOLEAN /\ rx_valid' \in Octet \cup {NoData}
  <2>1. prev_active' = rx_active /\ Link /\ rx_active \in BOOLEAN
    BY DEF Checker, ChkInv, ChkTypes
  <2>2. rx_active' \in BOOLEAN /\ rx_valid' \in Octet \cup {NoData}
    BY <2>1, BytesType DEF Link, Deliver, MakeUp, Begin, Open, Receive, Close, Quiescent
  <2> QED
    BY <2>1, <2>2
<1>4. ChkTypes'
  BY <1>1, <1>2, <1>3 DEF ChkTypes
<1>5. UNCHANGED genVars /\ (carried' = carried \/ carried' = <<>>)
  BY DEF Checker, Link, Deliver, MakeUp
<1>6. GenTypes' /\ InMaking'
  BY <1>5 DEF GenInv, GenTypes, InMaking, Building, genVars
<1>7. OnLink'
  BY <1>5 DEF GenInv, OnLink, Number, genVars
<1> QED
  BY <1>1, <1>2, <1>4, <1>6, <1>7 DEF GenInv, ChkInv

\* Without a step of the checker what it has heard stays accounted for.
LEMMA ChkLeaves ==
  ASSUME ChkInv, chkVars' = chkVars, linkVars' = linkVars, \A o \in Int : Number(o)' = Number(o)
  PROVE  ChkInv'
<1>1. UNCHANGED <<chkVars, linkVars>>
  OBVIOUS
<1>2. \A o \in Int : Number(o)' = Number(o)
  OBVIOUS
<1>3. ChkTypes'
  BY <1>1 DEF ChkInv, ChkTypes, ChkRegs, chkVars, linkVars, utmiVars
<1>4. origin \in Int /\ last_good \in Int /\ origin' = origin /\ last_good' = last_good
  BY <1>1 DEF ChkInv, ChkTypes, chkVars, linkVars
<1>5. Number(origin)' = Number(origin) /\ Number(last_good)' = Number(last_good)
  BY <1>2, <1>4 DEF Number
<1>6. Expecting'
  BY <1>1, <1>5 DEF ChkInv, Expecting, chkVars
<1>7. ASSUME NEW q \in Seq(Octet), Hearing(q) PROVE Hearing(q)'
  <2>2. ASSUME AsMade(q) PROVE AsMade(q)'
    <3>1. PICK p \in Seq(Octet), a \in [Nat -> Octet], b \in [Nat -> Octet], l \in [Nat -> Word],
               j \in Nat, e \in Octet : Trails(q, p, a, b, l, j, e)
      BY <2>2 DEF AsMade
    <3>2. Trails(q, p, a, b, l, j, e)'
      BY <1>1, <1>5, <3>1 DEF Trails, Summed, chkVars, linkVars, utmiVars
    <3> QED
      BY <3>1, <3>2 DEF AsMade
  <2>3. Fated(q)'
    BY <1>1, <1>5, <1>7, <2>2 DEF Hearing, Fated, Begins, linkVars
  <2> QED
    BY <1>1, <1>7, <2>3 DEF Hearing, StillToCome, Pending, Heard, chkVars, linkVars, utmiVars
<1>8. Reception'
  BY <1>1, <1>7 DEF ChkInv, Reception, chkVars, linkVars, utmiVars
<1> QED
  BY <1>3, <1>6, <1>8 DEF ChkInv

\* A generator's step leaves the numbers of the packets.
LEMMA GeneratorLeaves == ASSUME GenInv, ChkInv, Generator PROVE ChkInv'
<1>1. chkVars' = chkVars /\ linkVars' = linkVars
  BY DEF Generator
<1>2. \A o \in Int : Number(o)' = Number(o)
  <2>1. CASE Check2
    <3>1. /\ g_seq \in Word /\ packets \in Nat
          /\ g_seq' = (g_seq + 1) % 65536 /\ packets' = packets + 1
      BY <2>1 DEF Check2, GenInv, GenTypes
    <3> QED
      BY <3>1, NumberKeeps
  <2>2. CASE Gap \/ SeqBytes \/ Payload \/ Check1
    BY <2>2 DEF Gap, SeqBytes, Payload, Check1, Number
  <2> QED
    BY <2>1, <2>2 DEF Generator
<1> QED
  BY <1>1, <1>2, ChkLeaves

\* Nothing has been received yet.
LEMMA ChkInit == LinkInit => ChkInv
<1> SUFFICES ASSUME LinkInit PROVE ChkInv
  OBVIOUS
<1>1. ChkRegs
  <2>1. seq \in Word /\ lfsr \in Word /\ f1 \in Octet /\ f2 \in Octet /\ last2 \in Octet \X Octet
    BY ZeroFits DEF LinkInit
  <2>2. count \in Nat /\ count < 2048
    BY DEF LinkInit
  <2>3. mismatch \in BOOLEAN
    BY DEF LinkInit
  <2> QED
    BY <2>1, <2>2, <2>3 DEF ChkRegs
<1>2. ChkTypes
  <2>1. expect_seq \in Word /\ origin \in Nat /\ last_good \in Nat /\ incoming \in Seq(Octet)
    BY ZeroFits DEF LinkInit
  <2>2. have_expect \in BOOLEAN /\ rx_active \in BOOLEAN /\ prev_active \in BOOLEAN
    BY DEF LinkInit, UtmiInit
  <2>3. rx_valid \in Octet \cup {NoData} /\ counted \subseteq {"good", "bad", "errors", "gaps"}
    BY DEF LinkInit, UtmiInit
  <2> QED
    BY <1>1, <2>1, <2>2, <2>3 DEF ChkTypes
<1>3. Reception /\ Expecting
  BY DEF LinkInit, UtmiInit, Reception, Expecting
<1> QED
  BY <1>2, <1>3 DEF ChkInv

\* The link test always stays in its two invariants.
LEMMA LinkInvariant == LinkSpec => [](GenInv /\ ChkInv)
<1>1. LinkInit => GenInv /\ ChkInv
  BY GenInit, ChkInit
<1>2. GenInv /\ ChkInv /\ [LinkNext]_linkTestVars => (GenInv /\ ChkInv)'
  <2> SUFFICES ASSUME GenInv, ChkInv, [LinkNext]_linkTestVars PROVE GenInv' /\ ChkInv'
    OBVIOUS
  <2>1. CASE Generator
    BY <2>1, GeneratorKeeps, GeneratorLeaves
  <2>2. CASE Checker
    BY <2>2, CheckerKeeps
  <2>3. CASE UNCHANGED linkTestVars
    <3>1. UNCHANGED <<genVars, carried>> /\ chkVars' = chkVars /\ linkVars' = linkVars
      BY <2>3 DEF linkTestVars
    <3>2. GenInv'
      BY <3>1 DEF GenInv, GenTypes, InMaking, Building, OnLink, Number, genVars
    <3>3. \A o \in Int : Number(o)' = Number(o)
      BY <3>1 DEF Number, genVars
    <3>4. ChkInv'
      BY <3>1, <3>3, ChkLeaves
    <3> QED
      BY <3>2, <3>4
  <2> QED
    BY <2>1, <2>2, <2>3 DEF LinkNext
<1> QED
  BY <1>1, <1>2, PTL DEF LinkSpec

\* LinkTypeOK for every set of payload lengths, gap and link: the registers of both sides keep
\* to their widths, and a payload byte is sent only while some remain.
THEOREM LinkTypesCorrect == LinkSpec => []LinkTypeOK
<1>1. GenInv /\ ChkInv => LinkTypeOK
  <2> SUFFICES ASSUME GenTypes, InMaking, ChkTypes, ChkRegs PROVE LinkTypeOK
    BY DEF GenInv, ChkInv, ChkTypes
  <2>1. {g_seq, seq, expect_seq, g_lfsr, lfsr} \subseteq Word
    BY DEF GenTypes, ChkTypes, ChkRegs
  <2>3. {g_f1, g_f2, f1, f2, last2[1], last2[2]} \subseteq Octet
    BY DEF GenTypes, ChkRegs
  <2>5. length_sel < Len(LENGTHS) /\ gap <= gap_cycles
    BY Lengths DEF GenTypes
  <2>6. g_state = "PAYLOAD" => remaining > 0
    BY DEF InMaking, Building, Fits
  <2>7. /\ g_state \in {"GAP", "SEQ_LO", "SEQ_HI", "PAYLOAD", "CK1", "CK2"}
        /\ count < 2048 /\ counted \subseteq {"good", "bad", "errors", "gaps"}
    BY DEF GenTypes, ChkTypes, ChkRegs
  <2> QED
    BY <2>1, <2>3, <2>5, <2>6, <2>7 DEF LinkTypeOK
<1> QED
  BY <1>1, LinkInvariant, PTL

\* Ledger for every set of payload lengths, gap and link: a packet that ends is judged once, good
\* if it arrived as it was made, bad if a byte of it is wrong or it is noise, and a gap is counted
\* exactly when the packets between two good ones are no multiple of 65536.
THEOREM LinkLedger == LinkSpec => Ledger
<1>1. ASSUME GenInv, ChkInv, LinkNext, falls, ~prev_active'
      PROVE  /\ Cardinality(counted' \cap {"good", "bad"}) = 1
             /\ fate = "intact" => "good" \in counted'
             /\ fate \in {"byte", "noise"} => "bad" \in counted'
             /\ ("gaps" \in counted') <=> (/\ last_good # 0 /\ "good" \in counted'
                                           /\ ((origin - last_good - 1) % 65536) # 0)
  <2>1. Checker
    BY <1>1 DEF LinkNext, Generator, chkVars, falls
  <2>2. ChkTypes /\ Reception /\ GenTypes /\ Expecting /\ Judge
    BY <1>1, <2>1 DEF ChkInv, GenInv, Checker
  <2>3. PICK q \in Seq(Octet) : Hearing(q)
    BY <1>1, <2>2 DEF Reception, falls
  <2>4. \A o \in Int : Number(o) \in Word
    BY <2>2, NumberType
  <2>5. /\ fate = "intact" => ok
        /\ fate \in {"byte", "noise"} => ~ok
        /\ ok => origin > 0 /\ seq = Number(origin)
    BY <1>1, <2>2, <2>3, <2>4, Verdict
  <2>6. counted' = (IF rx_error THEN {"errors"} ELSE {})
                   \cup (IF ok THEN {"good"} ELSE {"bad"})
                   \cup (IF ok /\ have_expect /\ seq # expect_seq THEN {"gaps"} ELSE {})
    BY <1>1, <2>2 DEF Judge
  <2>7. counted' \cap {"good", "bad"} = IF ok THEN {"good"} ELSE {"bad"}
    BY <2>6
  <2>8. /\ "good" \in counted' <=> ok
        /\ "bad" \in counted' <=> ~ok
        /\ "gaps" \in counted' <=> ok /\ have_expect /\ seq # expect_seq
    BY <2>6
  <2>9. Cardinality(counted' \cap {"good", "bad"}) = 1
    BY <2>7, FS_Singleton
  <2>10. ASSUME ok, last_good # 0
         PROVE  seq # expect_seq <=> ((origin - last_good - 1) % 65536) # 0
    <3>0. g_seq \in Int /\ packets \in Int /\ origin \in Int /\ last_good \in Int
      <4>1. g_seq \in Word /\ packets \in Nat /\ origin \in Nat /\ last_good \in Nat
        BY <2>2 DEF GenTypes, ChkTypes
      <4> QED
        BY <4>1, InWord
    <3>1. PICK x, y \in Int : x = g_seq + origin - 1 - packets /\ y = g_seq + last_good - 1 - packets
      BY <3>0
    <3>2. seq = x % 65536 /\ expect_seq = ((y % 65536) + 1) % 65536
      BY <2>2, <2>5, <2>10, <3>1 DEF Number, Expecting
    <3>3. x - y - 1 = origin - last_good - 1
      BY <3>0, <3>1
    <3>4. (x % 65536 # ((y % 65536) + 1) % 65536) <=> ((x - y - 1) % 65536 # 0)
      BY GapShows
    <3> QED
      BY <3>2, <3>3, <3>4
  <2>11. ("gaps" \in counted') <=> (/\ last_good # 0 /\ "good" \in counted'
                                    /\ ((origin - last_good - 1) % 65536) # 0)
    BY <2>2, <2>8, <2>10 DEF Expecting
  <2> QED
    BY <2>5, <2>8, <2>9, <2>11
<1>2. GenInv /\ ChkInv /\ [LinkNext]_linkTestVars =>
        [falls /\ ~prev_active' =>
           /\ Cardinality(counted' \cap {"good", "bad"}) = 1
           /\ fate = "intact" => "good" \in counted'
           /\ fate \in {"byte", "noise"} => "bad" \in counted'
           /\ ("gaps" \in counted') <=> (/\ last_good # 0 /\ "good" \in counted'
                                         /\ ((origin - last_good - 1) % 65536) # 0)
        ]_linkTestVars
  BY <1>1
<1> QED
  BY <1>2, LinkInvariant, PTL DEF LinkSpec, Ledger

-----------------------------------------------------------------------------
(* What the lanes hear of a beacon.                                          *)

\* The registers of a receiver, and what they hold.
Registers ==
  [meta : {0, 1}, rx : {0, 1}, state : {"IDLE", "START", "DATA", "STOP"}, baud : Nat,
   bits : Seq({0, 1}), data : Character \cup {NoByte}]

\* What they can be in each state.
UartOK(u) ==
  /\ u \in Registers /\ u.baud < divisor
  /\ u.state \in {"IDLE", "START"} => u.bits = <<>>
  /\ u.state = "START" => u.baud <= half
  /\ u.state = "DATA" => Len(u.bits) \in 0..7
  /\ u.state = "STOP" => Len(u.bits) = 8

\* The middle of a bit.
LEMMA Middle == /\ divisor \in Nat /\ divisor >= 4 /\ half \in Nat
                /\ 2 * half + 2 <= divisor /\ divisor <= 2 * half + 3 /\ half + 3 <= divisor
  BY DivisorAssumption DEF half

\* Some registers of six are set.
LEMMA RegistersSet ==
  ASSUME NEW Le, NEW St, NEW Ba, NEW Bi, NEW Da,
         NEW u \in [meta : Le, rx : Le, state : St, baud : Ba, bits : Bi, data : Da]
  PROVE  /\ \A l \in Le, e \in Da : [u EXCEPT !.meta = l, !.rx = u.meta, !.data = e] =
              [meta |-> l, rx |-> u.meta, state |-> u.state, baud |-> u.baud, bits |-> u.bits,
               data |-> e]
         /\ \A b \in Ba : [u EXCEPT !.baud = b] =
              [meta |-> u.meta, rx |-> u.rx, state |-> u.state, baud |-> b, bits |-> u.bits,
               data |-> u.data]
         /\ \A s \in St : [u EXCEPT !.state = s] =
              [meta |-> u.meta, rx |-> u.rx, state |-> s, baud |-> u.baud, bits |-> u.bits,
               data |-> u.data]
         /\ \A s \in St, b \in Ba : [u EXCEPT !.state = s, !.baud = b] =
              [meta |-> u.meta, rx |-> u.rx, state |-> s, baud |-> b, bits |-> u.bits,
               data |-> u.data]
         /\ \A s \in St, b \in Ba, c \in Bi :
              [u EXCEPT !.state = s, !.baud = b, !.bits = c] =
              [meta |-> u.meta, rx |-> u.rx, state |-> s, baud |-> b, bits |-> c,
               data |-> u.data]
         /\ \A s \in St, c \in Bi, e \in Da :
              [u EXCEPT !.state = s, !.bits = c, !.data = e] =
              [meta |-> u.meta, rx |-> u.rx, state |-> s, baud |-> u.baud, bits |-> c,
               data |-> e]
<1> DEFINE R == [meta : Le, rx : Le, state : St, baud : Ba, bits : Bi, data : Da]
<1>1. ASSUME NEW w \in R
      PROVE  w = [meta |-> w.meta, rx |-> w.rx, state |-> w.state, baud |-> w.baud,
                  bits |-> w.bits, data |-> w.data]
  OBVIOUS
<1>2. ASSUME NEW l \in Le, NEW e \in Da
      PROVE  [u EXCEPT !.meta = l, !.rx = u.meta, !.data = e] =
                  [meta |-> l, rx |-> u.meta, state |-> u.state, baud |-> u.baud, bits |-> u.bits,
                   data |-> e]
  <2>1. PICK w : w = [u EXCEPT !.meta = l, !.rx = u.meta, !.data = e]
    OBVIOUS
  <2>2. w \in R /\ w.meta = l /\ w.rx = u.meta /\ w.state = u.state
        /\ w.baud = u.baud /\ w.bits = u.bits /\ w.data = e
    BY <2>1
  <2> HIDE DEF R
  <2> QED
    BY <1>1, <2>1, <2>2
<1>3. ASSUME NEW b \in Ba
      PROVE  [u EXCEPT !.baud = b] =
                  [meta |-> u.meta, rx |-> u.rx, state |-> u.state, baud |-> b, bits |-> u.bits,
                   data |-> u.data]
  <2>1. PICK w : w = [u EXCEPT !.baud = b]
    OBVIOUS
  <2>2. w \in R /\ w.meta = u.meta /\ w.rx = u.rx /\ w.state = u.state
        /\ w.baud = b /\ w.bits = u.bits /\ w.data = u.data
    BY <2>1
  <2> HIDE DEF R
  <2> QED
    BY <1>1, <2>1, <2>2
<1>4. ASSUME NEW s \in St
      PROVE  [u EXCEPT !.state = s] =
                  [meta |-> u.meta, rx |-> u.rx, state |-> s, baud |-> u.baud, bits |-> u.bits,
                   data |-> u.data]
  <2>1. PICK w : w = [u EXCEPT !.state = s]
    OBVIOUS
  <2>2. w \in R /\ w.meta = u.meta /\ w.rx = u.rx /\ w.state = s
        /\ w.baud = u.baud /\ w.bits = u.bits /\ w.data = u.data
    BY <2>1
  <2> HIDE DEF R
  <2> QED
    BY <1>1, <2>1, <2>2
<1>5. ASSUME NEW s \in St, NEW b \in Ba
      PROVE  [u EXCEPT !.state = s, !.baud = b] =
                  [meta |-> u.meta, rx |-> u.rx, state |-> s, baud |-> b, bits |-> u.bits,
                   data |-> u.data]
  <2>1. PICK w : w = [u EXCEPT !.state = s, !.baud = b]
    OBVIOUS
  <2>2. w \in R /\ w.meta = u.meta /\ w.rx = u.rx /\ w.state = s
        /\ w.baud = b /\ w.bits = u.bits /\ w.data = u.data
    BY <2>1
  <2> HIDE DEF R
  <2> QED
    BY <1>1, <2>1, <2>2
<1>6. ASSUME NEW s \in St, NEW b \in Ba, NEW c \in Bi
      PROVE  [u EXCEPT !.state = s, !.baud = b, !.bits = c] =
                  [meta |-> u.meta, rx |-> u.rx, state |-> s, baud |-> b, bits |-> c,
                   data |-> u.data]
  <2>1. PICK w : w = [u EXCEPT !.state = s, !.baud = b, !.bits = c]
    OBVIOUS
  <2>2. w \in R /\ w.meta = u.meta /\ w.rx = u.rx /\ w.state = s
        /\ w.baud = b /\ w.bits = c /\ w.data = u.data
    BY <2>1
  <2> HIDE DEF R
  <2> QED
    BY <1>1, <2>1, <2>2
<1>7. ASSUME NEW s \in St, NEW c \in Bi, NEW e \in Da
      PROVE  [u EXCEPT !.state = s, !.bits = c, !.data = e] =
                  [meta |-> u.meta, rx |-> u.rx, state |-> s, baud |-> u.baud, bits |-> c,
                   data |-> e]
  <2>1. PICK w : w = [u EXCEPT !.state = s, !.bits = c, !.data = e]
    OBVIOUS
  <2>2. w \in R /\ w.meta = u.meta /\ w.rx = u.rx /\ w.state = s
        /\ w.baud = u.baud /\ w.bits = c /\ w.data = e
    BY <2>1
  <2> HIDE DEF R
  <2> QED
    BY <1>1, <2>1, <2>2
<1> HIDE DEF R
<1> QED
  BY <1>2, <1>3, <1>4, <1>5, <1>6, <1>7, Zenon

\* What each state makes of the registers.
UartMoves(u, level, w) ==
  /\ w = [meta |-> level, rx |-> u.meta, state |-> w.state, baud |-> w.baud, bits |-> w.bits,
          data |-> w.data]
  /\ u.state = "IDLE" =>
       /\ w.bits = u.bits /\ w.data = NoByte
       /\ u.rx = 1 => w.state = "IDLE" /\ w.baud = u.baud
       /\ u.rx # 1 => w.state = "START" /\ w.baud = half
  /\ u.state # "IDLE" /\ u.baud > 0 =>
       w.state = u.state /\ w.baud = u.baud - 1 /\ w.bits = u.bits /\ w.data = NoByte
  /\ u.state = "START" /\ u.baud = 0 =>
       /\ w.bits = u.bits /\ w.data = NoByte
       /\ u.rx = 1 => w.state = "IDLE" /\ w.baud = 0
       /\ u.rx # 1 => w.state = "DATA" /\ w.baud = divisor - 1
  /\ u.state = "DATA" /\ u.baud = 0 =>
       /\ w.bits = Append(u.bits, u.rx) /\ w.data = NoByte /\ w.baud = divisor - 1
       /\ w.state = IF Len(u.bits) = 7 THEN "STOP" ELSE "DATA"
  /\ u.state = "STOP" /\ u.baud = 0 =>
       w.bits = <<>> /\ w.data = ByteOver(u) /\ w.state = "IDLE" /\ w.baud = 0

\* A step of a receiver by its fields, and its registers stay registers.
LEMMA UartFields ==
  ASSUME NEW u \in Registers, NEW level \in {0, 1}, u.baud < divisor,
         Len(u.bits) = 8 \/ u.state # "STOP", NEW w, w = UartStep(u, level)
  PROVE  UartMoves(u, level, w)
<1>1. PICK Le, St, Ba, Bi, Da :
        /\ Le = {0, 1} /\ St = {"IDLE", "START", "DATA", "STOP"} /\ Ba = Nat
        /\ Bi = Seq({0, 1}) /\ Da = Character \cup {NoByte}
  OBVIOUS
<1> DEFINE R == [meta : Le, rx : Le, state : St, baud : Ba, bits : Bi, data : Da]
<1>2. u \in R /\ u.state \in St /\ u.baud \in Nat /\ u.bits \in Seq({0, 1}) /\ u.rx \in {0, 1}
  BY <1>1 DEF Registers
<1>3. /\ level \in Le /\ NoByte \in Da /\ "IDLE" \in St /\ "START" \in St /\ "DATA" \in St
      /\ "STOP" \in St /\ half \in Ba /\ divisor - 1 \in Ba
      /\ u.baud > 0 => u.baud - 1 \in Ba
      /\ Append(u.bits, u.rx) \in Bi /\ <<>> \in Bi
  BY <1>1, <1>2, Middle
<1>4. u.state = "STOP" => ByteOver(u) \in Da
  <2>1. u.bits \in [1..Len(u.bits) -> {0, 1}]
    BY <1>2
  <2>2. Len(u.bits) = 8 => u.bits \in [1..8 -> {0, 1}]
    BY <2>1
  <2> QED
    BY <1>1, <2>2 DEF ByteOver, Character
<1>5. PICK v : v = [u EXCEPT !.meta = level, !.rx = u.meta, !.data = NoByte]
  OBVIOUS
<1>6. v \in R /\ v.meta = level /\ v.rx = u.meta /\ v.state = u.state /\ v.baud = u.baud
      /\ v.bits = u.bits /\ v.data = NoByte
  BY <1>2, <1>3, <1>5
<1>7. v = [meta |-> level, rx |-> u.meta, state |-> u.state, baud |-> u.baud, bits |-> u.bits,
           data |-> NoByte]
  BY <1>2, <1>3, <1>5, RegistersSet
<1>8. CASE u.state = "IDLE"
  <2>1. PICK x : x = [v EXCEPT !.state = "START", !.baud = half]
    OBVIOUS
  <2>2. w = IF u.rx = 1 THEN v ELSE x
    BY <1>5, <1>8, <2>1, Zenon DEF UartStep
  <2>3. x = [meta |-> v.meta, rx |-> v.rx, state |-> "START", baud |-> half, bits |-> v.bits,
             data |-> v.data]
    BY <1>3, <1>6, <2>1, RegistersSet
  <2> QED
    BY <1>6, <1>7, <1>8, <2>2, <2>3 DEF UartMoves
<1>9. CASE u.state # "IDLE" /\ u.baud > 0
  <2>0. u.baud # 0
    BY <1>9
  <2>1. w = [v EXCEPT !.baud = @ - 1]
    BY <1>5, <1>9, <2>0, Zenon DEF UartStep
  <2>2. w = [meta |-> level, rx |-> u.meta, state |-> u.state, baud |-> u.baud - 1,
             bits |-> u.bits, data |-> NoByte]
    BY <1>3, <1>6, <1>9, <2>1, RegistersSet
  <2> QED
    BY <1>9, <2>2 DEF UartMoves
<1>10. CASE u.state = "START" /\ u.baud = 0
  <2>1. u.state # "IDLE" /\ ~(u.baud > 0)
    BY <1>10
  <2>2. PICK x : x = [v EXCEPT !.state = "IDLE"]
    OBVIOUS
  <2>3. PICK y : y = [v EXCEPT !.state = "DATA", !.baud = divisor - 1]
    OBVIOUS
  <2>4. w = IF u.rx = 1 THEN x ELSE y
    BY <1>5, <1>10, <2>1, <2>2, <2>3, Zenon DEF UartStep
  <2>5. x = [meta |-> v.meta, rx |-> v.rx, state |-> "IDLE", baud |-> v.baud, bits |-> v.bits,
             data |-> v.data]
    BY <1>3, <1>6, <2>2, RegistersSet
  <2>6. y = [meta |-> v.meta, rx |-> v.rx, state |-> "DATA", baud |-> divisor - 1,
             bits |-> v.bits, data |-> v.data]
    BY <1>3, <1>6, <2>3, RegistersSet
  <2> QED
    BY <1>6, <1>10, <2>4, <2>5, <2>6 DEF UartMoves
<1>11. CASE u.state = "DATA" /\ u.baud = 0
  <2>1. u.state # "IDLE" /\ u.state # "START" /\ ~(u.baud > 0)
    BY <1>11
  <2>2. PICK s \in St : s = IF Len(u.bits) = 7 THEN "STOP" ELSE "DATA"
    BY <1>3
  <2>3. w = [v EXCEPT !.state = IF Len(u.bits) = 7 THEN "STOP" ELSE "DATA",
                      !.baud = divisor - 1, !.bits = Append(v.bits, u.rx)]
    BY <1>5, <1>11, <2>1, Zenon DEF UartStep
  <2>4. w = [v EXCEPT !.state = s, !.baud = divisor - 1, !.bits = Append(u.bits, u.rx)]
    BY <1>6, <2>2, <2>3, Zenon
  <2>5. w = [meta |-> level, rx |-> u.meta, state |-> s, baud |-> divisor - 1,
             bits |-> Append(u.bits, u.rx), data |-> NoByte]
    BY <1>3, <1>6, <2>2, <2>4, RegistersSet
  <2> QED
    BY <1>11, <2>2, <2>5 DEF UartMoves
<1>12. CASE u.state = "STOP" /\ u.baud = 0
  <2>1. u.state # "IDLE" /\ u.state # "START" /\ u.state # "DATA" /\ ~(u.baud > 0)
    BY <1>12
  <2>2. w = [v EXCEPT !.state = "IDLE", !.bits = <<>>, !.data = ByteOver(u)]
    BY <1>5, <1>12, <2>1, Zenon DEF UartStep
  <2>3. w = [meta |-> level, rx |-> u.meta, state |-> "IDLE", baud |-> u.baud,
             bits |-> <<>>, data |-> ByteOver(u)]
    BY <1>3, <1>4, <1>6, <1>12, <2>2, RegistersSet
  <2> QED
    BY <1>12, <2>3 DEF UartMoves
<1>13. u.state = "IDLE" \/ (u.state # "IDLE" /\ u.baud > 0)
       \/ (u.state = "START" /\ u.baud = 0) \/ (u.state = "DATA" /\ u.baud = 0)
       \/ (u.state = "STOP" /\ u.baud = 0)
  BY <1>1, <1>2
<1> QED
  BY <1>8, <1>9, <1>10, <1>11, <1>12, <1>13

\* keep their types, whatever is on the line.
LEMMA UartKeeps ==
  ASSUME NEW u, UartOK(u), NEW level \in {0, 1}
  PROVE  UartOK(UartStep(u, level))
<1>1. PICK w : w = UartStep(u, level)
  OBVIOUS
<1>2. /\ u.meta \in {0, 1} /\ u.rx \in {0, 1} /\ u.state \in {"IDLE", "START", "DATA", "STOP"}
      /\ u.baud \in Nat /\ u.baud < divisor /\ u.bits \in Seq({0, 1}) /\ u \in Registers
      /\ u.state = "STOP" => Len(u.bits) = 8
  BY DEF UartOK, Registers
<1>3. u.state = "STOP" => ByteOver(u) \in Character \cup {NoByte}
  <2>1. u.bits \in [1..Len(u.bits) -> {0, 1}]
    BY <1>2
  <2>2. Len(u.bits) = 8 => u.bits \in [1..8 -> {0, 1}]
    BY <2>1
  <2> QED
    BY <1>2, <2>2 DEF ByteOver, Character
<1>4. Append(u.bits, u.rx) \in Seq({0, 1}) /\ Len(Append(u.bits, u.rx)) = Len(u.bits) + 1
      /\ Len(u.bits) \in Nat
  BY <1>2
<1>5. w = [meta |-> level, rx |-> u.meta, state |-> w.state, baud |-> w.baud,
           bits |-> w.bits, data |-> w.data]
  BY <1>1, <1>2, UartFields DEF UartMoves
<1>6. /\ w.state \in {"IDLE", "START", "DATA", "STOP"} /\ w.baud \in Nat /\ w.baud < divisor
      /\ w.bits \in Seq({0, 1}) /\ w.data \in Character \cup {NoByte}
      /\ w.state \in {"IDLE", "START"} => w.bits = <<>>
      /\ w.state = "START" => w.baud <= half
      /\ w.state = "DATA" => Len(w.bits) \in 0..7
      /\ w.state = "STOP" => Len(w.bits) = 8
  <2>1. CASE u.state = "IDLE"
    BY <1>1, <1>2, <2>1, UartFields, Middle DEF UartMoves, UartOK
  <2>2. CASE u.state # "IDLE" /\ u.baud > 0
    <3>1. w.state = u.state /\ w.baud = u.baud - 1 /\ w.bits = u.bits /\ w.data = NoByte
      BY <1>1, <1>2, <2>2, UartFields DEF UartMoves
    <3>2. /\ u.state = "START" => u.baud <= half
          /\ u.state = "DATA" => Len(u.bits) \in 0..7
          /\ u.state \in {"IDLE", "START"} => u.bits = <<>>
      BY DEF UartOK
    <3> QED
      BY <1>2, <2>2, <3>1, <3>2, Middle
  <2>3. CASE u.state = "START" /\ u.baud = 0
    BY <1>1, <1>2, <2>3, UartFields, Middle DEF UartMoves, UartOK
  <2>4. CASE u.state = "DATA" /\ u.baud = 0
    <3>1. Len(u.bits) \in 0..7
      BY <2>4 DEF UartOK
    <3>2. /\ w.bits = Append(u.bits, u.rx) /\ w.data = NoByte /\ w.baud = divisor - 1
          /\ w.state = IF Len(u.bits) = 7 THEN "STOP" ELSE "DATA"
      BY <1>1, <1>2, <2>4, UartFields DEF UartMoves
    <3>a. PICK n \in 0..7, m \in Nat : n = Len(u.bits) /\ m = Len(w.bits)
      BY <1>4, <3>1, <3>2
    <3>b. m = n + 1 /\ w.state = IF n = 7 THEN "STOP" ELSE "DATA"
      BY <1>4, <3>2, <3>a
    <3>c. CASE n = 7
      <4>1. w.state = "STOP" /\ m = 8
        BY <3>b, <3>c
      <4> QED
        BY <1>4, <3>2, <3>a, <4>1, Middle
    <3>d. CASE n # 7
      <4>1. w.state = "DATA" /\ m = n + 1
        BY <3>b, <3>d
      <4>2. m \in 0..7
        BY <3>d, <4>1
      <4> QED
        BY <1>4, <3>2, <3>a, <4>1, <4>2, Middle
    <3> QED
      BY <3>c, <3>d
  <2>5. CASE u.state = "STOP" /\ u.baud = 0
    <3>1. w.bits = <<>> /\ w.data = ByteOver(u) /\ w.state = "IDLE" /\ w.baud = 0
      BY <1>1, <1>2, <2>5, UartFields DEF UartMoves
    <3> QED
      BY <1>3, <2>5, <3>1, Middle
  <2> QED
    BY <1>2, <2>1, <2>2, <2>3, <2>4, <2>5
<1>7. w \in Registers
  BY <1>2, <1>5, <1>6 DEF Registers
<1> QED
  BY <1>1, <1>6, <1>7 DEF UartOK

\* Cycles until a receiver whose line is at rest is so as well.
ToRest(u) ==
  CASE u.state = "IDLE" -> 0
    [] u.state = "DATA" -> u.baud + 1 + (8 - Len(u.bits)) * divisor
    [] OTHER -> u.baud + 1

\* What is known of a receiver g cycles after its line came to rest.
Settling(u, g) ==
  /\ g >= 1 => u.meta = 1
  /\ g >= 2 => u.rx = 1 /\ (u.state # "IDLE" => ToRest(u) + g <= 9 * divisor + 2)

\* Bits still to come, in cycles.
LEMMA BitsToCome ==
  \A n \in 0..7 : /\ (8 - n) * divisor \in Nat /\ (8 - n) * divisor <= 8 * divisor
                  /\ (8 - (n + 1)) * divisor = (8 - n) * divisor - divisor
                  /\ (8 - n) * divisor >= divisor
<1>1. \A n \in 0..7 : n = 0 \/ n = 1 \/ n = 2 \/ n = 3 \/ n = 4 \/ n = 5 \/ n = 6 \/ n = 7
  OBVIOUS
<1> QED
  BY <1>1, Middle

\* It takes a receiver nine bits at most to be back at rest.
LEMMA ToRestIsNat ==
  ASSUME NEW u, UartOK(u)
  PROVE  ToRest(u) \in Nat /\ ToRest(u) <= 9 * divisor
<1>1. /\ u.baud \in Nat /\ u.baud < divisor /\ Len(u.bits) \in Nat
      /\ u.state = "DATA" => Len(u.bits) \in 0..7
  BY DEF UartOK, Registers
<1>2. CASE u.state = "DATA"
  <2>1. PICK n \in 0..7 : n = Len(u.bits)
    BY <1>1, <1>2
  <2>2. ToRest(u) = u.baud + 1 + (8 - n) * divisor
    BY <1>2, <2>1 DEF ToRest
  <2>3. (8 - n) * divisor \in Nat /\ (8 - n) * divisor <= 8 * divisor
    BY BitsToCome
  <2> QED
    BY <1>1, <2>2, <2>3, Middle
<1>3. CASE u.state # "DATA"
  <2>1. ToRest(u) = 0 \/ ToRest(u) = u.baud + 1
    BY <1>3 DEF ToRest
  <2> QED
    BY <1>1, <2>1, Middle
<1> QED
  BY <1>2, <1>3

\* A pending character ends, and none begins.
LEMMA Settles ==
  ASSUME NEW u, UartOK(u), NEW g \in Nat, Settling(u, g), NEW g2 \in Nat,
         g2 = g + 1 \/ (g2 = g /\ g >= 2)
  PROVE  Settling(UartStep(u, 1), g2)
<1>1. PICK w : w = UartStep(u, 1)
  OBVIOUS
<1>2. /\ u.meta \in {0, 1} /\ u.rx \in {0, 1} /\ u.state \in {"IDLE", "START", "DATA", "STOP"}
      /\ u.baud \in Nat /\ u.baud < divisor /\ u.bits \in Seq({0, 1}) /\ u \in Registers
      /\ Len(u.bits) \in Nat
  BY DEF UartOK, Registers
<1>3. /\ u.state \in {"IDLE", "START"} => u.bits = <<>>
      /\ u.state = "START" => u.baud <= half
      /\ u.state = "DATA" => Len(u.bits) \in 0..7
      /\ u.state = "STOP" => Len(u.bits) = 8
  BY DEF UartOK
<1>4. w.meta = 1 /\ w.rx = u.meta
  BY <1>1, <1>2, <1>3, UartFields DEF UartMoves
<1>5. ToRest(u) \in Nat /\ ToRest(u) <= 9 * divisor
  BY ToRestIsNat
<1>6. ASSUME g2 >= 2, w.state # "IDLE" PROVE ToRest(w) + g2 <= 9 * divisor + 2
  <2>1. g >= 2 => u.rx = 1
    BY DEF Settling
  <2>2. g >= 2 /\ u.state # "IDLE" => ToRest(u) + g <= 9 * divisor + 2
    BY DEF Settling
  <2>3. g2 <= g + 1 /\ (g >= 2 \/ g2 = 2)
    BY <1>6
  <2>4. CASE u.state = "IDLE"
    <3>1. u.rx # 1 /\ w.state = "START" /\ w.baud = half
      BY <1>1, <1>2, <1>3, <1>6, <2>4, UartFields DEF UartMoves
    <3>2. ToRest(w) = half + 1
      BY <3>1 DEF ToRest
    <3> QED
      BY <2>1, <2>3, <3>1, <3>2, Middle
  <2>5. CASE u.state # "IDLE" /\ u.baud > 0
    <3>1. w.state = u.state /\ w.baud = u.baud - 1 /\ w.bits = u.bits
      BY <1>1, <1>2, <1>3, <2>5, UartFields DEF UartMoves
    <3>2. ToRest(w) = ToRest(u) - 1
      <4>1. CASE u.state = "DATA"
        <5>1. PICK n \in 0..7 : n = Len(u.bits)
          BY <1>2, <1>3, <4>1
        <5>2. ToRest(u) = u.baud + 1 + (8 - n) * divisor
          BY <4>1, <5>1 DEF ToRest
        <5>3. ToRest(w) = u.baud - 1 + 1 + (8 - n) * divisor
          BY <3>1, <4>1, <5>1 DEF ToRest
        <5>4. (8 - n) * divisor \in Nat
          BY BitsToCome
        <5> QED
          BY <1>2, <5>2, <5>3, <5>4
      <4>2. CASE u.state # "DATA"
        BY <1>2, <2>5, <3>1, <4>2 DEF ToRest
      <4> QED
        BY <4>1, <4>2
    <3> QED
      BY <1>5, <2>2, <2>3, <2>5, <3>2, Middle
  <2>6. CASE u.state = "START" /\ u.baud = 0
    <3>1. u.rx # 1 /\ w.state = "DATA" /\ w.baud = divisor - 1 /\ w.bits = <<>>
      BY <1>1, <1>2, <1>3, <1>6, <2>6, UartFields DEF UartMoves
    <3>2. ToRest(w) = 9 * divisor
      BY <3>1, Middle DEF ToRest
    <3> QED
      BY <2>1, <2>3, <3>1, <3>2, Middle
  <2>7. CASE u.state = "DATA" /\ u.baud = 0
    <3>1. /\ w.bits = Append(u.bits, u.rx) /\ w.baud = divisor - 1
          /\ w.state = IF Len(u.bits) = 7 THEN "STOP" ELSE "DATA"
      BY <1>1, <1>2, <1>3, <2>7, UartFields DEF UartMoves
    <3>2. Len(w.bits) = Len(u.bits) + 1 /\ Len(u.bits) \in 0..7
      BY <1>2, <1>3, <2>7, <3>1
    <3>3. ToRest(u) = 1 + (8 - Len(u.bits)) * divisor
      BY <2>7, <3>2, BitsToCome DEF ToRest
    <3>4. ToRest(w) = ToRest(u) - 1
      <4>1. CASE Len(u.bits) = 7
        <5>1. ToRest(u) = 1 + divisor
          BY <3>3, <4>1, Middle
        <5>2. ToRest(w) = divisor - 1 + 1
          BY <3>1, <4>1, Middle DEF ToRest
        <5> QED
          BY <5>1, <5>2, Middle
      <4>2. CASE Len(u.bits) # 7
        <5>1. w.state = "DATA"
          BY <3>1, <4>2
        <5>2. ToRest(w) = divisor - 1 + 1 + (8 - (Len(u.bits) + 1)) * divisor
          BY <3>1, <3>2, <5>1 DEF ToRest
        <5> QED
          BY <3>2, <3>3, <5>2, BitsToCome, Middle
      <4> QED
        BY <4>1, <4>2
    <3> QED
      BY <1>5, <2>2, <2>3, <2>7, <3>4, Middle
  <2>8. CASE u.state = "STOP" /\ u.baud = 0
    BY <1>1, <1>2, <1>3, <1>6, <2>8, UartFields DEF UartMoves
  <2> QED
    BY <1>2, <2>4, <2>5, <2>6, <2>7, <2>8
<1> QED
  BY <1>1, <1>4, <1>6 DEF Settling

\* Quotients of what is written as quotient and remainder.
LEMMA Slot ==
  ASSUME NEW q \in Nat, NEW m \in Nat \ {0}, NEW r \in Nat, r < m
  PROVE  (q * m + r) \div m = q
<1>1. PICK x \in Int : x = (q * m + r) \div m
  OBVIOUS
<1>2. q * m + r \in Nat /\ q * m \in Nat
  OBVIOUS
<1>3. x * m <= q * m + r /\ q * m + r < (x + 1) * m
  BY <1>1, <1>2
<1>4. ~(x <= q - 1)
  <2> SUFFICES ASSUME x <= q - 1 PROVE FALSE
    OBVIOUS
  <2>1. (x + 1) * m <= q * m
    <3>1. PICK z \in Nat : q = x + 1 + z
      BY <1>1
    <3>2. q * m = (x + 1) * m + z * m /\ z * m \in Nat
      BY <3>1
    <3> QED
      BY <3>2
  <2> QED
    BY <1>3, <2>1
<1>5. ~(x >= q + 1)
  <2> SUFFICES ASSUME x >= q + 1 PROVE FALSE
    OBVIOUS
  <2>1. x * m >= (q + 1) * m
    <3>1. PICK z \in Nat : x = q + 1 + z
      BY <1>1
    <3>2. x * m = (q + 1) * m + z * m /\ z * m \in Nat
      BY <3>1
    <3> QED
      BY <3>2
  <2>2. (q + 1) * m = q * m + m
    OBVIOUS
  <2> QED
    BY <1>2, <1>3, <2>1, <2>2
<1> QED
  BY <1>1, <1>4, <1>5

\* Bit j of byte k of a frame, from its first cycle to its last.
BitIs(level, frame, k, j) ==
  /\ j = 0 => level = 0
  /\ j = 9 => level = 1
  /\ j \in 1..8 => level = frame[k + 1][j]

\* The line of a beacon has bit j of byte k in each of the cycles of that bit.
LEMMA BitOnLine ==
  ASSUME NEW frame, NEW k \in 0..5, NEW j \in 0..9, NEW b \in 0..59, b = 10 * k + j,
         NEW r \in Nat, r < divisor
  PROVE  BitIs(LineBit(frame, b * divisor + r), frame, k, j)
<1> DEFINE ph == b * divisor + r
<1>1. ph \div divisor = b
  BY Slot, Middle
<1>2. b % 10 = j
  OBVIOUS
<1>3. ph \div (10 * divisor) = k
  <2>1. PICK s \in Nat : s = j * divisor + r
    BY Middle
  <2>2. s < 10 * divisor
    <3>1. j = 0 \/ j = 1 \/ j = 2 \/ j = 3 \/ j = 4 \/ j = 5 \/ j = 6 \/ j = 7 \/ j = 8 \/ j = 9
      OBVIOUS
    <3> QED
      BY <2>1, <3>1, Middle
  <2>3. ph = k * (10 * divisor) + s
    BY <2>1, Middle
  <2>4. (k * (10 * divisor) + s) \div (10 * divisor) = k
    BY <2>2, Slot, Middle
  <2> QED
    BY <2>3, <2>4
<1> HIDE DEF ph
<1>4. 1 + k = k + 1
  OBVIOUS
<1>5. LineBit(frame, ph) = CASE j = 0 -> 0 [] j = 9 -> 1 [] OTHER -> frame[k + 1][j]
  BY <1>1, <1>2, <1>3, <1>4 DEF LineBit
<1>6. j \in 1..8 => j # 0 /\ j # 9
  OBVIOUS
<1> QED
  BY <1>5, <1>6 DEF ph, BitIs

\* Where a receiver in step is: e cycles into its wait for the sample of bit j + 1.
At(k, j, e) == (10 * k + j) * divisor + e

\* n cycles and half a bit on, over the end of the frame.
After(t, n) ==
  IF t + n + half < FrameCycles THEN t + n + half ELSE t + n + half - FrameCycles

\* Byte, bit and cycle: the places of a frame, in their order.
Places == {p \in (0..5) \X (0..9) \X Nat : p[3] < divisor}
NextPlace(p) ==
  IF p[3] < divisor - 1 THEN <<p[1], p[2], p[3] + 1>>
  ELSE IF p[2] < 9 THEN <<p[1], p[2] + 1, 0>>
  ELSE IF p[1] < 5 THEN <<p[1] + 1, 0, 0>> ELSE <<0, 0, 0>>
Cyc(p) == At(p[1], p[2], p[3])

\* A receiver goes through the places of a frame in their order.
LEMMA Advance ==
  ASSUME NEW p \in Places
  PROVE  /\ NextPlace(p) \in Places /\ Cyc(p) \in Nat /\ Cyc(p) < FrameCycles
         /\ Cyc(NextPlace(p)) = (IF Cyc(p) + 1 < FrameCycles THEN Cyc(p) + 1 ELSE 0)
         /\ Cyc(p) + 1 < FrameCycles <=> NextPlace(p) # <<0, 0, 0>>
<1>1. PICK k \in 0..5, j \in 0..9, e \in Nat : p = <<k, j, e>> /\ e < divisor
  BY DEF Places
<1>2. PICK b \in 0..59 : b = 10 * k + j
  OBVIOUS
<1>3. Cyc(p) = b * divisor + e
  BY <1>1, <1>2 DEF Cyc, At
<1>4. b * divisor \in Nat /\ (b + 1) * divisor = b * divisor + divisor
  BY Middle
<1>5. b < 59 => b * divisor + divisor <= 59 * divisor
  <2>1. PICK z \in Int : z = 59 - b
    OBVIOUS
  <2>2. z * divisor + b * divisor = 59 * divisor
    BY <2>1, Middle
  <2>3. z >= 1 => z * divisor >= divisor
    BY Middle
  <2> QED
    BY <1>4, <2>1, <2>2, <2>3, Middle
<1>6. b = 59 <=> k = 5 /\ j = 9
  BY <1>2
<1>7. FrameCycles = 60 * divisor
  BY DEF FrameCycles
<1>8. Cyc(p) \in Nat /\ Cyc(p) < FrameCycles
  BY <1>1, <1>3, <1>4, <1>5, <1>7, Middle
<1>9. CASE e < divisor - 1
  <2>1. NextPlace(p) = <<k, j, e + 1>>
    BY <1>1, <1>9 DEF NextPlace
  <2>2. Cyc(NextPlace(p)) = b * divisor + (e + 1)
    BY <1>2, <2>1 DEF Cyc, At
  <2>3. NextPlace(p) \in Places /\ NextPlace(p) # <<0, 0, 0>>
    BY <1>9, <2>1, Middle DEF Places
  <2> QED
    BY <1>3, <1>4, <1>5, <1>7, <1>8, <1>9, <2>2, <2>3, Middle
<1>10. CASE e = divisor - 1 /\ j < 9
  <2>1. NextPlace(p) = <<k, j + 1, 0>>
    BY <1>1, <1>10, Middle DEF NextPlace
  <2>2. Cyc(NextPlace(p)) = (b + 1) * divisor + 0
    BY <1>2, <2>1, Middle DEF Cyc, At
  <2>3. NextPlace(p) \in Places /\ NextPlace(p) # <<0, 0, 0>>
    BY <1>10, <2>1, Middle DEF Places
  <2>4. b < 59
    BY <1>6, <1>10
  <2> QED
    BY <1>3, <1>4, <1>5, <1>7, <1>8, <1>10, <2>2, <2>3, <2>4, Middle
<1>11. CASE e = divisor - 1 /\ j = 9 /\ k < 5
  <2>1. NextPlace(p) = <<k + 1, 0, 0>>
    BY <1>1, <1>11, Middle DEF NextPlace
  <2>2. Cyc(NextPlace(p)) = (b + 1) * divisor + 0
    <3>1. 10 * (k + 1) + 0 = b + 1
      BY <1>2, <1>11
    <3> QED
      BY <2>1, <3>1 DEF Cyc, At
  <2>3. NextPlace(p) \in Places /\ NextPlace(p) # <<0, 0, 0>>
    BY <1>11, <2>1, Middle DEF Places
  <2>4. b < 59
    BY <1>6, <1>11
  <2> QED
    BY <1>3, <1>4, <1>5, <1>7, <1>8, <1>11, <2>2, <2>3, <2>4, Middle
<1>12. CASE e = divisor - 1 /\ j = 9 /\ k = 5
  <2>1. NextPlace(p) = <<0, 0, 0>>
    BY <1>1, <1>12, Middle DEF NextPlace
  <2>2. Cyc(NextPlace(p)) = 0
    BY <2>1, Middle DEF Cyc, At
  <2>3. NextPlace(p) \in Places
    BY <2>1, Middle DEF Places
  <2> QED
    BY <1>3, <1>6, <1>7, <1>8, <1>12, <2>1, <2>2, <2>3, Middle
<1> QED
  BY <1>1, <1>9, <1>10, <1>11, <1>12, Middle

\* Where one is n cycles and half a bit on.
LEMMA Wrapped ==
  ASSUME NEW t \in Nat, NEW n \in Nat, NEW s \in Nat, t + n + half = s
  PROVE  /\ s < FrameCycles => After(t, n) = s
         /\ s >= FrameCycles => After(t, n) = s - FrameCycles
<1>1. PICK f \in Nat : f = FrameCycles
  BY Middle DEF FrameCycles
<1> QED
  BY <1>1, Middle DEF After

\* The places of the lags of one cycle more.
LEMMA Lags ==
  ASSUME NEW p \in Places, NEW n \in {2, 3}
  PROVE  After(Cyc(NextPlace(p)), n) = After(Cyc(p), n + 1)
<1>1. PICK t \in Nat : t = Cyc(p) /\ t < FrameCycles
  BY Advance
<1>2. PICK t2 \in Nat : t2 = Cyc(NextPlace(p)) /\ t2 = IF t + 1 < FrameCycles THEN t + 1 ELSE 0
  BY <1>1, Advance
<1>3. FrameCycles \in Nat /\ 7 + half < FrameCycles
  BY Middle DEF FrameCycles
<1>4. CASE t + 1 < FrameCycles
  BY <1>1, <1>2, <1>3, <1>4, Middle DEF After
<1>5. CASE ~(t + 1 < FrameCycles)
  BY <1>1, <1>2, <1>3, <1>5, Middle DEF After
<1> QED
  BY <1>4, <1>5

\* What is sampled in the last cycle of a wait is the bit behind the place's,
LEMMA Sampled ==
  ASSUME NEW frame, NEW k \in 0..5, NEW j \in 0..9
  PROVE  LET bit == LineBit(frame, After(At(k, j, divisor - 1), 2))
         IN  /\ j <= 7 => bit = frame[k + 1][j + 1]
             /\ j = 8 => bit = 1
             /\ j = 9 => bit = 0
<1> DEFINE here == After(At(k, j, divisor - 1), 2)
<1>1. PICK b \in 0..59 : b = 10 * k + j
  OBVIOUS
<1>2. PICK r \in Nat : r = half + 1 /\ r < divisor
  BY Middle
<1>3. b * divisor \in Nat /\ (b + 1) * divisor = b * divisor + divisor
  BY Middle
<1>4. At(k, j, divisor - 1) + 2 + half = (b + 1) * divisor + r
  BY <1>1, <1>2, <1>3, Middle DEF At
<1>5. CASE b = 59
  <2>1. k = 5 /\ j = 9 /\ (b + 1) * divisor = FrameCycles
    BY <1>1, <1>5, Middle DEF FrameCycles
  <2>2. PICK z \in 0..59, i \in 0..5, n \in 0..9 : z = 0 /\ i = 0 /\ n = 0 /\ z = 10 * i + n
    OBVIOUS
  <2>3. here = z * divisor + r
    <3>1. PICK f \in Nat : f = FrameCycles
      BY Middle DEF FrameCycles
    <3>2. At(k, j, divisor - 1) + 2 + half = f + r
      BY <1>4, <2>1, <3>1
    <3>3. PICK t \in Nat, s \in Nat, m \in Nat :
            t = At(k, j, divisor - 1) /\ s = f + r /\ t + m + half = s /\ m = 2
      <4>1. At(k, j, divisor - 1) \in Nat
        BY <1>1, <1>3, Middle DEF At
      <4> QED
        BY <1>2, <3>1, <3>2, <4>1
    <3>4. After(t, m) = s - FrameCycles
      BY <1>2, <3>1, <3>3, Wrapped
    <3>5. here = f + r - f
      BY <3>1, <3>3, <3>4
    <3>6. z * divisor = 0
      BY <2>2, Middle
    <3> QED
      BY <1>2, <3>1, <3>5, <3>6
  <2>4. LineBit(frame, z * divisor + r) = 0
    BY <1>2, <2>2, BitOnLine DEF BitIs
  <2> QED
    BY <2>1, <2>3, <2>4
<1>6. CASE b < 59
  <2>1. PICK z \in 0..59 : z = b + 1
    BY <1>6
  <2>2. here = z * divisor + r
    <3>1. PICK x \in Nat : x = 59 - z
      BY <2>1
    <3>2. x * divisor \in Nat /\ x * divisor + z * divisor = 59 * divisor /\ z * divisor \in Nat
      BY <2>1, <3>1, Middle
    <3>3. z * divisor + r < FrameCycles
      BY <1>2, <3>2, Middle DEF FrameCycles
    <3> QED
      BY <1>4, <2>1, <3>3 DEF After
  <2>3. PICK i \in 0..5, n \in 0..9 : /\ z = 10 * i + n
                                      /\ j < 9 => i = k /\ n = j + 1
                                      /\ j = 9 => i = k + 1 /\ n = 0
    <3>1. CASE j < 9
      <4>1. k \in 0..5 /\ j + 1 \in 0..9 /\ z = 10 * k + (j + 1)
        BY <1>1, <2>1, <3>1
      <4> QED
        BY <3>1, <4>1
    <3>2. CASE j = 9
      <4>1. k + 1 \in 0..5 /\ 0 \in 0..9 /\ z = 10 * (k + 1) + 0
        BY <1>1, <1>6, <2>1, <3>2
      <4> QED
        BY <3>2, <4>1
    <3> QED
      BY <3>1, <3>2
  <2>4. /\ n = 0 => LineBit(frame, z * divisor + r) = 0
        /\ n = 9 => LineBit(frame, z * divisor + r) = 1
        /\ n \in 1..8 => LineBit(frame, z * divisor + r) = frame[i + 1][n]
    BY <1>2, <2>3, BitOnLine DEF BitIs
  <2>5. /\ j <= 7 => i = k /\ n = j + 1 /\ n \in 1..8
        /\ j = 8 => n = 9
        /\ j = 9 => n = 0
    BY <2>3
  <2> HIDE DEF here
  <2> SUFFICES /\ j <= 7 => LineBit(frame, here) = frame[k + 1][j + 1]
               /\ j = 8 => LineBit(frame, here) = 1
               /\ j = 9 => LineBit(frame, here) = 0
    BY DEF here
  <2> QED
    BY <2>2, <2>4, <2>5
<1> QED
  BY <1>1, <1>5, <1>6

\* and between two bytes the stop bit, then the start bit.
LEMMA Listening ==
  ASSUME NEW frame, NEW k \in 0..5, NEW e \in Nat, e + 2 + half <= divisor
  PROVE  LineBit(frame, After(At(k, 9, e), 2)) = IF e + 2 + half < divisor THEN 1 ELSE 0
<1> DEFINE here == After(At(k, 9, e), 2)
<1>1. PICK b \in 0..59, j \in 0..9 : b = 10 * k + j /\ j = 9
  <2>1. 10 * k + 9 \in 0..59 /\ 9 \in 0..9
    OBVIOUS
  <2> QED
    BY <2>1
<1>2. b * divisor \in Nat /\ (b + 1) * divisor = b * divisor + divisor
  BY Middle
<1>3. PICK r \in Nat : r = e + 2 + half /\ r <= divisor
  BY Middle
<1>4. At(k, 9, e) + 2 + half = b * divisor + r
  BY <1>1, <1>2, <1>3, Middle DEF At
<1>5. PICK f \in Nat : f = FrameCycles /\ f = 60 * divisor
  BY Middle DEF FrameCycles
<1>6. b < 59 => b * divisor + divisor <= 59 * divisor
  <2>1. PICK z \in Int : z = 59 - b
    OBVIOUS
  <2>2. z * divisor + b * divisor = 59 * divisor /\ (z >= 1 => z * divisor >= divisor)
    BY <2>1, Middle
  <2> QED
    BY <1>2, <2>1, <2>2, Middle
<1>7. b = 59 => b * divisor + divisor = f
  BY <1>5, Middle
<1>8. PICK s \in Nat : s = b * divisor + r /\ here = IF s < f THEN s ELSE s - f
  <2>1. PICK t \in Nat, s \in Nat, m \in Nat :
          t = At(k, 9, e) /\ s = b * divisor + r /\ t + m + half = s /\ m = 2
    <3>1. At(k, 9, e) \in Nat
      BY Middle DEF At
    <3> QED
      BY <1>2, <1>3, <1>4, <3>1
  <2>2. After(t, m) = IF s < f THEN s ELSE s - f
    BY <1>5, <2>1, Wrapped
  <2>3. here = After(t, m)
    BY <2>1
  <2> HIDE DEF here
  <2> QED
    BY <2>1, <2>2, <2>3
<1> HIDE DEF here
<1> SUFFICES LineBit(frame, here) = IF r < divisor THEN 1 ELSE 0
  BY <1>3 DEF here
<1>9. CASE r < divisor
  <2>1. here = b * divisor + r
    BY <1>2, <1>3, <1>5, <1>6, <1>7, <1>8, <1>9, Middle
  <2> QED
    BY <1>1, <1>9, <2>1, BitOnLine DEF BitIs
<1>10. CASE r = divisor
  <2>1. PICK z \in 0..59, i \in 0..5, n \in 0..9, q \in Nat :
          /\ z = 10 * i + n /\ n = 0 /\ q = 0
          /\ z = IF b < 59 THEN b + 1 ELSE 0
    <3>1. CASE b < 59
      <4>1. b + 1 \in 0..59 /\ k + 1 \in 0..5 /\ b + 1 = 10 * (k + 1) + 0 /\ 0 \in 0..9
        BY <1>1, <3>1
      <4> QED
        BY <3>1, <4>1
    <3>2. CASE b = 59
      <4>1. 0 \in 0..59 /\ 0 \in 0..5 /\ 0 \in 0..9 /\ 0 = 10 * 0 + 0
        OBVIOUS
      <4> QED
        BY <3>2, <4>1
    <3> QED
      BY <3>1, <3>2
  <2>2. here = z * divisor + q
    <3>1. CASE b < 59
      <4>1. z * divisor = b * divisor + divisor
        BY <1>2, <2>1, <3>1
      <4> QED
        BY <1>2, <1>5, <1>6, <1>8, <1>10, <2>1, <3>1, <4>1, Middle
    <3>2. CASE b = 59
      <4>1. z * divisor = 0
        BY <2>1, <3>2, Middle
      <4> QED
        BY <1>2, <1>5, <1>7, <1>8, <1>10, <2>1, <3>2, <4>1, Middle
    <3> QED
      BY <3>1, <3>2
  <2>3. LineBit(frame, z * divisor + q) = 0
    <3>1. /\ z \in 0..59 /\ i \in 0..5 /\ n \in 0..9 /\ q \in Nat /\ q < divisor
          /\ z = 10 * i + n
      BY <2>1, Middle
    <3>2. BitIs(LineBit(frame, z * divisor + q), frame, i, n)
      BY <3>1, BitOnLine
    <3> QED
      BY <2>1, <3>2 DEF BitIs
  <2> QED
    BY <1>10, <2>2, <2>3, Middle
<1> QED
  BY <1>3, <1>9, <1>10, Middle

\* A receiver in step with a beacon.
InStep(u, frame, p) ==
  LET k == p[1]
      j == p[2]
      e == p[3]
  IN  /\ u.meta = LineBit(frame, After(Cyc(p), 3)) /\ u.rx = LineBit(frame, After(Cyc(p), 2))
      /\ j <= 7 => u.state = "DATA" /\ u.bits = [i \in 1..j |-> frame[k + 1][i]]
      /\ j = 8 => u.state = "STOP" /\ u.bits = frame[k + 1]
      /\ j = 9 => u.state = (IF e + half + 1 < divisor THEN "IDLE" ELSE "START")
      /\ u.state # "IDLE" => u.baud = divisor - 1 - e

\* The same at a place by its parts.
LEMMA InStepAt ==
  ASSUME NEW u, NEW frame, NEW k, NEW j, NEW e,
         u.meta = LineBit(frame, After(Cyc(<<k, j, e>>), 3)),
         u.rx = LineBit(frame, After(Cyc(<<k, j, e>>), 2)),
         j <= 7 => u.state = "DATA" /\ u.bits = [i \in 1..j |-> frame[k + 1][i]],
         j = 8 => u.state = "STOP" /\ u.bits = frame[k + 1],
         j = 9 => u.state = (IF e + half + 1 < divisor THEN "IDLE" ELSE "START"),
         u.state # "IDLE" => u.baud = divisor - 1 - e
  PROVE  InStep(u, frame, <<k, j, e>>)
<1>1. <<k, j, e>>[1] = k /\ <<k, j, e>>[2] = j /\ <<k, j, e>>[3] = e
  OBVIOUS
<1> QED
  BY <1>1, Zenon DEF InStep

\* It stays so, and has each byte in the cycle behind the middle of its stop bit.
LEMMA StaysInStep ==
  ASSUME NEW u, UartOK(u), NEW frame \in [1..6 -> Character], NEW p \in Places,
         InStep(u, frame, p), NEW w, w = UartStep(u, LineBit(frame, After(Cyc(p), 4))),
         LineBit(frame, After(Cyc(p), 4)) \in {0, 1}
  PROVE  /\ InStep(w, frame, NextPlace(p))
         /\ w.data = IF p[2] = 8 /\ p[3] = divisor - 1 THEN frame[p[1] + 1] ELSE NoByte
<1>1. PICK k \in 0..5, j \in 0..9, e \in Nat : p = <<k, j, e>> /\ e < divisor
  BY DEF Places
<1>2. /\ u.meta = LineBit(frame, After(Cyc(p), 3)) /\ u.rx = LineBit(frame, After(Cyc(p), 2))
      /\ j <= 7 => u.state = "DATA" /\ u.bits = [i \in 1..j |-> frame[k + 1][i]]
      /\ j = 8 => u.state = "STOP" /\ u.bits = frame[k + 1]
      /\ j = 9 => u.state = (IF e + half + 1 < divisor THEN "IDLE" ELSE "START")
      /\ u.state # "IDLE" => u.baud = divisor - 1 - e
  BY <1>1 DEF InStep
<1>3. /\ u \in Registers /\ u.baud < divisor /\ (Len(u.bits) = 8 \/ u.state # "STOP")
      /\ u.baud \in Nat /\ u.rx \in {0, 1}
      /\ u.state \in {"IDLE", "START"} => u.bits = <<>>
  BY DEF UartOK, Registers
<1> DEFINE level == LineBit(frame, After(Cyc(p), 4))
<1>4. /\ w.meta = level /\ w.rx = u.meta
      /\ u.state = "IDLE" => /\ w.bits = u.bits /\ w.data = NoByte
                             /\ u.rx = 1 => w.state = "IDLE" /\ w.baud = u.baud
                             /\ u.rx # 1 => w.state = "START" /\ w.baud = half
      /\ u.state # "IDLE" /\ u.baud > 0 =>
           w.state = u.state /\ w.baud = u.baud - 1 /\ w.bits = u.bits /\ w.data = NoByte
      /\ u.state = "START" /\ u.baud = 0 =>
           /\ w.bits = u.bits /\ w.data = NoByte
           /\ u.rx = 1 => w.state = "IDLE" /\ w.baud = 0
           /\ u.rx # 1 => w.state = "DATA" /\ w.baud = divisor - 1
      /\ u.state = "DATA" /\ u.baud = 0 =>
           /\ w.bits = Append(u.bits, u.rx) /\ w.data = NoByte /\ w.baud = divisor - 1
           /\ w.state = IF Len(u.bits) = 7 THEN "STOP" ELSE "DATA"
      /\ u.state = "STOP" /\ u.baud = 0 =>
           w.bits = <<>> /\ w.data = ByteOver(u) /\ w.state = "IDLE" /\ w.baud = 0
  <2>1. u \in Registers /\ level \in {0, 1} /\ u.baud < divisor /\ w = UartStep(u, level)
    BY <1>3
  <2>2. Len(u.bits) = 8 \/ u.state # "STOP"
    BY <1>3
  <2> HIDE DEF level
  <2>3. UartMoves(u, level, w)
    BY <2>1, <2>2, UartFields
  <2> QED
    BY <2>3 DEF UartMoves
<1>5. /\ w.meta = LineBit(frame, After(Cyc(NextPlace(p)), 3))
      /\ w.rx = LineBit(frame, After(Cyc(NextPlace(p)), 2))
  BY <1>2, <1>4, Lags
<1>6. Cyc(p) = At(k, j, e)
  BY <1>1 DEF Cyc
<1>7. frame[k + 1] \in Character
  OBVIOUS
<1>8. CASE e < divisor - 1 /\ u.state # "IDLE"
  <2>1. NextPlace(p) = <<k, j, e + 1>>
    BY <1>1, <1>8 DEF NextPlace
  <2>2. u.baud > 0 /\ divisor - 1 - (e + 1) = u.baud - 1
    BY <1>2, <1>8, Middle
  <2>3. w.state = u.state /\ w.baud = u.baud - 1 /\ w.bits = u.bits /\ w.data = NoByte
    BY <1>4, <1>8, <2>2
  <2>4. j = 9 => u.state = "START" /\ ~(e + 1 + half + 1 < divisor)
    BY <1>2, <1>8, Middle
  <2>5. ~(j = 8 /\ e = divisor - 1)
    BY <1>8, Middle
  <2>6. InStep(w, frame, NextPlace(p))
    <3>1. InStep(w, frame, <<k, j, e + 1>>)
      BY <1>2, <1>5, <1>8, <2>1, <2>2, <2>3, <2>4, InStepAt, Zenon
    <3> QED
      BY <2>1, <3>1
  <2> QED
    BY <1>1, <2>3, <2>5, <2>6
<1>9. CASE u.state = "IDLE"
  <2>1. j = 9 /\ e + half + 1 < divisor
    BY <1>2, <1>9
  <2>2. NextPlace(p) = <<k, 9, e + 1>>
    BY <1>1, <2>1, Middle DEF NextPlace
  <2>3. u.rx = IF e + 2 + half < divisor THEN 1 ELSE 0
    <3>1. e + 2 + half <= divisor
      BY <2>1, Middle
    <3> QED
      BY <1>2, <1>6, <2>1, <3>1, Listening
  <2>4. /\ u.rx = 1 => w.state = "IDLE"
        /\ u.rx # 1 => w.state = "START" /\ w.baud = half
        /\ w.data = NoByte
    BY <1>4, <1>9
  <2>5. /\ w.state = (IF e + 1 + half + 1 < divisor THEN "IDLE" ELSE "START")
        /\ w.state # "IDLE" => w.baud = divisor - 1 - (e + 1)
    BY <2>1, <2>3, <2>4, Middle
  <2>6. ~(9 <= 7) /\ ~(9 = 8)
    OBVIOUS
  <2>7. InStep(w, frame, NextPlace(p))
    <3>1. InStep(w, frame, <<k, 9, e + 1>>)
      BY <1>5, <2>2, <2>5, <2>6, InStepAt, Zenon
    <3> QED
      BY <2>2, <3>1
  <2> QED
    BY <1>1, <2>1, <2>4, <2>7
<1>10. CASE e = divisor - 1 /\ j <= 7
  <2>1. u.state = "DATA" /\ u.baud = 0 /\ u.bits = [i \in 1..j |-> frame[k + 1][i]]
    BY <1>2, <1>10, Middle
  <2>2. u.rx = frame[k + 1][j + 1]
    BY <1>2, <1>6, <1>10, Sampled
  <2>3. NextPlace(p) = <<k, j + 1, 0>>
    BY <1>1, <1>10, Middle DEF NextPlace
  <2>4. u.baud # 0 => FALSE
    BY <2>1
  <2>5. /\ w.bits = Append(u.bits, u.rx) /\ w.data = NoByte /\ w.baud = divisor - 1
        /\ w.state = IF Len(u.bits) = 7 THEN "STOP" ELSE "DATA"
    BY <1>4, <2>1
  <2>6. u.bits \in Seq({0, 1}) /\ Len(u.bits) = j /\ \A i \in 1..j : u.bits[i] = frame[k + 1][i]
    <3>1. PICK x \in Seq({0, 1}) : x = u.bits
      BY <1>3 DEF Registers
    <3>2. DOMAIN x = 1..j /\ DOMAIN x = 1..Len(x) /\ Len(x) \in Nat
      BY <2>1, <3>1
    <3>3. PICK n \in Nat : n = Len(x)
      BY <3>2
    <3>4. 1..n = 1..j
      BY <3>2, <3>3
    <3>5. n = j
      <4>1. (n > 0 => n \in 1..n) /\ (j > 0 => j \in 1..j)
        OBVIOUS
      <4> QED
        BY <3>4, <4>1
    <3> QED
      BY <2>1, <3>1, <3>3, <3>5
  <2>7. w.bits = [i \in 1..(j + 1) |-> frame[k + 1][i]]
    <3>1. PICK x \in Seq({0, 1}), b \in {0, 1} : x = u.bits /\ b = u.rx
      BY <1>3, <2>6
    <3>2. /\ Append(x, b) \in Seq({0, 1}) /\ Len(Append(x, b)) = j + 1
          /\ \A i \in 1..(j + 1) : Append(x, b)[i] = IF i = j + 1 THEN b ELSE x[i]
      BY <2>6, <3>1
    <3>3. \A i \in 1..(j + 1) : Append(x, b)[i] = frame[k + 1][i]
      <4> SUFFICES ASSUME NEW i \in 1..(j + 1) PROVE Append(x, b)[i] = frame[k + 1][i]
        OBVIOUS
      <4>1. i = j + 1 \/ i \in 1..j
        OBVIOUS
      <4> QED
        BY <2>2, <2>6, <3>1, <3>2, <4>1
    <3>4. Append(x, b) = [i \in 1..(j + 1) |-> Append(x, b)[i]]
      <4>1. PICK y \in Seq({0, 1}) : y = Append(x, b) /\ Len(y) = j + 1
        BY <3>2
      <4>2. \A v \in Seq({0, 1}) : v \in [1..Len(v) -> {0, 1}]
        OBVIOUS
      <4>3. y \in [1..(j + 1) -> {0, 1}]
        BY <4>1, <4>2
      <4>4. y = [i \in 1..(j + 1) |-> y[i]]
        BY <4>3
      <4> QED
        BY <4>1, <4>4
    <3> QED
      BY <2>5, <3>1, <3>3, <3>4
  <2>8. w.state = IF j + 1 = 8 THEN "STOP" ELSE "DATA"
    BY <2>5, <2>6
  <2>9. j + 1 = 8 => w.bits = frame[k + 1]
    <3> SUFFICES ASSUME j + 1 = 8 PROVE w.bits = frame[k + 1]
      OBVIOUS
    <3>1. frame[k + 1] = [i \in 1..8 |-> frame[k + 1][i]]
      BY <1>7 DEF Character
    <3> QED
      BY <2>7, <3>1
  <2>10. ~(j = 8) /\ ~(j + 1 = 9) /\ (j + 1 <= 7 => j + 1 # 8) /\ divisor - 1 = divisor - 1 - 0
    BY <1>10, Middle
  <2>11. InStep(w, frame, NextPlace(p))
    <3>1. InStep(w, frame, <<k, j + 1, 0>>)
      BY <1>5, <2>3, <2>5, <2>7, <2>8, <2>9, <2>10, InStepAt, Zenon
    <3> QED
      BY <2>3, <3>1
  <2> QED
    BY <1>1, <2>5, <2>10, <2>11
<1>11. CASE e = divisor - 1 /\ j = 8
  <2>1. u.state = "STOP" /\ u.baud = 0 /\ u.bits = frame[k + 1]
    BY <1>2, <1>11, Middle
  <2>2. u.rx = 1
    BY <1>2, <1>6, <1>11, Sampled
  <2>3. NextPlace(p) = <<k, 9, 0>>
    BY <1>1, <1>11, Middle DEF NextPlace
  <2>4. w.bits = <<>> /\ w.data = ByteOver(u) /\ w.state = "IDLE" /\ w.baud = 0
    BY <1>4, <2>1
  <2>5. w.data = frame[k + 1]
    BY <2>1, <2>2, <2>4 DEF ByteOver
  <2>6. ~(9 <= 7) /\ ~(9 = 8) /\ 0 + half + 1 < divisor
    BY Middle
  <2>7. InStep(w, frame, NextPlace(p))
    <3>1. InStep(w, frame, <<k, 9, 0>>)
      BY <1>5, <2>3, <2>4, <2>6, InStepAt, Zenon
    <3> QED
      BY <2>3, <3>1
  <2> QED
    BY <1>1, <1>11, <2>5, <2>7
<1>12. CASE e = divisor - 1 /\ j = 9
  <2>1. u.state = "START" /\ u.baud = 0
    BY <1>2, <1>12, Middle
  <2>2. u.rx = 0
    BY <1>2, <1>6, <1>12, Sampled
  <2>3. PICK k2 \in 0..5 : NextPlace(p) = <<k2, 0, 0>>
    <3>1. ~(e < divisor - 1) /\ ~(j < 9) /\ (k < 5 => k + 1 \in 0..5) /\ 0 \in 0..5
      BY <1>12, Middle
    <3>2. NextPlace(p) = IF k < 5 THEN <<k + 1, 0, 0>> ELSE <<0, 0, 0>>
      BY <1>1, <3>1 DEF NextPlace
    <3> QED
      BY <3>1, <3>2
  <2>4. w.state = "DATA" /\ w.baud = divisor - 1 /\ w.bits = <<>> /\ w.data = NoByte
    BY <1>3, <1>4, <2>1, <2>2
  <2>5. w.bits = [i \in 1..0 |-> frame[k2 + 1][i]]
    BY <2>4
  <2>6. ~(0 = 8) /\ ~(0 = 9) /\ ~(j = 8) /\ divisor - 1 = divisor - 1 - 0
    BY <1>12, Middle
  <2>7. InStep(w, frame, NextPlace(p))
    <3>1. InStep(w, frame, <<k2, 0, 0>>)
      BY <1>5, <2>3, <2>4, <2>5, <2>6, InStepAt, Zenon
    <3> QED
      BY <2>3, <3>1
  <2> QED
    BY <1>1, <2>4, <2>6, <2>7
<1>13. e < divisor - 1 \/ e = divisor - 1
  BY <1>1, Middle
<1> QED
  BY <1>8, <1>9, <1>10, <1>11, <1>12, <1>13

\* The bytes of a frame, and what a window, a matcher and a listener hold.
Peers == [1..4 -> Character]
Cables == [peer : Peers, inverted : BOOLEAN]

WindowOK(win) == win \in Seq(Character) /\ Len(win) = 6
MatcherOK(f) ==
  WindowOK(f.win) /\ f.prev_valid \in BOOLEAN /\ f.hit \in Peers \cup {NoPeer}
Listeners ==
  [cand : Cables, cand_timer : Nat, timer : Nat, seen : BOOLEAN, heard : Cables]

\* A function on 1..n is a sequence of that length.
LEMMA Tuples ==
  ASSUME NEW S, NEW n \in Nat, NEW f \in [1..n -> S]
  PROVE  f \in Seq(S) /\ Len(f) = n
<1>1. f \in Seq(S)
  BY SeqDef
<1>2. PICK m \in Nat : m = Len(f) /\ 1..m = 1..n
  BY <1>1, LenProperties
<1>3. m = n
  <2>1. (n > 0 => n \in 1..n) /\ (m > 0 => m \in 1..m)
    OBVIOUS
  <2> QED
    BY <1>2, <2>1
<1> QED
  BY <1>1, <1>2, <1>3

\* A frame is six bytes.
LEMMA FrameIsBytes ==
  ASSUME NEW peer \in Peers
  PROVE  /\ peer \in Seq(Character) /\ Len(peer) = 4
         /\ frame_bytes(peer) \in Seq(Character) /\ Len(frame_bytes(peer)) = 6
         /\ frame_bytes(peer) \in [1..6 -> Character]
         /\ SubSeq(frame_bytes(peer), 2, 5) = peer
<1>1. PICK x : x = Xor(peer)
  OBVIOUS
<1>2. x \in Character
  <2>1. \A i \in 1..8 : (peer[1][i] + peer[2][i] + peer[3][i] + peer[4][i]) % 2 \in {0, 1}
    <3> SUFFICES ASSUME NEW i \in 1..8
                 PROVE  (peer[1][i] + peer[2][i] + peer[3][i] + peer[4][i]) % 2 \in {0, 1}
      OBVIOUS
    <3>1. \A n \in 1..4 : peer[n][i] \in {0, 1}
      BY DEF Peers, Character
    <3>2. PICK z \in Nat : z = peer[1][i] + peer[2][i] + peer[3][i] + peer[4][i]
      BY <3>1
    <3>3. z % 2 \in {0, 1}
      OBVIOUS
    <3> QED
      BY <3>2, <3>3
  <2> QED
    BY <1>1, <2>1 DEF Xor, Character
<1>3. peer \in Seq(Character) /\ Len(peer) = 4
  BY Tuples DEF Peers
<1>4. PICK s \in Character : s = SYNC
  BY SyncAssumption
<1>5. PICK f : f = <<s>> \o peer \o <<x>>
  OBVIOUS
<1>6. f \in Seq(Character) /\ Len(f) = 6
  <2>1. <<s>> \in Seq(Character) /\ <<x>> \in Seq(Character) /\ Len(<<s>>) = 1 /\ Len(<<x>>) = 1
    BY <1>2
  <2>2. PICK a, b : a = <<s>> /\ b = <<x>>
    OBVIOUS
  <2>3. a \o peer \in Seq(Character) /\ Len(a \o peer) = Len(a) + Len(peer)
    BY <1>3, <2>1, <2>2, ConcatProperties
  <2>4. /\ (a \o peer) \o b \in Seq(Character)
        /\ Len((a \o peer) \o b) = Len(a \o peer) + Len(b)
    BY <2>1, <2>2, <2>3, ConcatProperties
  <2> QED
    BY <1>3, <1>5, <2>1, <2>2, <2>3, <2>4
<1>7. f[2] = peer[1] /\ f[3] = peer[2] /\ f[4] = peer[3] /\ f[5] = peer[4]
  <2>1. PICK a \in Seq(Character) : a = <<s>> \o peer /\ Len(a) = 5
    <3>1. <<s>> \in Seq(Character) /\ Len(<<s>>) = 1
      OBVIOUS
    <3>2. PICK b : b = <<s>>
      OBVIOUS
    <3>3. b \o peer \in Seq(Character) /\ Len(b \o peer) = Len(b) + Len(peer)
      BY <1>3, <3>1, <3>2, ConcatProperties
    <3>4. Len(b \o peer) = 5 /\ b \o peer = <<s>> \o peer
      BY <1>3, <3>1, <3>2, <3>3
    <3> QED
      BY <3>3, <3>4
  <2>2. a[2] = peer[1] /\ a[3] = peer[2] /\ a[4] = peer[3] /\ a[5] = peer[4]
    BY <1>3, <2>1
  <2> QED
    BY <1>2, <1>5, <2>1, <2>2
<1>8. frame_bytes(peer) = f
  BY <1>1, <1>4, <1>5 DEF frame_bytes
<1>9. SubSeq(f, 2, 5) = peer
  <2>1. SubSeq(f, 2, 5) = [i \in 1..4 |-> f[i + 1]]
    BY <1>6
  <2>2. \A i \in 1..4 : f[i + 1] = peer[i]
    BY <1>7
  <2>3. peer = [i \in 1..4 |-> peer[i]]
    BY DEF Peers
  <2> QED
    BY <2>1, <2>2, <2>3
<1>10. f \in [1..6 -> Character]
  BY <1>6, LenProperties
<1> QED
  BY <1>3, <1>6, <1>8, <1>9, <1>10

\* The last n bytes of a window are the first of a frame.
EndsWith(win, frame, n) == \A i \in 1..n : win[6 - n + i] = frame[i]

\* A window that takes the next byte of a frame has one more of the frame at its end.
LEMMA WindowTakes ==
  ASSUME NEW win, WindowOK(win), NEW data \in Character
  PROVE  /\ WindowOK(Append(Tail(win), data))
         /\ \A frame : \A n \in 0..5, m \in 1..6 :
              EndsWith(win, frame, n) /\ data = frame[n + 1] /\ m = n + 1 =>
                EndsWith(Append(Tail(win), data), frame, m)
<1>1. PICK w : w = Append(Tail(win), data)
  OBVIOUS
<1>2. /\ w \in Seq(Character) /\ Len(w) = 6
      /\ \A i \in 1..6 : w[i] = IF i = 6 THEN data ELSE win[i + 1]
  <2>1. win \in Seq(Character) /\ Len(win) = 6 /\ win # <<>>
    <3>1. win \in Seq(Character) /\ Len(win) = 6
      BY DEF WindowOK
    <3>2. Len(<<>>) = 0
      OBVIOUS
    <3>3. win = <<>> => Len(win) = 0
      BY <3>2
    <3> QED
      BY <3>1, <3>3
  <2>2. PICK v \in Seq(Character) : /\ v = Tail(win) /\ Len(v) = 5
                                    /\ \A i \in 1..5 : v[i] = win[i + 1]
    <3>1. PICK v : v = Tail(win)
      OBVIOUS
    <3>2. v \in Seq(Character) /\ Len(v) = Len(win) - 1 /\ \A i \in 1..Len(v) : v[i] = win[i + 1]
      BY <2>1, <3>1, HeadTailProperties
    <3>3. Len(v) = 5
      BY <2>1, <3>2
    <3> QED
      BY <3>1, <3>2, <3>3
  <2>3. /\ Append(v, data) \in Seq(Character) /\ Len(Append(v, data)) = 6
        /\ \A i \in 1..6 : Append(v, data)[i] = IF i = 6 THEN data ELSE v[i]
    <3>1. PICK n \in Nat : n = Len(v) /\ n = 5
      BY <2>2
    <3>2. PICK y : y = Append(v, data)
      OBVIOUS
    <3>3. /\ Append(v, data) \in Seq(Character) /\ Len(Append(v, data)) = Len(v) + 1
          /\ \A i \in 1..Len(v) : Append(v, data)[i] = v[i]
          /\ Append(v, data)[Len(v) + 1] = data
      <4>1. v \in Seq(Character)
        BY <2>2
      <4> QED
        BY <4>1, AppendProperties
    <3>4. /\ y \in Seq(Character) /\ Len(y) = n + 1
          /\ \A i \in 1..n : y[i] = v[i]
          /\ y[n + 1] = data
      BY <3>1, <3>2, <3>3
    <3>5. n + 1 = 6
      BY <3>1
    <3> QED
      BY <3>1, <3>2, <3>4, <3>5
  <2>4. w = Append(v, data)
    BY <1>1, <2>2
  <2>5. \A i \in 1..6 : i = 6 \/ i \in 1..5
    OBVIOUS
  <2> QED
    BY <2>2, <2>3, <2>4, <2>5
<1>3. ASSUME NEW frame, NEW n \in 0..5, EndsWith(win, frame, n), data = frame[n + 1],
             NEW i \in 1..(n + 1)
      PROVE  w[6 - (n + 1) + i] = frame[i]
  <2>1. CASE i = n + 1
    BY <1>2, <1>3, <2>1
  <2>2. CASE i # n + 1
    <3>1. i \in 1..n /\ 6 - (n + 1) + i \in 1..5 /\ 6 - (n + 1) + i + 1 = 6 - n + i
      BY <2>2
    <3>2. w[6 - (n + 1) + i] = win[6 - (n + 1) + i + 1]
      BY <1>2, <3>1
    <3>3. win[6 - n + i] = frame[i]
      BY <1>3, <3>1 DEF EndsWith
    <3> QED
      BY <3>1, <3>2, <3>3
  <2> QED
    BY <2>1, <2>2
<1> QED
  BY <1>1, <1>2, <1>3 DEF WindowOK, EndsWith

\* What a matcher makes of a window and a byte.
LEMMA MatcherFields ==
  ASSUME NEW f, MatcherOK(f), NEW data \in Character \cup {NoByte}, NEW g, g = MatcherStep(f, data)
  PROVE  /\ MatcherOK(g)
         /\ data = NoByte => g.win = f.win
         /\ data # NoByte => g.win = Append(Tail(f.win), data) /\ g.prev_valid
         /\ \A peer \in Peers :
              f.prev_valid /\ EndsWith(f.win, frame_bytes(peer), 6) => g.hit = peer
<1>1. /\ g.win = IF data = NoByte THEN f.win ELSE Append(Tail(f.win), data)
      /\ g.prev_valid = (data # NoByte)
      /\ g.hit = IF f.prev_valid /\ IsFrame(f.win) THEN SubSeq(f.win, 2, 5) ELSE NoPeer
  BY DEF MatcherStep
<1>2. WindowOK(g.win)
  BY <1>1, WindowTakes DEF MatcherOK
<1>3. g.hit \in Peers \cup {NoPeer}
  <2>1. f.win \in Seq(Character) /\ Len(f.win) = 6
    BY DEF MatcherOK, WindowOK
  <2>2. SubSeq(f.win, 2, 5) = [i \in 1..4 |-> f.win[i + 1]]
    BY <2>1
  <2>3. \A i \in 1..4 : f.win[i + 1] \in Character
    BY <2>1
  <2> QED
    BY <1>1, <2>2, <2>3 DEF Peers
<1>4. ASSUME NEW peer \in Peers, f.prev_valid, EndsWith(f.win, frame_bytes(peer), 6)
      PROVE  g.hit = peer
  <2>1. PICK win, b : win = f.win /\ b = frame_bytes(peer)
    OBVIOUS
  <2>2. win \in Seq(Character) /\ Len(win) = 6 /\ b \in Seq(Character) /\ Len(b) = 6
    BY <2>1, FrameIsBytes DEF MatcherOK, WindowOK
  <2>3. \A i \in 1..6 : win[i] = b[i]
    <3> SUFFICES ASSUME NEW i \in 1..6 PROVE win[i] = b[i]
      OBVIOUS
    <3>1. win[6 - 6 + i] = b[i]
      BY <1>4, <2>1 DEF EndsWith
    <3> QED
      BY <3>1
  <2>4. win = b
    <3>1. win = [i \in 1..6 |-> win[i]] /\ b = [i \in 1..6 |-> b[i]]
      BY <2>2
    <3> QED
      BY <2>3, <3>1
  <2>5. SubSeq(win, 2, 5) = peer
    BY <2>1, <2>4, FrameIsBytes
  <2> QED
    BY <1>1, <1>4, <2>1, <2>4, <2>5 DEF IsFrame
<1> QED
  BY <1>1, <1>2, <1>3, <1>4 DEF MatcherOK

\* The listener of a lane has a candidate, or reports it, since s cycles.
Awaiting(r, c, s) == r.cand = c /\ r.cand_timer + s >= timeout_cycles
Reporting(r, c, s) == r.seen /\ r.heard = c /\ r.timer + s >= timeout_cycles

\* A match makes a candidate of a peer, and if it agrees with the last one reports it.
LEMMA HitFields ==
  ASSUME NEW r \in Listeners, NEW c \in Cables, NEW v, v = Hit(r, c)
  PROVE  /\ v \in Listeners /\ v.cand = c /\ v.cand_timer = timeout_cycles
         /\ Agrees(r, c) => v.seen /\ v.heard = c /\ v.timer = timeout_cycles
<1>1. PICK Ca, Ti, Bo : Ca = Cables /\ Ti = Nat /\ Bo = BOOLEAN
  OBVIOUS
<1> DEFINE L == [cand : Ca, cand_timer : Ti, timer : Ti, seen : Bo, heard : Ca]
<1>2. r \in L /\ c \in Ca /\ timeout_cycles \in Ti /\ TRUE \in Bo
  BY <1>1, TimeoutAssumption DEF Listeners
<1>3. PICK d : d = [r EXCEPT !.cand = c, !.cand_timer = timeout_cycles]
  OBVIOUS
<1>4. d \in L /\ d.cand = c /\ d.cand_timer = timeout_cycles
  BY <1>2, <1>3
<1>5. CASE Agrees(r, c)
  <2>1. v = [d EXCEPT !.timer = timeout_cycles, !.seen = TRUE, !.heard = c]
    BY <1>3, <1>5, Zenon DEF Hit
  <2>2. /\ v \in L /\ v.cand = d.cand /\ v.cand_timer = d.cand_timer
        /\ v.timer = timeout_cycles /\ v.seen = TRUE /\ v.heard = c
    BY <1>2, <1>4, <2>1
  <2> QED
    BY <1>1, <1>4, <2>2 DEF Listeners
<1>6. CASE ~Agrees(r, c)
  <2>1. v = d
    BY <1>3, <1>6, Zenon DEF Hit
  <2> QED
    BY <1>1, <1>4, <1>6, <2>1 DEF Listeners
<1> QED
  BY <1>5, <1>6

\* Without a match the two timers run down, and no more.
LEMMA NoHitFields ==
  ASSUME NEW r \in Listeners, NEW v, v = NoHit(r)
  PROVE  /\ v \in Listeners /\ v.cand = r.cand /\ v.heard = r.heard
         /\ v.cand_timer = IF r.cand_timer # 0 THEN r.cand_timer - 1 ELSE 0
         /\ v.timer = IF r.timer # 0 THEN r.timer - 1 ELSE 0
         /\ v.seen = (r.seen /\ r.timer # 0)
<1>1. PICK a, b, s : /\ a = IF r.cand_timer # 0 THEN r.cand_timer - 1 ELSE 0
                     /\ b = IF r.timer # 0 THEN r.timer - 1 ELSE 0
                     /\ s = (r.seen /\ r.timer # 0)
  OBVIOUS
<1>2. PICK Ca, Ti, Bo : Ca = Cables /\ Ti = Nat /\ Bo = BOOLEAN
  OBVIOUS
<1> DEFINE L == [cand : Ca, cand_timer : Ti, timer : Ti, seen : Bo, heard : Ca]
<1>3. r \in L /\ a \in Ti /\ b \in Ti /\ s \in Bo
  BY <1>1, <1>2 DEF Listeners
<1>4. v = [r EXCEPT !.cand_timer = a, !.timer = b, !.seen = s]
  BY <1>1, Zenon DEF NoHit
<1>5. v \in L /\ v.cand = r.cand /\ v.heard = r.heard /\ v.cand_timer = a /\ v.timer = b /\ v.seen = s
  BY <1>3, <1>4
<1> QED
  BY <1>1, <1>2, <1>5 DEF Listeners

\* A match begins the time anew, the second in that time is reported,
LEMMA Hears ==
  ASSUME NEW r \in Listeners, NEW c \in Cables, NEW v, v = Hit(r, c), NEW s \in Nat, s < timeout_cycles
  PROVE  /\ \A n \in Nat : Awaiting(v, c, n)
         /\ Awaiting(r, c, s) => \A n \in Nat : Reporting(v, c, n)
<1>1. r.cand_timer \in Nat /\ timeout_cycles \in Nat
  BY TimeoutAssumption DEF Listeners
<1>2. Awaiting(r, c, s) => Agrees(r, c)
  BY <1>1 DEF Awaiting, Agrees
<1> QED
  BY <1>1, <1>2, HitFields DEF Awaiting, Reporting

\* and without one it passes.
LEMMA HearsNothing ==
  ASSUME NEW r \in Listeners, NEW c, NEW v, v = NoHit(r), NEW s \in Nat, s < timeout_cycles
  PROVE  /\ Awaiting(r, c, s) => Awaiting(v, c, s + 1)
         /\ Reporting(r, c, s) => Reporting(v, c, s + 1)
<1>1. r.cand_timer \in Nat /\ r.timer \in Nat /\ timeout_cycles \in Nat
  BY TimeoutAssumption DEF Listeners
<1>2. Awaiting(r, c, s) => Awaiting(v, c, s + 1)
  BY <1>1, NoHitFields DEF Awaiting
<1>3. Reporting(r, c, s) => Reporting(v, c, s + 1)
  <2> SUFFICES ASSUME Reporting(r, c, s) PROVE Reporting(v, c, s + 1)
    OBVIOUS
  <2>1. r.seen /\ r.heard = c /\ r.timer + s >= timeout_cycles
    BY DEF Reporting
  <2>2. r.timer # 0
    BY <1>1, <2>1
  <2>3. v.heard = r.heard /\ v.timer = r.timer - 1
    BY <2>2, NoHitFields
  <2>4. v.seen
    BY <2>1, <2>2, NoHitFields, Zenon
  <2>5. v.timer + (s + 1) >= timeout_cycles
    BY <1>1, <2>1, <2>3
  <2> QED
    BY <2>1, <2>3, <2>4, <2>5 DEF Reporting
<1> QED
  BY <1>2, <1>3

\* The registers of a lane.
LaneOK(lane) ==
  /\ \A p \in Polarities : UartOK(lane.rx[p]) /\ MatcherOK(lane.fm[p])
  /\ lane.listener \in Listeners
\* The line as a polarity reads it, and that no polarity matches another frame than c sends.
Level(line, p) == IF p = "true" THEN line ELSE 1 - line
OnlyHit(lane, c) ==
  \A p \in Polarities : lane.fm[p].hit # NoPeer => p = Side(c) /\ lane.fm[p].hit = c.peer

\* A step of a lane is one of its receivers and one of its matchers.
LEMMA LaneFields ==
  ASSUME NEW lane, LaneOK(lane), NEW line \in {0, 1}, NEW w, w = LaneStep(lane, line)
  PROVE  /\ LaneOK(w)
         /\ \A p \in Polarities : /\ w.rx[p] = UartStep(lane.rx[p], Level(line, p))
                                  /\ w.fm[p] = MatcherStep(lane.fm[p], lane.rx[p].data)
                                  /\ Level(line, p) \in {0, 1}
<1>1. ASSUME NEW p \in Polarities
      PROVE  /\ w.rx[p] = UartStep(lane.rx[p], Level(line, p))
             /\ w.fm[p] = MatcherStep(lane.fm[p], lane.rx[p].data)
             /\ Level(line, p) \in {0, 1}
             /\ UartOK(w.rx[p]) /\ MatcherOK(w.fm[p])
  <2>1. Level(line, p) \in {0, 1}
    BY DEF Level
  <2>2. w.rx = [q \in Polarities |-> UartStep(lane.rx[q], IF q = "true" THEN line ELSE 1 - line)]
    BY DEF LaneStep
  <2>3. w.rx[p] = UartStep(lane.rx[p], Level(line, p))
    BY <2>2 DEF Level
  <2>4. w.fm = [q \in Polarities |-> MatcherStep(lane.fm[q], lane.rx[q].data)]
    BY DEF LaneStep
  <2>5. w.fm[p] = MatcherStep(lane.fm[p], lane.rx[p].data)
    BY <2>4
  <2>6. UartOK(lane.rx[p]) /\ MatcherOK(lane.fm[p])
    BY DEF LaneOK
  <2>7. UartOK(w.rx[p])
    BY <2>1, <2>3, <2>6, UartKeeps
  <2>8. lane.rx[p].data \in Character \cup {NoByte}
    BY <2>6 DEF UartOK, Registers
  <2>9. MatcherOK(w.fm[p])
    BY <2>5, <2>6, <2>8, MatcherFields
  <2> QED
    BY <2>1, <2>3, <2>5, <2>7, <2>9
<1>2. w.listener \in Listeners
  <2>1. PICK r \in Listeners : r = lane.listener
    BY DEF LaneOK
  <2>2. "true" \in Polarities /\ "inverted" \in Polarities
    BY DEF Polarities
  <2>3. PICK a, b : a = lane.fm["true"].hit /\ b = lane.fm["inverted"].hit
    OBVIOUS
  <2>4. a \in Peers \cup {NoPeer} /\ b \in Peers \cup {NoPeer}
    BY <2>2, <2>3 DEF LaneOK, MatcherOK
  <2>5. CASE a # NoPeer
    <3>1. w.listener = Hit(r, [peer |-> a, inverted |-> FALSE])
      BY <2>1, <2>3, <2>5 DEF LaneStep
    <3>2. [peer |-> a, inverted |-> FALSE] \in Cables
      BY <2>4, <2>5 DEF Cables
    <3> QED
      BY <3>1, <3>2, HitFields
  <2>6. CASE a = NoPeer /\ b # NoPeer
    <3>1. w.listener = Hit(r, [peer |-> b, inverted |-> TRUE])
      BY <2>1, <2>3, <2>6 DEF LaneStep
    <3>2. [peer |-> b, inverted |-> TRUE] \in Cables
      BY <2>4, <2>6 DEF Cables
    <3> QED
      BY <3>1, <3>2, HitFields
  <2>7. CASE a = NoPeer /\ b = NoPeer
    <3>1. w.listener = NoHit(r)
      BY <2>1, <2>3, <2>7 DEF LaneStep
    <3> QED
      BY <3>1, NoHitFields
  <2> QED
    BY <2>5, <2>6, <2>7
<1> QED
  BY <1>1, <1>2 DEF LaneOK

\* A lane that matches nothing but its beacon hears that, or nothing.
LEMMA LaneHears ==
  ASSUME NEW lane, LaneOK(lane), NEW line, NEW c \in Cables, OnlyHit(lane, c)
  PROVE  LaneStep(lane, line).listener =
           IF lane.fm[Side(c)].hit = NoPeer THEN NoHit(lane.listener) ELSE Hit(lane.listener, c)
<1>1. PICK w : w = LaneStep(lane, line)
  OBVIOUS
<1>2. PICK a, b : a = lane.fm["true"].hit /\ b = lane.fm["inverted"].hit
  OBVIOUS
<1>3. c = [peer |-> c.peer, inverted |-> c.inverted] /\ c.inverted \in BOOLEAN /\ c.peer \in Peers
  BY DEF Cables
<1>4. NoPeer \notin Peers
  BY NoPeerAssumption DEF Peers
<1>5. /\ a # NoPeer => Side(c) = "true" /\ a = c.peer
      /\ b # NoPeer => Side(c) = "inverted" /\ b = c.peer
  BY <1>2 DEF OnlyHit, Polarities
<1>6. CASE c.inverted = FALSE
  <2>1. Side(c) = "true" /\ b = NoPeer
    BY <1>5, <1>6 DEF Side
  <2>2. CASE a = NoPeer
    <3>1. w.listener = NoHit(lane.listener)
      BY <1>1, <1>2, <2>1, <2>2 DEF LaneStep
    <3> QED
      BY <1>1, <1>2, <2>1, <2>2, <3>1
  <2>3. CASE a # NoPeer
    <3>1. w.listener = Hit(lane.listener, [peer |-> a, inverted |-> FALSE])
      BY <1>1, <1>2, <2>3 DEF LaneStep
    <3>2. c = [peer |-> a, inverted |-> FALSE]
      BY <1>3, <1>5, <1>6, <2>3
    <3> QED
      BY <1>1, <1>2, <2>1, <2>3, <3>1, <3>2
  <2> QED
    BY <2>2, <2>3
<1>7. CASE c.inverted = TRUE
  <2>1. Side(c) = "inverted" /\ a = NoPeer
    BY <1>5, <1>7 DEF Side
  <2>2. CASE b = NoPeer
    <3>1. w.listener = NoHit(lane.listener)
      BY <1>1, <1>2, <2>1, <2>2 DEF LaneStep
    <3> QED
      BY <1>1, <1>2, <2>1, <2>2, <3>1
  <2>3. CASE b # NoPeer
    <3>1. w.listener = Hit(lane.listener, [peer |-> b, inverted |-> TRUE])
      BY <1>1, <1>2, <2>1, <2>3 DEF LaneStep
    <3>2. c = [peer |-> b, inverted |-> TRUE]
      BY <1>3, <1>5, <1>7, <2>3
    <3> QED
      BY <1>1, <1>2, <2>1, <2>3, <3>1, <3>2
  <2> QED
    BY <2>2, <2>3
<1> QED
  BY <1>3, <1>6, <1>7

\* How long a beacon is there when a receiver in step is in cycle t of its frame.
Round(n, t) ==
  \/ n = Steady
  \/ n + FrameCycles = t + 4 + half
  \/ n = t + 4 + half
  \/ n = t + 4 + half + FrameCycles
  \/ n = t + 4 + half + 2 * FrameCycles

\* The count of cycles goes on with the place of the receiver.
LEMMA RoundGoesOn ==
  ASSUME NEW t \in Nat, t < FrameCycles, NEW n \in 0..Steady, Round(n, t), NEW t2,
         t2 = IF t + 1 < FrameCycles THEN t + 1 ELSE 0
  PROVE  Round(UpTo(n, Steady), t2) /\ UpTo(n, Steady) \in 0..Steady
<1>1. PICK f \in Nat : f = FrameCycles /\ f >= 240 /\ f = 60 * divisor
  BY Middle DEF FrameCycles
<1>2. PICK s \in Nat : s = Steady /\ s = 2 * f + 8
  BY <1>1 DEF Steady, Latency
<1>3. PICK h \in Nat : h = 4 + half /\ h < f
  BY <1>1, Middle
<1>4. n = s \/ n + f = t + h \/ n = t + h \/ n = t + h + f \/ n = t + h + 2 * f
  BY <1>1, <1>2, <1>3, Middle DEF Round
<1>5. PICK m \in Nat : m = UpTo(n, Steady) /\ m = IF n < s THEN n + 1 ELSE n
  BY <1>2 DEF UpTo
<1>6. m = s \/ m + f = t2 + h \/ m = t2 + h \/ m = t2 + h + f \/ m = t2 + h + 2 * f
  <2>1. CASE t + 1 < f
    BY <1>1, <1>2, <1>3, <1>4, <1>5, <2>1
  <2>2. CASE t + 1 = f
    BY <1>1, <1>2, <1>3, <1>4, <1>5, <2>2
  <2> QED
    BY <1>1, <2>1, <2>2
<1>7. t2 \in Nat
  BY <1>1
<1>8. Round(m, t2)
  BY <1>1, <1>2, <1>3, <1>6, <1>7, Middle DEF Round
<1> QED
  BY <1>2, <1>5, <1>8

\* The beacon's place in its frame, and the receiver's.
Back(ph) == IF ph >= 4 + half THEN ph - 4 - half ELSE ph + FrameCycles - 4 - half

\* The beacon goes on with the receiver, four cycles and half a bit ahead of it.
LEMMA PhaseGoesOn ==
  ASSUME NEW t \in Nat, t < FrameCycles, NEW t2, t2 = IF t + 1 < FrameCycles THEN t + 1 ELSE 0
  PROVE  /\ (After(t, 4) + 1) % FrameCycles = After(t2, 4)
         /\ After(t, 4) \in 0..(FrameCycles - 1) /\ Back(After(t, 4)) = t
<1>1. PICK f \in Nat : f = FrameCycles /\ f >= 240 /\ f = 60 * divisor
  BY Middle DEF FrameCycles
<1>2. PICK h \in Nat : h = 4 + half /\ h < f
  BY <1>1, Middle
<1>3. t2 \in Nat /\ t2 < f
  BY <1>1
<1>4. \A x \in Nat : x < f => After(x, 4) = IF x + h < f THEN x + h ELSE x + h - f
  <2> SUFFICES ASSUME NEW x \in Nat PROVE After(x, 4) = IF x + h < f THEN x + h ELSE x + h - f
    OBVIOUS
  <2>1. PICK n \in Nat, s \in Nat : n = 4 /\ s = x + h /\ x + n + half = s
    BY <1>2, Middle
  <2>2. After(x, n) = IF s < f THEN s ELSE s - f
    BY <1>1, <2>1, Wrapped
  <2> QED
    BY <2>1, <2>2
<1>5. t < f /\ t2 = IF t + 1 < f THEN t + 1 ELSE 0
  BY <1>1
<1>6. PICK a \in Nat : a = IF t + h < f THEN t + h ELSE t + h - f
  BY <1>1, <1>2
<1>7. PICK b \in Nat : b = IF t2 + h < f THEN t2 + h ELSE t2 + h - f
  BY <1>2, <1>3
<1>8. a < f
  BY <1>2, <1>5, <1>6
<1>9. b = IF a + 1 < f THEN a + 1 ELSE 0
  <2>1. CASE t + 1 < f
    BY <1>2, <1>5, <1>6, <1>7, <2>1
  <2>2. CASE t + 1 = f
    BY <1>2, <1>5, <1>6, <1>7, <2>2
  <2> QED
    BY <1>5, <2>1, <2>2
<1>10. (a + 1) % f = b
  <2>1. \A x \in Nat : x < f => x % f = x
    BY <1>1
  <2>2. f % f = 0
    BY <1>1
  <2>3. a + 1 < f \/ a + 1 = f
    BY <1>8
  <2> QED
    BY <1>9, <2>1, <2>2, <2>3
<1>11. a = After(t, 4) /\ b = After(t2, 4)
  BY <1>1, <1>3, <1>4, <1>6, <1>7
<1>12. Back(a) = t
  <2>1. Back(a) = IF a >= h THEN a - h ELSE a + f - h
    BY <1>1, <1>2, Middle DEF Back
  <2> QED
    BY <1>2, <1>5, <1>6, <2>1
<1>13. a \in 0..(f - 1)
  BY <1>1, <1>8
<1> QED
  BY <1>1, <1>10, <1>11, <1>12, <1>13

\* The bytes of a frame that a window has taken.
Taken(p) == IF p[2] = 9 /\ p[3] >= 1 THEN p[1] + 1 ELSE p[1]

\* A lane at whose end a beacon is for n cycles now, and is in cycle ph of its frame.
InFrame(lane, c, ph, n, p) ==
  LET frame == frame_bytes(c.peer)
      u == lane.rx[Side(c)]
      f == lane.fm[Side(c)]
  IN  /\ ph = After(Cyc(p), 4) /\ InStep(u, frame, p) /\ Round(n, Cyc(p))
      /\ n >= 4 + half =>
           /\ u.data = IF p[2] = 9 /\ p[3] = 0 THEN frame[p[1] + 1] ELSE NoByte
           /\ EndsWith(f.win, frame, Taken(p))
           /\ p = <<5, 9, 1>> => f.prev_valid
           /\ p = <<5, 9, 2>> => f.hit = c.peer
\* A receiver at rest, and a lane where a beacon of c stays: at rest at first, then in its frames.
AtRest(u) == u.state = "IDLE" /\ u.meta = 1 /\ u.rx = 1
Stay(lane, c, ph, n) ==
  /\ n = 0 => ph = 0 /\ AtRest(lane.rx[Side(c)])
  /\ n > 0 => \E p \in Places : InFrame(lane, c, ph, n, p)

\* What the window and the matcher of such a lane go on with.
LEMMA MatcherInFrame ==
  ASSUME NEW f, MatcherOK(f), NEW data \in Character \cup {NoByte}, NEW g, g = MatcherStep(f, data),
         NEW peer \in Peers, NEW frame, frame = frame_bytes(peer), NEW p \in Places,
         data = IF p[2] = 9 /\ p[3] = 0 THEN frame[p[1] + 1] ELSE NoByte,
         EndsWith(f.win, frame, Taken(p)), p = <<5, 9, 1>> => f.prev_valid
  PROVE  /\ EndsWith(g.win, frame, Taken(NextPlace(p)))
         /\ NextPlace(p) = <<5, 9, 1>> => g.prev_valid
         /\ NextPlace(p) = <<5, 9, 2>> => g.hit = peer
<1>1. PICK k \in 0..5, j \in 0..9, e \in Nat : p = <<k, j, e>> /\ e < divisor
  BY DEF Places
<1>2. frame \in [1..6 -> Character]
  BY FrameIsBytes
<1>3. PICK q : q = NextPlace(p)
  OBVIOUS
<1>4. CASE j = 9 /\ e = 0
  <2>1. data = frame[k + 1] /\ data \in Character /\ data # NoByte
    BY <1>1, <1>2, <1>4, NoByteAssumption
  <2>2. g.win = Append(Tail(f.win), data) /\ g.prev_valid
    BY <2>1, MatcherFields
  <2>3. q = <<k, 9, 1>> /\ Taken(p) = k /\ Taken(q) = k + 1
    BY <1>1, <1>3, <1>4, Middle DEF NextPlace, Taken
  <2>4. EndsWith(g.win, frame, k + 1)
    <3>1. WindowOK(f.win) /\ EndsWith(f.win, frame, k)
      BY <2>3 DEF MatcherOK
    <3>2. PICK win : win = f.win
      OBVIOUS
    <3>3. PICK m \in 1..6 : m = k + 1
      OBVIOUS
    <3>4. EndsWith(Append(Tail(win), data), frame, m)
      BY <2>1, <3>1, <3>2, <3>3, WindowTakes
    <3> QED
      BY <2>2, <3>2, <3>3, <3>4
  <2>5. q # <<5, 9, 2>>
    BY <2>3
  <2> QED
    BY <1>3, <2>2, <2>3, <2>4, <2>5
<1>5. CASE ~(j = 9 /\ e = 0)
  <2>1. data = NoByte
    BY <1>1, <1>5
  <2>2. g.win = f.win
    BY <2>1, MatcherFields
  <2>3. Taken(q) = Taken(p) \/ Taken(q) = 0
    <3>1. CASE e < divisor - 1
      BY <1>1, <1>3, <1>5, <3>1, Middle DEF NextPlace, Taken
    <3>2. CASE e = divisor - 1 /\ j < 9
      BY <1>1, <1>3, <1>5, <3>2, Middle DEF NextPlace, Taken
    <3>3. CASE e = divisor - 1 /\ j = 9
      BY <1>1, <1>3, <1>5, <3>3, Middle DEF NextPlace, Taken
    <3> QED
      BY <1>1, <3>1, <3>2, <3>3, Middle
  <2>4. EndsWith(g.win, frame, Taken(q))
    BY <2>2, <2>3 DEF EndsWith
  <2>5. q = <<5, 9, 1>> => p = <<5, 9, 0>>
    BY <1>1, <1>3, Middle DEF NextPlace
  <2>6. q = <<5, 9, 2>> => p = <<5, 9, 1>>
    BY <1>1, <1>3, Middle DEF NextPlace
  <2>7. Taken(<<5, 9, 1>>) = 6
    BY DEF Taken
  <2>8. q = <<5, 9, 2>> => g.hit = peer
    <3> SUFFICES ASSUME q = <<5, 9, 2>> PROVE g.hit = peer
      OBVIOUS
    <3>1. f.prev_valid /\ EndsWith(f.win, frame_bytes(peer), 6)
      BY <2>6, <2>7
    <3> QED
      BY <3>1, MatcherFields
  <2> QED
    BY <1>1, <1>3, <1>5, <2>4, <2>5, <2>8
<1> QED
  BY <1>4, <1>5

\* A cycle of a lane in a frame is followed by the next,
LEMMA FrameGoesOn ==
  ASSUME NEW lane, LaneOK(lane), NEW c \in Cables, NEW ph, NEW n \in 0..Steady, NEW p \in Places,
         InFrame(lane, c, ph, n, p), NEW line \in {0, 1},
         Level(line, Side(c)) = LineBit(frame_bytes(c.peer), ph),
         NEW w, w = LaneStep(lane, line)
  PROVE  InFrame(w, c, (ph + 1) % FrameCycles, UpTo(n, Steady), NextPlace(p))
<1>1. PICK t \in Nat : t = Cyc(p) /\ t < FrameCycles
  BY Advance
<1>2. PICK t2 : t2 = Cyc(NextPlace(p)) /\ t2 = IF t + 1 < FrameCycles THEN t + 1 ELSE 0
  BY <1>1, Advance
<1>3. PICK side \in Polarities : side = Side(c)
  BY DEF Side, Polarities
<1>4. PICK peer \in Peers, frame \in [1..6 -> Character] : peer = c.peer /\ frame = frame_bytes(peer)
  BY FrameIsBytes DEF Cables
<1>5. PICK u, f, u2, fm2 : u = lane.rx[side] /\ f = lane.fm[side] /\ u2 = w.rx[side] /\ fm2 = w.fm[side]
  OBVIOUS
<1>6. UartOK(u) /\ MatcherOK(f)
  BY <1>5 DEF LaneOK
<1>7. /\ ph = After(Cyc(p), 4) /\ InStep(u, frame, p) /\ Round(n, Cyc(p))
      /\ n >= 4 + half =>
           /\ u.data = IF p[2] = 9 /\ p[3] = 0 THEN frame[p[1] + 1] ELSE NoByte
           /\ EndsWith(f.win, frame, Taken(p))
           /\ p = <<5, 9, 1>> => f.prev_valid
           /\ p = <<5, 9, 2>> => f.hit = peer
  BY <1>3, <1>4, <1>5 DEF InFrame
<1>8. PICK level \in {0, 1} : level = Level(line, side) /\ level = LineBit(frame, After(Cyc(p), 4))
  BY <1>3, <1>4, <1>7, LaneFields
<1>9. u2 = UartStep(u, level) /\ fm2 = MatcherStep(f, u.data)
  <2>1. /\ w.rx[side] = UartStep(lane.rx[side], Level(line, side))
        /\ w.fm[side] = MatcherStep(lane.fm[side], lane.rx[side].data)
    BY LaneFields
  <2> QED
    BY <1>5, <1>8, <2>1
<1>10. NextPlace(p) \in Places
  BY Advance
<1>11. PICK ph2 : ph2 = (ph + 1) % FrameCycles /\ ph2 = After(Cyc(NextPlace(p)), 4)
  BY <1>1, <1>2, <1>7, PhaseGoesOn
<1>12. PICK n2 \in 0..Steady : n2 = UpTo(n, Steady) /\ Round(n2, Cyc(NextPlace(p)))
  BY <1>1, <1>2, <1>7, RoundGoesOn
<1>13. /\ InStep(u2, frame, NextPlace(p))
       /\ u2.data = IF p[2] = 8 /\ p[3] = divisor - 1 THEN frame[p[1] + 1] ELSE NoByte
  BY <1>6, <1>7, <1>8, <1>9, StaysInStep
<1>14. u2.data = IF NextPlace(p)[2] = 9 /\ NextPlace(p)[3] = 0 THEN frame[NextPlace(p)[1] + 1]
                 ELSE NoByte
  <2>1. PICK k \in 0..5, j \in 0..9, e \in Nat : p = <<k, j, e>> /\ e < divisor
    BY DEF Places
  <2>2. CASE j = 8 /\ e = divisor - 1
    <3>1. NextPlace(p) = <<k, 9, 0>>
      BY <2>1, <2>2, Middle DEF NextPlace
    <3> QED
      BY <1>13, <2>1, <2>2, <3>1
  <2>3. CASE ~(j = 8 /\ e = divisor - 1)
    <3>1. ~(NextPlace(p)[2] = 9 /\ NextPlace(p)[3] = 0)
      BY <2>1, <2>3, Middle DEF NextPlace
    <3> QED
      BY <1>13, <2>1, <2>3, <3>1
  <2> QED
    BY <2>2, <2>3
<1>15. ASSUME n2 >= 4 + half
       PROVE  /\ EndsWith(fm2.win, frame, Taken(NextPlace(p)))
              /\ NextPlace(p) = <<5, 9, 1>> => fm2.prev_valid
              /\ NextPlace(p) = <<5, 9, 2>> => fm2.hit = peer
  <2>1. CASE n >= 4 + half
    <3>1. u.data \in Character \cup {NoByte}
      BY <1>6 DEF UartOK, Registers
    <3> QED
      BY <1>4, <1>6, <1>7, <1>9, <2>1, <3>1, MatcherInFrame
  <2>2. CASE ~(n >= 4 + half)
    <3>1. t + 1 = FrameCycles
      <4>1. PICK g \in Nat : g = FrameCycles /\ g >= 240 /\ g = 60 * divisor
        BY Middle DEF FrameCycles
      <4>2. PICK s \in Nat : s = Steady /\ s = 2 * g + 8
        BY <4>1 DEF Steady, Latency
      <4>3. PICK h \in Nat : h = 4 + half /\ h < g
        BY <4>1, Middle
      <4>4. n = s \/ n + g = t + h \/ n = t + h \/ n = t + h + g \/ n = t + h + 2 * g
        BY <1>1, <1>7, <4>1, <4>2, <4>3, Middle DEF Round
      <4>5. n2 = n + 1
        BY <1>12, <1>15, <2>2, <4>3 DEF UpTo
      <4>6. n + 1 = h
        BY <1>15, <2>2, <4>3, <4>5
      <4> QED
        BY <1>1, <4>1, <4>2, <4>3, <4>4, <4>6
    <3>2. NextPlace(p) = <<0, 0, 0>>
      BY <1>1, <3>1, Advance
    <3>3. Taken(<<0, 0, 0>>) = 0 /\ <<0, 0, 0>> # <<5, 9, 1>> /\ <<0, 0, 0>> # <<5, 9, 2>>
      BY DEF Taken
    <3>4. EndsWith(fm2.win, frame, 0)
      BY DEF EndsWith
    <3> QED
      BY <3>2, <3>3, <3>4
  <2> QED
    BY <2>1, <2>2
<1> QED
  BY <1>3, <1>4, <1>5, <1>11, <1>12, <1>13, <1>14, <1>15, Zenon DEF InFrame

\* and the first of a beacon finds a lane at rest.
LEMMA FrameBegins ==
  ASSUME NEW lane, LaneOK(lane), NEW c \in Cables, AtRest(lane.rx[Side(c)]), NEW line \in {0, 1},
         Level(line, Side(c)) = LineBit(frame_bytes(c.peer), 0), NEW w, w = LaneStep(lane, line)
  PROVE  /\ InFrame(w, c, 1, 1, <<5, 9, divisor - 3 - half>>)
         /\ <<5, 9, divisor - 3 - half>> \in Places
<1>1. PICK side \in Polarities : side = Side(c)
  BY DEF Side, Polarities
<1>2. PICK peer \in Peers, frame \in [1..6 -> Character] : peer = c.peer /\ frame = frame_bytes(peer)
  BY FrameIsBytes DEF Cables
<1>3. PICK u, u2 : u = lane.rx[side] /\ u2 = w.rx[side]
  OBVIOUS
<1>4. UartOK(u) /\ u.state = "IDLE" /\ u.meta = 1 /\ u.rx = 1
  BY <1>1, <1>3 DEF LaneOK, AtRest
<1>5. PICK level \in {0, 1} : level = Level(line, side) /\ level = LineBit(frame, 0)
  BY <1>1, <1>2, LaneFields
<1>6. u2 = UartStep(u, level)
  <2>1. w.rx[side] = UartStep(lane.rx[side], Level(line, side))
    BY LaneFields
  <2> QED
    BY <1>3, <1>5, <2>1
<1>7. UartMoves(u, level, u2)
  BY <1>4, <1>6, UartFields DEF UartOK
<1>8. u2.meta = level /\ u2.rx = 1 /\ u2.state = "IDLE"
  BY <1>4, <1>7 DEF UartMoves
<1>9. PICK e \in Nat : e = divisor - 3 - half
  BY Middle
<1>10. PICK t \in Nat, g \in Nat : /\ t = Cyc(<<5, 9, e>>) /\ t = 59 * divisor + e
                                   /\ g = FrameCycles /\ g = 60 * divisor
  BY Middle DEF Cyc, At, FrameCycles
<1>11. After(t, 2) = 59 * divisor + (divisor - 1) /\ After(t, 3) = 0 /\ After(t, 4) = 1
  BY <1>9, <1>10, Middle DEF After
<1>12. LineBit(frame, 0) = 0 /\ LineBit(frame, 59 * divisor + (divisor - 1)) = 1
  <2>1. PICK b \in 0..59, k \in 0..5, j \in 0..9, r \in Nat :
          b = 0 /\ k = 0 /\ j = 0 /\ r = 0 /\ b = 10 * k + j /\ r < divisor
    <3>1. 0 \in 0..59 /\ 0 \in 0..5 /\ 0 \in 0..9 /\ 0 = 10 * 0 + 0 /\ 0 < divisor
      BY Middle
    <3> QED
      BY <3>1
  <2>2. BitIs(LineBit(frame, b * divisor + r), frame, k, j)
    BY <2>1, BitOnLine
  <2>3. b * divisor + r = 0
    BY <2>1, Middle
  <2>4. PICK b2 \in 0..59, k2 \in 0..5, j2 \in 0..9, r2 \in Nat :
          b2 = 59 /\ k2 = 5 /\ j2 = 9 /\ r2 = divisor - 1 /\ b2 = 10 * k2 + j2 /\ r2 < divisor
    <3>1. 59 \in 0..59 /\ 5 \in 0..5 /\ 9 \in 0..9 /\ 59 = 10 * 5 + 9
      OBVIOUS
    <3>2. divisor - 1 \in Nat /\ divisor - 1 < divisor
      BY Middle
    <3> QED
      BY <3>1, <3>2
  <2>5. BitIs(LineBit(frame, b2 * divisor + r2), frame, k2, j2)
    BY <2>4, BitOnLine
  <2> QED
    BY <2>1, <2>2, <2>3, <2>4, <2>5 DEF BitIs
<1>13. InStep(u2, frame, <<5, 9, e>>)
  <2>1. ~(9 <= 7) /\ ~(9 = 8) /\ e + half + 1 < divisor
    BY <1>9, Middle
  <2>2. u2.meta = LineBit(frame, After(Cyc(<<5, 9, e>>), 3))
    BY <1>5, <1>8, <1>10, <1>11
  <2>3. u2.rx = LineBit(frame, After(Cyc(<<5, 9, e>>), 2))
    BY <1>8, <1>10, <1>11, <1>12
  <2> QED
    BY <1>8, <2>1, <2>2, <2>3, InStepAt, Zenon
<1>14. Round(1, t) /\ ~(1 >= 4 + half)
  BY <1>9, <1>10, Middle DEF Round
<1>15. <<5, 9, e>> \in Places
  BY <1>9, Middle DEF Places
<1>16. InFrame(w, c, 1, 1, <<5, 9, e>>)
  BY <1>1, <1>2, <1>3, <1>10, <1>11, <1>13, <1>14, Zenon DEF InFrame
<1> QED
  BY <1>9, <1>15, <1>16

\* Each cycle of a beacon that stays takes the receiver to its next place.
LEMMA StayGoesOn ==
  ASSUME NEW lane, LaneOK(lane), NEW c \in Cables, NEW ph, NEW n \in 0..Steady,
         Stay(lane, c, ph, n), NEW line \in {0, 1},
         Level(line, Side(c)) = LineBit(frame_bytes(c.peer), ph)
  PROVE  Stay(LaneStep(lane, line), c, (ph + 1) % FrameCycles, UpTo(n, Steady))
<1>1. PICK w : w = LaneStep(lane, line)
  OBVIOUS
<1>2. PICK g \in Nat : g = FrameCycles /\ g >= 240
  BY Middle DEF FrameCycles
<1>3. PICK s \in Nat : s = Steady /\ s > 0
  BY <1>2 DEF Steady, Latency
<1>4. PICK n2 : n2 = UpTo(n, Steady) /\ n2 \in Nat /\ n2 > 0 /\ (n = 0 => n2 = 1)
  BY <1>3 DEF UpTo
<1>5. PICK ph2 : ph2 = (ph + 1) % FrameCycles
  OBVIOUS
<1>6. CASE n = 0
  <2>1. ph = 0 /\ AtRest(lane.rx[Side(c)])
    BY <1>6 DEF Stay
  <2>2. ph2 = 1
    BY <1>2, <1>5, <2>1
  <2>3. \E p \in Places : InFrame(w, c, ph2, n2, p)
    BY <1>1, <1>4, <1>6, <2>1, <2>2, FrameBegins
  <2> QED
    BY <1>1, <1>4, <1>5, <2>3 DEF Stay
<1>7. CASE n # 0
  <2>1. PICK p \in Places : InFrame(lane, c, ph, n, p)
    BY <1>7 DEF Stay
  <2>2. InFrame(w, c, ph2, n2, NextPlace(p)) /\ NextPlace(p) \in Places
    BY <1>1, <1>4, <1>5, <2>1, FrameGoesOn, Advance
  <2> QED
    BY <1>1, <1>4, <1>5, <2>2 DEF Stay
<1> QED
  BY <1>6, <1>7

\* How long it is since the frame that a listener heard last.
Since(t) == IF t >= 59 * divisor + 3 THEN t - 59 * divisor - 3 ELSE t + divisor - 3
\* The cycle in which the first frame of a beacon has reached the candidate.
FirstFrame == 59 * divisor + 7 + half

\* A listener at whose lane a beacon is for n cycles knows it.
Known(r, c, ph, n) ==
  /\ n >= FirstFrame => Awaiting(r, c, Since(Back(ph)))
  /\ n >= FrameCycles + FirstFrame => Reporting(r, c, Since(Back(ph)))

\* The place of the match of a frame.
LEMMA MatchPlace ==
  ASSUME NEW p \in Places
  PROVE  Cyc(p) = 59 * divisor + 2 <=> p = <<5, 9, 2>>
<1>1. PICK k \in 0..5, j \in 0..9, e \in Nat : p = <<k, j, e>> /\ e < divisor
  BY DEF Places
<1>2. PICK b \in 0..59 : b = 10 * k + j
  OBVIOUS
<1>3. PICK d \in Nat \ {0} : d = divisor /\ d >= 4
  BY Middle
<1>4. Cyc(p) = b * d + e
  BY <1>1, <1>2, <1>3 DEF Cyc, At
<1>5. ASSUME b * d + e = 59 * d + 2 PROVE b = 59
  <2>1. (b * d + e) \div d = b
    BY <1>1, <1>3, Slot
  <2>2. PICK x \in Nat, r \in Nat : x = 59 /\ r = 2 /\ r < d
    BY <1>3
  <2>3. (x * d + r) \div d = x
    BY <1>3, <2>2, Slot
  <2> QED
    BY <1>5, <2>1, <2>2, <2>3
<1>6. ASSUME b = 59 PROVE k = 5 /\ j = 9
  BY <1>2, <1>6
<1>7. ASSUME Cyc(p) = 59 * divisor + 2 PROVE p = <<5, 9, 2>>
  <2>1. b = 59
    BY <1>3, <1>4, <1>5, <1>7
  <2>2. e = 2
    BY <1>3, <1>4, <1>7, <2>1
  <2> QED
    BY <1>1, <1>6, <2>1, <2>2
<1>8. ASSUME p = <<5, 9, 2>> PROVE Cyc(p) = 59 * divisor + 2
  BY <1>3, <1>8 DEF Cyc, At
<1> QED
  BY <1>7, <1>8

\* The time since a match is less than a frame, and begins anew with the next.
LEMMA SinceGoesOn ==
  ASSUME NEW t \in Nat, t < FrameCycles, NEW t2, t2 = IF t + 1 < FrameCycles THEN t + 1 ELSE 0
  PROVE  /\ Since(t) \in Nat /\ Since(t) < timeout_cycles /\ Since(t2) \in Nat
         /\ t # 59 * divisor + 2 => Since(t2) = Since(t) + 1
<1>1. PICK d \in Nat : d = divisor /\ d >= 4
  BY Middle
<1>2. PICK f \in Nat : f = FrameCycles /\ f = 60 * d
  BY <1>1 DEF FrameCycles
<1>3. PICK m \in Nat : m = timeout_cycles /\ m >= f
  BY <1>2, TimeoutAssumption, MemoryAssumption
<1>4. PICK g \in Nat : g = 59 * d + 2 /\ g + d = f + 2
  BY <1>1, <1>2
<1>5. \A x \in Nat : Since(x) = IF x > g THEN x - g - 1 ELSE x + d - 3
  BY <1>1, <1>4 DEF Since
<1>6. t < f /\ t2 = (IF t + 1 < f THEN t + 1 ELSE 0) /\ t2 \in Nat
  BY <1>2
<1>7. PICK s \in Nat, s2 \in Nat :
        /\ s = IF t > g THEN t - g - 1 ELSE t + d - 3
        /\ s2 = IF t2 > g THEN t2 - g - 1 ELSE t2 + d - 3
  <2>1. \A x \in Nat : (IF x > g THEN x - g - 1 ELSE x + d - 3) \in Nat
    BY <1>1, <1>4
  <2> QED
    BY <1>6, <2>1
<1>8. s < m
  BY <1>1, <1>3, <1>4, <1>6, <1>7
<1>9. t # g => s2 = s + 1
  <2>1. CASE t + 1 < f
    BY <1>1, <1>4, <1>6, <1>7, <2>1
  <2>2. CASE t + 1 = f
    BY <1>1, <1>4, <1>6, <1>7, <2>2
  <2> QED
    BY <1>6, <2>1, <2>2
<1>10. Since(t) = s /\ Since(t2) = s2
  BY <1>5, <1>6, <1>7
<1> QED
  BY <1>1, <1>3, <1>4, <1>8, <1>9, <1>10

\* It goes on to know it while its lane matches nothing else.
LEMMA KnownGoesOn ==
  ASSUME NEW lane, LaneOK(lane), NEW c \in Cables, NEW ph, NEW n \in 0..Steady,
         Stay(lane, c, ph, n), NEW line \in {0, 1}, OnlyHit(lane, c),
         Known(lane.listener, c, ph, n)
  PROVE  Known(LaneStep(lane, line).listener, c, (ph + 1) % FrameCycles, UpTo(n, Steady))
<1>1. PICK r \in Listeners : r = lane.listener
  BY DEF LaneOK
<1>2. PICK r2 : r2 = LaneStep(lane, line).listener
  OBVIOUS
<1>3. PICK d \in Nat, h \in Nat : d = divisor /\ d >= 4 /\ h = 4 + half /\ h <= d + 1
  BY Middle
<1>4. PICK f \in Nat, g \in Nat : f = FrameCycles /\ f = 60 * d /\ g = 59 * d + 2
  BY <1>3 DEF FrameCycles
<1>5. PICK s \in Nat, first \in Nat :
        /\ s = Steady /\ s = 2 * f + 8 /\ first = FirstFrame /\ first = g + h + 1 /\ first < f + 8
  BY <1>3, <1>4, Middle DEF Steady, Latency, FirstFrame
<1>6. PICK n2 \in Nat : n2 = UpTo(n, Steady) /\ n2 = IF n < s THEN n + 1 ELSE n
  BY <1>5 DEF UpTo
<1>7. PICK ph2 : ph2 = (ph + 1) % FrameCycles
  OBVIOUS
<1> SUFFICES Known(r2, c, ph2, n2)
  BY <1>1, <1>2, <1>6, <1>7
<1>8. SUFFICES ASSUME n2 >= first
               PROVE  /\ Awaiting(r2, c, Since(Back(ph2)))
                      /\ n2 >= f + first => Reporting(r2, c, Since(Back(ph2)))
  <2>1. n2 >= f + first => n2 >= first
    BY <1>4, <1>5, <1>6
  <2> QED
    BY <1>4, <1>5, <2>1 DEF Known
<1>9. n >= first - 1 /\ n > 0 /\ n >= 4 + half
  BY <1>3, <1>4, <1>5, <1>6, <1>8
<1>10. PICK p \in Places : InFrame(lane, c, ph, n, p)
  BY <1>9 DEF Stay
<1>11. PICK t \in Nat : t = Cyc(p) /\ t < f
  BY <1>4, Advance
<1>12. PICK t2 : t2 = IF t + 1 < FrameCycles THEN t + 1 ELSE 0
  OBVIOUS
<1>13. ph = After(t, 4) /\ Round(n, t)
  BY <1>10, <1>11 DEF InFrame
<1>14. Back(ph) = t /\ Back(ph2) = t2
  <2>1. t2 \in Nat /\ t2 < FrameCycles
    <3>1. t2 = IF t + 1 < f THEN t + 1 ELSE 0
      BY <1>4, <1>12
    <3>2. f > 0
      BY <1>3, <1>4
    <3>3. t2 \in Nat /\ t2 < f
      BY <1>11, <3>1, <3>2
    <3> QED
      BY <1>4, <3>3
  <2>2. ph2 = After(t2, 4)
    BY <1>4, <1>7, <1>11, <1>12, <1>13, PhaseGoesOn
  <2>3. PICK t3 : t3 = IF t2 + 1 < FrameCycles THEN t2 + 1 ELSE 0
    OBVIOUS
  <2>4. Back(After(t2, 4)) = t2
    BY <2>1, <2>3, PhaseGoesOn
  <2>5. Back(After(t, 4)) = t
    BY <1>4, <1>11, <1>12, PhaseGoesOn
  <2> QED
    BY <1>13, <2>2, <2>4, <2>5
<1>15. PICK a \in Nat, b \in Nat :
         a = Since(t) /\ b = Since(t2) /\ a < timeout_cycles /\ (t # g => b = a + 1)
  BY <1>3, <1>4, <1>11, <1>12, SinceGoesOn
<1>16. n = s \/ n + f = t + h \/ n = t + h \/ n = t + h + f \/ n = t + h + 2 * f
  BY <1>3, <1>4, <1>5, <1>11, <1>13, Middle DEF Round
<1>17. /\ n >= first => Awaiting(r, c, a)
       /\ n >= f + first => Reporting(r, c, a)
  BY <1>1, <1>2, <1>4, <1>5, <1>14, <1>15 DEF Known
<1>18. r2 = IF lane.fm[Side(c)].hit = NoPeer THEN NoHit(r) ELSE Hit(r, c)
  BY <1>1, <1>2, LaneHears
<1>19. CASE lane.fm[Side(c)].hit # NoPeer
  <2>1. r2 = Hit(r, c)
    BY <1>18, <1>19
  <2>2. Awaiting(r2, c, b) /\ (Awaiting(r, c, a) => Reporting(r2, c, b))
    BY <1>15, <2>1, Hears
  <2>3. n2 >= f + first => n >= first
    BY <1>3, <1>4, <1>5, <1>6
  <2> QED
    BY <1>4, <1>14, <1>15, <1>17, <2>2, <2>3
<1>20. CASE lane.fm[Side(c)].hit = NoPeer
  <2>1. r2 = NoHit(r)
    BY <1>18, <1>20
  <2>2. t # g
    <3> SUFFICES ASSUME t = g PROVE FALSE
      OBVIOUS
    <3>1. p = <<5, 9, 2>>
      BY <1>3, <1>4, <1>11, MatchPlace
    <3>2. lane.fm[Side(c)].hit = c.peer
      BY <1>9, <1>10, <3>1 DEF InFrame
    <3>3. c.peer \in Peers
      BY DEF Cables
    <3> QED
      BY <1>20, <3>2, <3>3, NoPeerAssumption DEF Peers
  <2>3. b = a + 1
    BY <1>15, <2>2
  <2>4. /\ Awaiting(r, c, a) => Awaiting(r2, c, b)
        /\ Reporting(r, c, a) => Reporting(r2, c, b)
    BY <1>15, <2>1, <2>3, HearsNothing
  <2>5. n >= first
    <3> SUFFICES ASSUME n = first - 1 PROVE FALSE
      BY <1>5, <1>9
    <3> QED
      BY <1>3, <1>4, <1>5, <1>11, <1>16, <2>2
  <2>6. n2 >= f + first => n >= f + first
    <3> SUFFICES ASSUME n = f + first - 1 PROVE FALSE
      BY <1>5, <1>6, <1>9
    <3> QED
      BY <1>3, <1>4, <1>5, <1>11, <1>16, <2>2
  <2> QED
    BY <1>14, <1>15, <1>17, <2>4, <2>5, <2>6
<1> QED
  BY <1>19, <1>20

\* What a beacon sends is a level.
LEMMA LineBits ==
  ASSUME NEW frame \in [1..6 -> Character], NEW ph \in 0..(FrameCycles - 1)
  PROVE  LineBit(frame, ph) \in {0, 1}
<1>1. PICK m \in Nat \ {0} : m = 10 * divisor /\ FrameCycles = 6 * m
  BY Middle DEF FrameCycles
<1>2. PICK q \in Int : q = ph \div m
  BY <1>1
<1>3. ph \in Nat /\ ph < 6 * m
  BY <1>1
<1>4. q * m <= ph /\ ph < (q + 1) * m
  BY <1>2, <1>3
<1>5. ~(q >= 6)
  <2> SUFFICES ASSUME q >= 6 PROVE FALSE
    OBVIOUS
  <2>1. PICK z \in Nat : q = 6 + z
    OBVIOUS
  <2>2. q * m = 6 * m + z * m /\ z * m \in Nat
    BY <2>1
  <2> QED
    BY <1>3, <1>4, <2>2
<1>6. ~(q < 0)
  <2> SUFFICES ASSUME q < 0 PROVE FALSE
    OBVIOUS
  <2>1. PICK z \in Nat : q + 1 + z = 0
    OBVIOUS
  <2>2. (q + 1) * m + z * m = 0 /\ z * m \in Nat
    BY <2>1
  <2> QED
    BY <1>3, <1>4, <2>2
<1>7. PICK k \in 1..6 : k = 1 + q
  BY <1>5, <1>6
<1>8. frame[k] \in Character
  OBVIOUS
<1>9. PICK x \in Int : x = ph \div divisor
  BY <1>3, Middle
<1>10. PICK bit \in 0..9 : bit = x % 10
  OBVIOUS
<1>11. LineBit(frame, ph) = CASE bit = 0 -> 0 [] bit = 9 -> 1 [] OTHER -> frame[k][bit]
  BY <1>1, <1>2, <1>7, <1>9, <1>10 DEF LineBit
<1>12. bit # 0 /\ bit # 9 => frame[k][bit] \in {0, 1}
  BY <1>8 DEF Character
<1> QED
  BY <1>11, <1>12

\* What the other board does, and what has been counted of it.
RemoteOK ==
  /\ on \in BOOLEAN /\ phase \in 0..(FrameCycles - 1) /\ cable \in Cablings /\ rest \in {0, 1}
  /\ run \in 0..Steady /\ gone \in 0..Forgotten
\* The polarity whose line is at rest while it is not there, and the lanes where that is its own.
Resting == IF rest = 1 THEN "true" ELSE "inverted"
FromRest(l) == on /\ prior # Never /\ (rest = 1) # cable[l].inverted

\* What the line of a lane is, to the polarity that reads it.
LEMMA Levels ==
  ASSUME RemoteOK, NEW l \in Lanes
  PROVE  /\ cable[l] \in Cables /\ Line(l) \in {0, 1}
         /\ on => Level(Line(l), Side(cable[l])) = LineBit(frame_bytes(cable[l].peer), phase)
         /\ ~on => Level(Line(l), Resting) = 1
<1>1. PICK c \in Cables : c = cable[l]
  BY CablingsAssumption DEF RemoteOK, Cables, Peers
<1>2. c.inverted \in BOOLEAN /\ c.peer \in Peers
  BY DEF Cables
<1>3. CASE on
  <2>1. PICK b \in {0, 1} : b = LineBit(frame_bytes(c.peer), phase)
    BY <1>2, FrameIsBytes, LineBits DEF RemoteOK
  <2>2. Line(l) = IF c.inverted THEN 1 - b ELSE b
    BY <1>1, <1>3, <2>1 DEF Line
  <2>3. Level(Line(l), Side(c)) = b /\ Line(l) \in {0, 1}
    BY <1>2, <2>2 DEF Level, Side
  <2> QED
    BY <1>1, <1>3, <2>1, <2>3
<1>4. CASE ~on
  <2>1. Line(l) = rest /\ rest \in {0, 1}
    BY <1>4 DEF Line, RemoteOK
  <2>2. Level(Line(l), Resting) = 1
    BY <2>1 DEF Level, Resting
  <2> QED
    BY <1>1, <1>4, <2>1, <2>2
<1> QED
  BY <1>3, <1>4

\* The inductive invariant of the receivers.
ReceiversInv ==
  /\ RemoteOK
  /\ \A l \in Lanes : /\ LaneOK(lanes[l])
                      /\ ~on => Settling(lanes[l].rx[Resting], gone)
                      /\ FromRest(l) => Stay(lanes[l], cable[l], phase, run)

\* It holds when the lanes come out of reset,
LEMMA ReceiversBegin == MCInit => ReceiversInv
<1> SUFFICES ASSUME MCInit PROVE ReceiversInv
  OBVIOUS
<1>1. /\ on /\ prior = Never /\ run = 0 /\ gone = Forgotten /\ lanes = [l \in Lanes |-> LaneReset]
      /\ on \in BOOLEAN /\ phase \in 0..(FrameCycles - 1) /\ cable \in Cablings /\ rest \in {0, 1}
  BY DEF MCInit, Init
<1>2. Steady \in Nat /\ Forgotten \in Nat
  BY Middle, TimeoutAssumption DEF Steady, Forgotten, Latency, FrameCycles
<1>3. Zero \in Character
  BY DEF Zero, Character
<1>4. UartOK(UartReset)
  <2>1. <<>> \in Seq({0, 1}) /\ NoByte \in Character \cup {NoByte}
    OBVIOUS
  <2>2. UartReset \in Registers
    BY <2>1 DEF UartReset, Registers
  <2> QED
    BY <2>2, Middle DEF UartOK, UartReset
<1>5. MatcherOK(MatcherReset)
  <2>1. [i \in 1..6 |-> Zero] \in [1..6 -> Character]
    BY <1>3
  <2>2. WindowOK([i \in 1..6 |-> Zero])
    BY <2>1, Tuples DEF WindowOK
  <2> QED
    BY <2>2 DEF MatcherOK, MatcherReset
<1>6. ListenerReset \in Listeners
  <2>1. Unheard \in Cables
    BY <1>3 DEF Unheard, Cables, Peers
  <2> QED
    BY <2>1 DEF ListenerReset, Listeners
<1>7. LaneOK(LaneReset)
  BY <1>4, <1>5, <1>6 DEF LaneOK, LaneReset
<1>8. \A l \in Lanes : lanes[l] = LaneReset
  BY <1>1
<1> QED
  BY <1>1, <1>2, <1>7, <1>8 DEF ReceiversInv, RemoteOK, FromRest

\* each cycle keeps it, and so do the other board's going and coming,
LEMMA ReceiversStep == ReceiversInv /\ [MCNext]_mcvars => ReceiversInv'
<1> SUFFICES ASSUME ReceiversInv, [MCNext]_mcvars PROVE ReceiversInv'
  OBVIOUS
<1>1. RemoteOK /\ \A l \in Lanes : LaneOK(lanes[l])
  BY DEF ReceiversInv
<1>2. PICK f \in Nat : f = FrameCycles /\ f > 0
  BY Middle DEF FrameCycles
<1>3. PICK s \in Nat : s = Steady /\ s > 0
  BY <1>2 DEF Steady, Latency
<1>4. PICK forgotten \in Nat : forgotten = Forgotten /\ forgotten > 2
  BY TimeoutAssumption DEF Forgotten, Latency
<1>5. CASE MCCycle
  <2>1. /\ phase' = (phase + 1) % FrameCycles /\ on' = on /\ cable' = cable /\ rest' = rest
        /\ lanes' = [l \in Lanes |-> LaneStep(lanes[l], Line(l))]
        /\ run' = UpTo(run, Steady) /\ gone' = UpTo(gone, Forgotten) /\ prior' = prior
    BY <1>5 DEF MCCycle, Cycle
  <2>2. RemoteOK'
    <3>1. phase' \in 0..(FrameCycles - 1)
      BY <1>1, <1>2, <2>1 DEF RemoteOK
    <3>2. run' \in 0..Steady /\ gone' \in 0..Forgotten
      BY <1>1, <1>3, <1>4, <2>1 DEF RemoteOK, UpTo
    <3> QED
      BY <1>1, <2>1, <3>1, <3>2 DEF RemoteOK
  <2>3. ASSUME NEW l \in Lanes
        PROVE  /\ LaneOK(lanes'[l])
               /\ ~on' => Settling(lanes'[l].rx[Resting'], gone')
               /\ FromRest(l)' => Stay(lanes'[l], cable'[l], phase', run')
    <3> DEFINE lane == lanes[l]
    <3>1. PICK line \in {0, 1}, c \in Cables : line = Line(l) /\ c = cable[l]
      <4>1. Line(l) \in {0, 1} /\ cable[l] \in Cables
        BY <1>1, Levels
      <4> QED
        BY <4>1
    <3>2. PICK w : w = LaneStep(lane, line) /\ lanes'[l] = w
      BY <2>1, <3>1
    <3>3. LaneOK(lane)
      BY <1>1, <3>1
    <3>4. LaneOK(w)
      BY <3>2, <3>3, LaneFields
    <3>5. ASSUME ~on PROVE Settling(w.rx[Resting], gone')
      <4>1. PICK p \in Polarities : p = Resting
        BY DEF Resting, Polarities
      <4>2. PICK u : u = lane.rx[p]
        OBVIOUS
      <4>3. UartOK(u) /\ Settling(u, gone)
        BY <3>1, <3>3, <3>5, <4>1, <4>2 DEF LaneOK, ReceiversInv
      <4>4. w.rx[p] = UartStep(lane.rx[p], Level(line, p))
        BY <3>2, <3>3, LaneFields
      <4>5. Level(line, p) = 1
        BY <1>1, <3>1, <3>5, <4>1, Levels
      <4>6. PICK g \in Nat, g2 \in Nat : /\ g = gone /\ g2 = gone'
                                         /\ g2 = g + 1 \/ (g2 = g /\ g >= 2)
        BY <1>1, <1>4, <2>1 DEF RemoteOK, UpTo
      <4>7. Settling(UartStep(u, 1), g2)
        BY <4>3, <4>6, Settles
      <4> QED
        BY <4>1, <4>2, <4>4, <4>5, <4>6, <4>7
    <3>6. ASSUME FromRest(l) PROVE Stay(w, c, phase', run')
      <4>1. Stay(lane, c, phase, run) /\ on
        BY <3>1, <3>6 DEF ReceiversInv, FromRest
      <4>2. Level(line, Side(c)) = LineBit(frame_bytes(c.peer), phase)
        BY <1>1, <3>1, <4>1, Levels
      <4>3. run \in 0..Steady
        BY <1>1 DEF RemoteOK
      <4>4. Stay(LaneStep(lane, line), c, (phase + 1) % FrameCycles, UpTo(run, Steady))
        BY <3>3, <4>1, <4>2, <4>3, StayGoesOn
      <4> QED
        BY <2>1, <3>2, <4>4
    <3>7. Resting' = Resting /\ (FromRest(l)' <=> FromRest(l))
      BY <2>1 DEF Resting, FromRest
    <3> QED
      BY <2>1, <3>1, <3>2, <3>4, <3>5, <3>6, <3>7
  <2> QED
    BY <2>2, <2>3 DEF ReceiversInv
<1>6. CASE MCLeave
  <2>1. /\ on' = FALSE /\ rest' \in {0, 1} /\ phase' = phase /\ cable' = cable /\ lanes' = lanes
        /\ gone' = 0 /\ run' = 0
    BY <1>6 DEF MCLeave, Leave
  <2>2. RemoteOK'
    <3>1. run' \in 0..Steady /\ gone' \in 0..Forgotten
      BY <1>3, <1>4, <2>1
    <3> QED
      BY <1>1, <2>1, <3>1 DEF RemoteOK
  <2>3. \A u : Settling(u, 0)
    BY DEF Settling
  <2> QED
    BY <1>1, <2>1, <2>2, <2>3 DEF ReceiversInv, FromRest
<1>7. CASE MCArrive
  <2>1. /\ ~on /\ on' = TRUE /\ rest' = rest /\ phase' = 0 /\ cable' \in Cablings /\ lanes' = lanes
        /\ gone \in Returns /\ gone' = gone /\ run' = 0
    BY <1>7 DEF MCArrive, Arrive
  <2>2. RemoteOK'
    BY <1>1, <1>2, <1>3, <2>1 DEF RemoteOK
  <2>3. ASSUME NEW l \in Lanes, FromRest(l)' PROVE Stay(lanes'[l], cable'[l], phase', run')
    <3>1. PICK c : c = cable'[l]
      OBVIOUS
    <3>2. c.inverted \in BOOLEAN
      BY <2>1, <3>1, CablingsAssumption
    <3>3. Side(c) = Resting /\ Side(c) \in Polarities
      BY <1>1, <2>1, <2>3, <3>1, <3>2 DEF FromRest, Resting, Side, RemoteOK, Polarities
    <3>4. PICK u : u = lanes[l].rx[Side(c)]
      OBVIOUS
    <3>5. UartOK(u) /\ Settling(u, gone)
      BY <1>1, <2>1, <3>3, <3>4 DEF LaneOK, ReceiversInv
    <3>6. gone \in Nat /\ gone > 10 * divisor
      BY <2>1, ReturnsAssumption
    <3>7. AtRest(u)
      <4>1. u.meta = 1 /\ u.rx = 1 /\ (u.state # "IDLE" => ToRest(u) + gone <= 9 * divisor + 2)
        BY <3>5, <3>6, Middle DEF Settling
      <4>2. ToRest(u) \in Nat
        BY <3>5, ToRestIsNat
      <4> QED
        BY <3>6, <4>1, <4>2, Middle DEF AtRest
    <3> QED
      BY <2>1, <3>1, <3>4, <3>7 DEF Stay
  <2> QED
    BY <1>1, <2>1, <2>2, <2>3 DEF ReceiversInv
<1>8. CASE UNCHANGED mcvars
  <2>1. /\ on' = on /\ phase' = phase /\ cable' = cable /\ rest' = rest /\ lanes' = lanes
        /\ run' = run /\ gone' = gone /\ prior' = prior
    BY <1>8 DEF mcvars, vars, remoteVars
  <2> QED
    BY <1>1, <2>1 DEF ReceiversInv, RemoteOK, Resting, FromRest
<1> QED
  BY <1>5, <1>6, <1>7, <1>8 DEF MCNext

\* and so it holds always.
LEMMA Receivers == MCSpec => []ReceiversInv
<1> QED
  BY ReceiversBegin, ReceiversStep, PTL DEF MCSpec

(* Every frame of a beacon that starts on a lane at rest is matched, with what the beacon
   says: in that cycle of each frame in which the window has its last byte, from the first
   frame on, whatever the lane carried before and whichever way it is connected. *)
FramesMatched ==
  \A l \in Lanes :
    FromRest(l) /\ run > divisor /\ phase = (59 * divisor + half + 6) % FrameCycles =>
      lanes[l].fm[Side(cable[l])].hit = cable[l].peer

\* That is so for every bit time, number of lanes, board and way of leaving and coming back.
THEOREM FramesAreMatched == MCSpec => []FramesMatched
<1>1. ReceiversInv => FramesMatched
  <2> SUFFICES ASSUME ReceiversInv, NEW l \in Lanes, FromRest(l), run > divisor,
                      phase = (59 * divisor + half + 6) % FrameCycles
               PROVE  lanes[l].fm[Side(cable[l])].hit = cable[l].peer
    BY DEF FramesMatched
  <2>1. run \in Nat /\ run > 0 /\ run >= 4 + half
    BY Middle DEF ReceiversInv, RemoteOK
  <2>2. PICK p \in Places : InFrame(lanes[l], cable[l], phase, run, p)
    BY <2>1 DEF ReceiversInv, Stay
  <2>3. PICK t \in Nat : t = Cyc(p) /\ t < FrameCycles
    BY Advance
  <2>4. phase = After(t, 4)
    BY <2>2, <2>3 DEF InFrame
  <2>5. t = 59 * divisor + 2
    <3>1. PICK x \in Nat, d \in Nat : d = divisor /\ d >= 4 /\ x = 59 * d + 2 /\ x < FrameCycles
      BY Middle DEF FrameCycles
    <3>2. PICK f \in Nat : f = FrameCycles /\ f = 60 * d
      BY <3>1 DEF FrameCycles
    <3>3. PICK y \in Nat : y = 59 * d + half + 6 /\ y = x + 4 + half /\ y < f + f
      BY <3>1, <3>2, Middle
    <3>4. After(x, 4) = IF y < f THEN y ELSE y - f
      BY <3>1, <3>2, <3>3, Wrapped
    <3>5. y % f = IF y < f THEN y ELSE y - f
      BY <3>1, <3>2, <3>3
    <3>6. After(x, 4) = After(t, 4)
      BY <2>4, <3>1, <3>2, <3>3, <3>4, <3>5
    <3>7. Back(After(x, 4)) = x /\ Back(After(t, 4)) = t
      BY <2>3, <3>1, PhaseGoesOn
    <3> QED
      BY <3>1, <3>6, <3>7
  <2> QED
    BY <2>1, <2>2, <2>3, <2>5, MatchPlace DEF InFrame
<1> QED
  BY <1>1, Receivers, PTL

\* What the listeners know of a beacon that began at rest.
ListenersInv ==
  \A l \in Lanes : FromRest(l) => Known(lanes[l].listener, cable[l], phase, run)

\* As long as nothing but the frames sent is matched, each step keeps it.
LEMMA ListenersStep ==
  ReceiversInv /\ NoChanceMatch /\ ListenersInv /\ [MCNext]_mcvars => ListenersInv'
<1> SUFFICES ASSUME ReceiversInv, NoChanceMatch, ListenersInv, [MCNext]_mcvars,
                    NEW l \in Lanes, FromRest(l)'
             PROVE  Known(lanes'[l].listener, cable'[l], phase', run')
  BY DEF ListenersInv
<1>1. RemoteOK /\ LaneOK(lanes[l])
  BY DEF ReceiversInv
<1>2. CASE MCCycle
  <2>1. /\ phase' = (phase + 1) % FrameCycles /\ on' = on /\ cable' = cable /\ rest' = rest
        /\ lanes' = [m \in Lanes |-> LaneStep(lanes[m], Line(m))]
        /\ run' = UpTo(run, Steady) /\ prior' = prior
    BY <1>2 DEF MCCycle, Cycle
  <2>2. FromRest(l) /\ on
    BY <2>1 DEF FromRest
  <2> DEFINE lane == lanes[l]
  <2>3. PICK line \in {0, 1}, c \in Cables : line = Line(l) /\ c = cable[l]
    <3>1. Line(l) \in {0, 1} /\ cable[l] \in Cables
      BY <1>1, Levels
    <3> QED
      BY <3>1
  <2>4. /\ LaneOK(lane) /\ Stay(lane, c, phase, run) /\ OnlyHit(lane, c)
        /\ Known(lane.listener, c, phase, run) /\ run \in 0..Steady
    BY <1>1, <2>2, <2>3 DEF ReceiversInv, NoChanceMatch, OnlyHit, ListenersInv, RemoteOK
  <2>5. Known(LaneStep(lane, line).listener, c, (phase + 1) % FrameCycles, UpTo(run, Steady))
    BY <2>4, KnownGoesOn
  <2> QED
    BY <2>1, <2>3, <2>5
<1>3. CASE MCLeave
  BY <1>3 DEF MCLeave, Leave, FromRest
<1>4. CASE MCArrive
  <2>1. run' = 0
    BY <1>4 DEF MCArrive
  <2>2. FirstFrame \in Nat /\ FirstFrame > 0 /\ FrameCycles \in Nat
    BY Middle DEF FirstFrame, FrameCycles
  <2> QED
    BY <2>1, <2>2 DEF Known
<1>5. CASE UNCHANGED mcvars
  <2>1. /\ on' = on /\ phase' = phase /\ cable' = cable /\ rest' = rest /\ lanes' = lanes
        /\ run' = run /\ prior' = prior
    BY <1>5 DEF mcvars, vars, remoteVars
  <2> QED
    BY <2>1 DEF ListenersInv, FromRest
<1> QED
  BY <1>2, <1>3, <1>4, <1>5 DEF MCNext

(* A beacon that starts on a lane at rest is heard by the end of its second frame, for every
   bit time, number of lanes and board, as long as the receivers match nothing but the frames
   sent: the only thing that can come between the two frames of a beacon. *)
THEOREM QuietIsHeard == MCSpec /\ []NoChanceMatch => []HeardFromQuiet
<1>1. MCInit => ListenersInv
  BY DEF MCInit, ListenersInv, FromRest
<1>2. ReceiversInv /\ ListenersInv => HeardFromQuiet
  <2> SUFFICES ASSUME ReceiversInv, ListenersInv, NEW l \in Lanes,
                      on, run = Steady, prior # Never, (rest = 1) # cable[l].inverted
               PROVE  Listener(l).seen /\ Listener(l).heard = cable[l]
    BY DEF HeardFromQuiet
  <2>1. FromRest(l)
    BY DEF FromRest
  <2>2. run >= FrameCycles + FirstFrame
    BY Middle DEF Steady, Latency, FirstFrame, FrameCycles
  <2>3. Reporting(lanes[l].listener, cable[l], Since(Back(phase)))
    BY <2>1, <2>2 DEF ListenersInv, Known
  <2> QED
    BY <2>3 DEF Reporting, Listener
<1> QED
  BY <1>1, <1>2, ListenersStep, Receivers, PTL DEF MCSpec
=============================================================================
