------------------------------ MODULE MCDiscovery ------------------------------
(***************************************************************************)
(* Two lanes, connected to the beacons of another board that runs when     *)
(* this one comes up, may leave once and come back once, connected in      *)
(* another way.                                                            *)
(***************************************************************************)
EXTENDS Discovery, SequencesExt

CONSTANTS Found,   \* places in its frame where the other board is found
          Leaves,  \* places in its frame where it leaves
          Returns  \* cycles after which it may come back

\* A board is away for longer than a character takes.
ASSUME ReturnsAssumption == \A n \in Returns : n \in Nat /\ n > 10 * divisor
\* A frame is remembered until the next one.
ASSUME MemoryAssumption == timeout_cycles >= FrameCycles

VARIABLES run,    \* history: cycles of this stay, up to Steady
          gone,   \* history: cycles since it left, up to Forgotten (which it is at first)
          prior,  \* history: how it was connected before it left, once
          taken,  \* history: [Lanes -> fields when the lane's line was triggered]
          printed \* history: bytes of this report

mcvars == <<vars, run, gone, prior, taken, printed>>

ByteOf(v) == [i \in 1..8 |-> (v \div 2^(i - 1)) % 2]
PeerOf(a, b, c, pl) == <<ByteOf(a), ByteOf(b), ByteOf(c), ByteOf(pl)>>
MCSync == ByteOf(165)

Cable(a, b, c, pl, inv) == [peer |-> PeerOf(a, b, c, pl), inverted |-> inv]
\* Lanes 3 of port 1 and 0 of port 0, the second one swapped; or the other way round.
MCCablings ==
  {<<Cable(171, 205, 239, 19, FALSE), Cable(1, 2, 3, 0, TRUE)>>,
   <<Cable(1, 2, 3, 1, FALSE), Cable(171, 205, 239, 18, TRUE)>>}
AsLanes == {[l \in Lanes |-> c[l + 1]] : c \in MCCablings}

\* From the last sample of a frame to the listener's registers.
Latency == 8
Steady == 2 * FrameCycles + Latency
Forgotten == timeout_cycles + Latency

Never == [l \in Lanes |-> Unheard]

UpTo(n, bound) == IF n < bound THEN n + 1 ELSE n

MCInit ==
  /\ Init /\ on /\ rest = 1 /\ phase \in Found
  /\ run = 0 /\ gone = Forgotten /\ prior = Never
  /\ taken = [l \in Lanes |-> <<>>] /\ printed = <<>>

Printed(c) == IF accepts(c) THEN <<byte_at(c)>> ELSE <<>>

MCCycle ==
  /\ Cycle
  /\ run' = UpTo(run, Steady) /\ gone' = UpTo(gone, Forgotten)
  /\ taken' = IF trigger("line") THEN [taken EXCEPT ![sel] = Fields("line")] ELSE taken
  /\ printed' = IF sequencer = "HEADER" THEN <<>> ELSE printed \o Printed("header") \o Printed("line")
  /\ UNCHANGED prior

MCLeave ==
  /\ Leave /\ prior = Never /\ phase \in Leaves /\ run = Steady
  /\ gone' = 0 /\ prior' = cable /\ run' = 0 /\ UNCHANGED <<taken, printed>>
MCArrive ==
  /\ Arrive /\ gone \in Returns /\ run' = 0 /\ UNCHANGED <<gone, prior, taken, printed>>

MCNext == MCCycle \/ MCLeave \/ MCArrive

MCSpec == MCInit /\ [][MCNext]_mcvars
MCFairSpec == MCSpec /\ WF_mcvars(MCCycle)

-----------------------------------------------------------------------------

Listener(l) == lanes[l].listener

\* The polarity that reads the beacon at the end of a cable.
Side(c) == IF c.inverted THEN "inverted" ELSE "true"

(* While a beacon is at its end a lane matches nothing but what that sends, as it arrives:
   neither the receiver of the other polarity, nor one that reads the stream from the middle
   of a byte, nor what is left in a window from before makes up a frame. *)
NoChanceMatch ==
  on => \A l \in Lanes, p \in Polarities :
          lanes[l].fm[p].hit # NoPeer => p = Side(cable[l]) /\ lanes[l].fm[p].hit = cable[l].peer

(* A lane is reported as seen only for a beacon that is at its end of the
   cable, under that polarity and after two whole frames of it, or was there
   until at most a timeout ago; what it matches meanwhile is that beacon's. *)
SeenIsHeard ==
  /\ NoChanceMatch
  /\ \A l \in Lanes : Listener(l).seen =>
       \/ Listener(l).heard = prior[l] /\ gone < Forgotten
       \/ /\ on /\ Listener(l).heard = cable[l]
          /\ run >= FrameCycles * (IF cable[l] = prior[l] THEN 1 ELSE 2)

(* A beacon that starts on a lane at rest is heard by the end of its second
   frame, whatever the lane carried before and however it is connected now. *)
HeardFromQuiet ==
  \A l \in Lanes :
    on /\ run = Steady /\ prior # Never /\ (rest = 1) # cable[l].inverted =>
      Listener(l).seen /\ Listener(l).heard = cable[l]

(* A beacon that has been heard stays reported as long as it is there: from
   one frame to the next the timeout does not run out, and no chance match of
   the other receiver gets in between. *)
StaysSeen ==
  [][\A l \in Lanes :
       on /\ on' /\ gone = Forgotten /\ Listener(l).seen /\ Listener(l).heard = cable[l] =>
         Listener(l)'.seen /\ Listener(l)'.heard = cable[l]]_mcvars

(* What the serial port carries between two pauses is a header and one line
   for each lane in their order, each line what that lane's listener held
   in one and the same cycle, although the listeners change while the line is
   printed and the transmitter is behind the reporter. *)
ReportIsWhole ==
  [][sequencer # "WAIT" /\ sequencer' = "WAIT" =>
       LET line(f) == <<f.lane, f.peer, f.flags>>
       IN  /\ \A l \in Lanes : taken[l].lane = l
           /\ printed = <<"hello">> \o FlattenSeq([i \in 1..n_lanes |-> line(taken[i - 1])])]_mcvars

(* The console does report what a lane hears: a lane at whose end a beacon
   goes on sending is seen in the end. *)
SteadyIsHeard ==
  \A l \in Lanes : on ~> (~on \/ (Listener(l).seen /\ Listener(l).heard = cable[l]))
=============================================================================
