----------------------------- MODULE LaneListener -----------------------------
(***************************************************************************)
(* One lane of usb2soft/applets/hdmi_discovery.py: a receiver and a frame  *)
(* matcher for each polarity, and the listener that decides what is heard. *)
(* A lane is a record of their registers, LaneStep one clock cycle of it.  *)
(* hit is what a matcher has matched, in the cycle of its strobe.          *)
(***************************************************************************)
EXTENDS UARTReceiver

CONSTANTS timeout_cycles, \* cycles a frame is remembered
          SYNC,           \* first byte of a frame
          NoPeer          \* hit of a cycle without a match

ASSUME TimeoutAssumption == timeout_cycles \in Nat \ {0}
ASSUME SyncAssumption == SYNC \in Character
ASSUME NoPeerAssumption == NoPeer \notin [1..4 -> Character]

Polarities == {"true", "inverted"}

Xor(bytes) ==
  [i \in 1..8 |-> (bytes[1][i] + bytes[2][i] + bytes[3][i] + bytes[4][i]) % 2]

\* frame_bytes: SYNC, the id, port and lane, and the sum over those four bytes.
frame_bytes(peer) == <<SYNC>> \o peer \o <<Xor(peer)>>

IsFrame(win) == win = frame_bytes(SubSeq(win, 2, 5))

Zero == [i \in 1..8 |-> 0]

MatcherReset == [win |-> [i \in 1..6 |-> Zero], prev_valid |-> FALSE, hit |-> NoPeer]

MatcherStep(f, data) ==
  [win |-> IF data = NoByte THEN f.win ELSE Append(Tail(f.win), data),
   prev_valid |-> data # NoByte,
   hit |-> IF f.prev_valid /\ IsFrame(f.win) THEN SubSeq(f.win, 2, 5) ELSE NoPeer]

\* What a listener knows: a peer (id, port and lane) and whether the pair is swapped.
Unheard == [peer |-> [i \in 1..4 |-> Zero], inverted |-> FALSE]

ListenerReset ==
  [cand |-> Unheard, cand_timer |-> 0, timer |-> 0, seen |-> FALSE, heard |-> Unheard]

\* Mutant of Agrees: one frame is enough.
Agrees_Single(l, hit) == TRUE
Agrees(l, hit) == l.cand_timer # 0 /\ l.cand = hit

\* Mutant of Hit: a lane that is seen already is not seen any longer.
Hit_NoRenewal(l, hit) ==
  LET c == [l EXCEPT !.cand = hit, !.cand_timer = timeout_cycles]
  IN  IF Agrees(l, hit) /\ ~l.seen
        THEN [c EXCEPT !.timer = timeout_cycles, !.seen = TRUE, !.heard = hit]
      ELSE c
Hit(l, hit) ==
  LET c == [l EXCEPT !.cand = hit, !.cand_timer = timeout_cycles]
  IN  IF Agrees(l, hit) THEN [c EXCEPT !.timer = timeout_cycles, !.seen = TRUE, !.heard = hit]
      ELSE c

NoHit(l) ==
  [l EXCEPT !.cand_timer = IF @ # 0 THEN @ - 1 ELSE 0,
            !.timer = IF @ # 0 THEN @ - 1 ELSE 0,
            !.seen = @ /\ l.timer # 0]

LaneReset ==
  [rx |-> [p \in Polarities |-> UartReset], fm |-> [p \in Polarities |-> MatcherReset],
   listener |-> ListenerReset]

\* The true polarity's matcher comes first when both match.
LaneStep(lane, line) ==
  LET hit(p) == lane.fm[p].hit
  IN  [rx |-> [p \in Polarities |-> UartStep(lane.rx[p], IF p = "true" THEN line ELSE 1 - line)],
       fm |-> [p \in Polarities |-> MatcherStep(lane.fm[p], lane.rx[p].data)],
       listener |->
         CASE hit("true") # NoPeer ->
                Hit(lane.listener, [peer |-> hit("true"), inverted |-> FALSE])
           [] hit("true") = NoPeer /\ hit("inverted") # NoPeer ->
                Hit(lane.listener, [peer |-> hit("inverted"), inverted |-> TRUE])
           [] OTHER -> NoHit(lane.listener)]
=============================================================================
