------------------------------- MODULE HSWire -------------------------------
(***************************************************************************)
(* The bit-level USB 2.0 high-speed wire code of usb2soft/sim/usbhs.py:    *)
(* NRZI, bit stuffing, SYNC, EOP, whole packets and the reference decoder. *)
(* A data bit is what the MAC sees, a line bit the level on the wire       *)
(* (1 = J, 0 = K).  Bit sequences are TLA+ sequences over {0, 1}, first    *)
(* bit first; a byte is a sequence of eight bits, least significant first. *)
(***************************************************************************)
EXTENDS Integers, Sequences, FiniteSets

Bit == {0, 1}
Byte == [1..8 -> Bit]

HS_SYNC_BITS == 32
STUFF_RUN == 6
MIN_SYNC_ZEROS == 8

Flip(level) == 1 - level

\* NRZI: a data 1 keeps the level, a data 0 toggles it, so the level after bit i
\* has been toggled once for each 0 up to it.
NrziEncode(bits, initial) ==
  [i \in 1..Len(bits) |->
     (initial + Cardinality({j \in 1..i : bits[j] = 0})) % 2]

NrziDecode(line, initial) ==
  [i \in 1..Len(line) |->
     IF line[i] = (IF i = 1 THEN initial ELSE line[i - 1]) THEN 1 ELSE 0]

\* Mutant of StuffBit: the zero goes in after seven ones.
StuffBitLate(s, d) ==
  LET run == IF d = 1 THEN s.run + 1 ELSE 0
  IN  IF run > STUFF_RUN THEN [bits |-> s.bits \o <<d, 0>>, run |-> 0]
                         ELSE [bits |-> Append(s.bits, d), run |-> run]

\* One data bit through the stuffer: s.run counts the ones just sent.
StuffBit(s, d) ==
  LET run == IF d = 1 THEN s.run + 1 ELSE 0
  IN  IF run = STUFF_RUN THEN [bits |-> s.bits \o <<d, 0>>, run |-> 0]
                         ELSE [bits |-> Append(s.bits, d), run |-> run]

BitStuff(bits) ==
  LET s[i \in 0..Len(bits)] ==
        IF i = 0 THEN [bits |-> <<>>, run |-> 0] ELSE StuffBit(s[i - 1], bits[i])
  IN  s[Len(bits)].bits

\* One wire bit through the unstuffer; a seventh one is a violation and stops it.
UnstuffBit(s, d) ==
  CASE s.violation                    -> s
    [] ~s.violation /\ s.run = STUFF_RUN -> [s EXCEPT !.run = 0, !.violation = (d = 1)]
    [] OTHER -> [s EXCEPT !.bits = Append(@, d), !.run = IF d = 1 THEN @ + 1 ELSE 0]

BitUnstuff(bits) ==
  LET s[i \in 0..Len(bits)] ==
        IF i = 0 THEN [bits |-> <<>>, run |-> 0, violation |-> FALSE]
                 ELSE UnstuffBit(s[i - 1], bits[i])
  IN  s[Len(bits)]

SyncDataBits(n) == [i \in 1..n |-> IF i = n THEN 1 ELSE 0]

PayloadDataBits(payload) ==
  [k \in 1..(8 * Len(payload)) |-> payload[((k - 1) \div 8) + 1][((k - 1) % 8) + 1]]

\* The HS EOP: one transition, then the level held for seven more bit times.
EopLineBits(lastLevel) == [i \in 1..8 |-> Flip(lastLevel)]

PacketLineBits(payload, syncBits, idleLevel) ==
  LET line == NrziEncode(BitStuff(SyncDataBits(syncBits) \o PayloadDataBits(payload)),
                         idleLevel)
  IN  line \o EopLineBits(line[Len(line)])

\* The bits collected up to the EOP, less the seven the EOP left, as whole bytes.
CollectedPayload(bits) ==
  LET n == IF Len(bits) >= 7 THEN (Len(bits) - 7) \div 8 ELSE 0
  IN  [k \in 1..n |-> [j \in 1..8 |-> bits[8 * (k - 1) + j]]]

\* One data bit through the ideal decoder: hunting for a SYNC or inside a packet.
RefBit(s, d) ==
  CASE ~s.inPacket /\ d = 0 -> [s EXCEPT !.zeros = @ + 1]
    [] ~s.inPacket /\ d = 1 ->
         [s EXCEPT !.zeros = 0, !.inPacket = (s.zeros >= MIN_SYNC_ZEROS),
                   !.bits = <<>>, !.run = 1]
    [] s.inPacket /\ s.run = STUFF_RUN /\ d = 1 ->
         [s EXCEPT !.inPacket = FALSE, !.run = 0,
                   !.packets = Append(@, CollectedPayload(s.bits))]
    [] s.inPacket /\ s.run = STUFF_RUN /\ d = 0 -> [s EXCEPT !.run = 0]
    [] OTHER -> [s EXCEPT !.bits = Append(@, d), !.run = IF d = 1 THEN @ + 1 ELSE 0]

\* A run of them.
RefRead(s, bits) ==
  LET r[i \in 0..Len(bits)] == IF i = 0 THEN s ELSE RefBit(r[i - 1], bits[i])
  IN  r[Len(bits)]

RefStart == [inPacket |-> FALSE, zeros |-> 0, run |-> 0, bits |-> <<>>, packets |-> <<>>]

\* A packet still open when the line bits run out is reported like a closed one.
RefPackets(s) ==
  IF s.inPacket THEN Append(s.packets, CollectedPayload(s.bits)) ELSE s.packets
=============================================================================
