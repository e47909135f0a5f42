-------------------------- MODULE MCPacketDecoder --------------------------
(***************************************************************************)
(* The decoder on a line that carries noise, then silence, then a packet:  *)
(* what it reports is compared with what was sent.  Words are cut from the *)
(* packet's line bits three to five bits at a time, as the CDR's slips do. *)
(***************************************************************************)
EXTENDS PacketDecoder

CONSTANTS PayloadBytes, \* the bytes of the payloads
          MaxLen,       \* longest payload
          MaxNoise,     \* noise words before a packet
          Syncs         \* SYNC lengths: a hub may cut a SYNC short, but not below this

ASSUME PayloadAssumption == PayloadBytes \subseteq Byte /\ MaxLen \in Nat
ASSUME SyncsAssumption == \A n \in Syncs : n \in Nat /\ n > MIN_SYNC_ZEROS
ASSUME NoBytesAssumption == NoData \notin Seq(Byte)

VARIABLES line,    \* line bits of a packet still to come
          noise,   \* noise words since the last silence
          still,   \* words without an edge since the last one with
          trusted, \* the packet on the line came after silence and nothing cut it
          payload, \* its payload
          ref,     \* the ideal decoder of usbhs.py, reading the same packet
          got      \* history: bytes since the last START, or NoData outside a packet

mcvars == <<vars, line, noise, still, trusted, payload, ref, got>>

Payloads == UNION {[1..n -> PayloadBytes] : n \in 0..MaxLen}

\* A byte of zeros, one of ones, and some whose ones meet across bytes or at the end.
ByteOf(v) == [i \in 1..8 |-> (v \div 2^(i - 1)) % 2]
MCBytes == {ByteOf(v) : v \in {0, 63, 126, 252, 255}}

\* Noise: toggling, steady and mixed words; two toggling ones can pass for a SYNC.
MCWords == {<<0, 1, 0, 1, 0>>, <<1, 0, 1, 0, 1>>, <<1, 1, 1>>, <<0, 0, 0, 0>>, <<1, 0, 1, 0, 0>>}

\* What the UTMI side has seen of the packet after this word (nothing of noise).
Collect ==
  LET open == trusted' /\ (event' = "START" \/ (got # NoData /\ event' = "NONE"))
      before == IF event' = "START" THEN <<>> ELSE got
  IN  got' = IF ~open THEN NoData
             ELSE IF data' = NoData THEN before ELSE Append(before, data')

MCInit ==
  /\ Init
  /\ line = <<>> /\ noise = 0 /\ still = 2 /\ trusted = FALSE
  /\ payload = <<>> /\ ref = RefStart /\ got = NoData

\* Comparator chatter: bits from any word, its edges keep the CDR's activity high.
Noise ==
  /\ line = <<>> /\ noise < MaxNoise
  /\ \E word \in Words : Decode(word, TRUE)
  /\ noise' = noise + 1 /\ still' = 0 /\ trusted' = FALSE /\ payload' = <<>>
  /\ ref' = RefStart /\ Collect /\ UNCHANGED line

\* No edge: every bit repeats the last level; activity falls in the second such word.
Silence ==
  /\ line = <<>>
  /\ Decode([i \in 1..4 |-> last_level], still < 1)
  /\ noise' = 0 /\ still' = IF still = 2 THEN 2 ELSE still + 1
  /\ trusted' = FALSE /\ payload' = <<>>
  /\ ref' = RefStart /\ Collect /\ UNCHANGED line

\* A packet starts from a line at rest (its first word carries edges).
SendPacket ==
  /\ line = <<>> /\ still = 2
  /\ \E p \in Payloads, n \in Syncs :
       line' = PacketLineBits(p, n, last_level) /\ payload' = p
  /\ trusted' = TRUE /\ still' = 0 /\ ref' = RefStart
  /\ UNCHANGED <<vars, noise, got>>

PacketWord ==
  /\ line # <<>> /\ UNCHANGED <<noise, still, trusted, payload>>
  /\ \E n \in 3..MAX_BITS :
       LET k == IF n < Len(line) THEN n ELSE Len(line)
           word == SubSeq(line, 1, k)
       IN  /\ Decode(word, TRUE) /\ Collect
           /\ ref' = RefRead(ref, NrziDecode(word, last_level))
           /\ line' = SubSeq(line, k + 1, Len(line))

\* The transmitter goes away in mid-packet.
Cut ==
  /\ line # <<>> /\ line' = <<>> /\ trusted' = FALSE
  /\ Decode([i \in 1..4 |-> last_level], TRUE)
  /\ still' = 1 /\ payload' = <<>> /\ ref' = RefStart /\ Collect /\ UNCHANGED noise

MCNext == Noise \/ Silence \/ SendPacket \/ PacketWord \/ Cut

MCSpec == MCInit /\ [][MCNext]_mcvars

(* Whatever noise came before, a packet that follows a silence is
   reported whole: when its last bits have been read the decoder has just
   closed it with END and has reported exactly its bytes, however its bits
   were cut into words and however short a hub left its SYNC. *)
PacketDelivered ==
  [][trusted /\ line # <<>> /\ line' = <<>> /\ trusted' =>
       event' = "END" /\ got = payload]_mcvars

(* The wire code the gateware is built and tested against is itself right: the
   ideal decoder recovers the packet exactly and only from its EOP, though a
   last byte may end in six ones (the stuffed bit then sits next to the EOP);
   and unstuffing undoes stuffing with the EOP as the first violation. *)
WireCodeInverts ==
  [][trusted /\ line # <<>> /\ line' = <<>> /\ trusted' =>
       LET data_bits == SyncDataBits(MIN_SYNC_ZEROS) \o PayloadDataBits(payload)
           upto_eop == BitUnstuff(BitStuff(data_bits) \o <<0, 1, 1, 1, 1, 1, 1, 1>>)
       IN  /\ ref.packets = <<>> /\ ref'.packets = <<payload>>
           /\ BitUnstuff(BitStuff(data_bits)).bits = data_bits
           /\ upto_eop.violation /\ upto_eop.bits = data_bits \o <<0, 1, 1, 1, 1, 1, 1>>]_mcvars
=============================================================================
