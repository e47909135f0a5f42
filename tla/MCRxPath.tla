------------------------------- MODULE MCRxPath -------------------------------
(***************************************************************************)
(* The receive path on a line that carries whole packets: the samples of   *)
(* a packet start anywhere in a word, one of its edges is early or late,   *)
(* alone (jitter) or with all that follow (a clock of another frequency),  *)
(* and behind it the line stays where it is or goes back to J.  The next   *)
(* one may come while the FIFO still holds what was heard of the last.     *)
(***************************************************************************)
EXTENDS RxPath, HSWire

CONSTANTS Payloads,  \* what the packets carry
          Syncs,     \* SYNC lengths
          Offsets,   \* samples of rest before a packet's first bit
          Gaps,      \* cycles between two packets
          Cycles,    \* cycles of the CDR's clock in one of the usb clock
          WarpedBits \* how many bits from the packet's end an edge may be displaced

\* The usb clock, in phase with the CDR's, has the frequency of the clock plan.
Plan == INSTANCE ClockPlan
ASSUME RatioAssumption == <<Cycles, 1>> = Plan!Ratio(Plan!cdr_clk, Plan!usb_clk)

ASSUME PacketAssumption ==
  /\ Payloads \subseteq Seq(Byte)
  /\ \A n \in Syncs : n \in Nat /\ n > MIN_SYNC_ZEROS
ASSUME SamplingAssumption == Offsets \subseteq Nat /\ WarpedBits \subseteq Nat \ {0}

VARIABLES line,  \* samples of a packet still to come
          rest,  \* level behind them
          after, \* cycles since its last sample, up to MaxAfter
          half,  \* cycles since the last edge of the usb clock
          missed, \* edges of the usb clock that each entry in flight has missed
          owed,  \* history: payloads sent whose packets have not been closed at the UTMI
          got,   \* history: bytes of the packet open at the UTMI
          wrong  \* history: a packet was closed that was not the next one, whole and good

mcvars == <<rxVars, line, rest, after, half, missed, owed, got, wrong>>

\* The decoder has the last bit in its outputs so many cycles after its sample.
Latency == 3
\* An entry goes through two synchroniser stages and the output register; the first
\* stage takes it at the edge it was written before, or at the next one.
MinMissed == 3
MaxMissed == 4
\* A slot shows up as free one edge late.
MaxUnseen == 1
\* From the last sample to the fall of rx_active: the END is read behind the last byte.
MaxAfter == Latency + Cycles * (MaxMissed + 2)

\* No byte; most edges, fewest edges, ones up to the EOP; more entries than are on their way.
ByteOf(v) == [i \in 1..8 |-> (v \div 2^(i - 1)) % 2]
MCPayloads ==
  {<<>>} \cup {<<ByteOf(v)>> : v \in {0, 252, 255}} \cup {[i \in 1..5 |-> ByteOf(0)]}

NoWarp == [at |-> 1, edge |-> 0, later |-> 0]
\* The edge behind a bit of n moves with the later ones, or alone.
Warps(n) ==
  {w \in [at : {n - x : x \in WarpedBits}, edge : {-1, 1}, later : {-1, 0, 1}] :
     w.at > 0 /\ w.later \in {0, w.edge}} \cup {NoWarp}

\* The line bit that is on the line at sample j of a packet.
BitAt(j, w) ==
  LET nominal(k) == (k + S - 1) \div S
  IN  IF j <= S * w.at + w.edge
        THEN IF nominal(j) < w.at THEN nominal(j) ELSE w.at
        ELSE IF nominal(j - w.later) > w.at THEN nominal(j - w.later) ELSE w.at + 1

SamplesOf(lineBits, w) ==
  [j \in 1..(S * Len(lineBits) + w.later) |-> lineBits[BitAt(j, w)]]

MCInit ==
  /\ RxInit
  /\ line = <<>> /\ rest = 1 /\ after = 0 /\ half \in 0..Cycles /\ missed = <<>>
  /\ owed = <<>> /\ got = <<>> /\ wrong = FALSE

Send(p, n, offset, w, level) ==
  /\ line' = [j \in 1..offset |-> rest] \o SamplesOf(PacketLineBits(p, n, rest), w)
  /\ rest' = level /\ owed' = Append(owed, p) /\ after' = 0
  /\ UNCHANGED <<rxVars, half, missed, got, wrong>>

SendPacket ==
  /\ line = <<>> /\ after \in Gaps
  /\ \E p \in Payloads, n \in Syncs, offset \in Offsets :
       LET lineBits == PacketLineBits(p, n, rest)
       IN  \E w \in Warps(Len(lineBits)), level \in {1, lineBits[Len(lineBits)]} :
             Send(p, n, offset, w, level)

\* The next samples, with the level of rest behind the last ones.
NextWord == [k \in 1..(S * B) |-> IF k <= Len(line) THEN line[k] ELSE rest]

Word ==
  /\ half < Cycles /\ Cycle(NextWord) /\ half' = half + 1
  /\ line' = SubSeq(line, S * B + 1, Len(line))
  /\ after' = IF line = <<>> /\ after < MaxAfter THEN after + 1 ELSE after
  /\ missed' = IF Len(flying') > Len(flying) THEN Append(missed, 0) ELSE missed
  /\ UNCHANGED <<rest, owed, got, wrong>>

\* rx_active falls: the packet is the next one owed, or something is wrong.
Closed == rx_active /\ ~rx_active'
Good == ~rx_error' /\ owed # <<>> /\ got = Head(owed)

Utmi ==
  /\ half = Cycles /\ unseen <= MaxUnseen /\ (\A k \in DOMAIN missed : missed[k] < MaxMissed)
  /\ UsbEdge /\ half' = 0 /\ missed' = [k \in DOMAIN missed |-> missed[k] + 1]
  /\ got' = IF ~rx_active' THEN <<>> ELSE IF rx_valid' = NoData THEN got ELSE Append(got, rx_valid')
  /\ owed' = IF Closed /\ Good THEN Tail(owed) ELSE owed
  /\ wrong' = (wrong \/ (Closed /\ ~Good))
  /\ UNCHANGED <<line, rest, after>>

\* Pointers are looked at once in a cycle of the usb clock; slots only when they must be.
Cross ==
  /\ half = Cycles /\ Crossing
  /\ flying' # flying => Head(missed) >= MinMissed
  /\ unseen' # unseen => unseen > MaxUnseen
  /\ missed' = IF flying' = flying THEN missed ELSE Tail(missed)
  /\ UNCHANGED <<line, rest, after, half, owed, got, wrong>>

MCNext == SendPacket \/ Word \/ Utmi \/ Cross

MCSpec == MCInit /\ [][MCNext]_mcvars

(* Every packet comes out at the UTMI once, in order, with its bytes, without
   an error and in time, whatever the phase the CDR had, wherever the packet
   starts, with an edge out of place by a sample, and although the digital
   squelch falls right behind the EOP: the END is out before the loss of
   activity could make an ERROR of it.  And as the usb clock keeps pace, the
   FIFO's entries are enough for those on their way.  A packet comes no sooner
   after the reset than after another packet. *)
RxDelivers ==
  /\ ~wrong /\ ~overflow
  /\ after = MaxAfter => owed = <<>>
=============================================================================
