--------------------------- MODULE PHYTransmitProofs ---------------------------
(***************************************************************************)
(* Proofs about the transmit half of the PHY, for every set of bytes, all  *)
(* packets, any FIFO depth, any setting of the times and any phase of the  *)
(* two clocks: the encoder, the path from the source to the wire, the bits *)
(* of its packets, the control plane, and packets reaching the pins.       *)
(***************************************************************************)
EXTENDS PHYTransmit, WireCodeProofs

-----------------------------------------------------------------------------
(* The encoder.  A stuffed byte is eight to ten bits (the potential            *)
(* 6 * stuffed + run grows by at most one a bit), so a refill below REFILL_AT  *)
(* fits and one at less than a word never happens.                             *)

\* The encoder's type and what its queue is bounded by.
EncoderInv == TypeOK /\ QueueFits /\ NoHole

\* s is a stuffer state after i bits from a run of r ones.
Stuffed(s, i, r) ==
  /\ s \in [bits : Seq(Bit), run : 0..(STUFF_RUN - 1)]
  /\ Len(s.bits) >= i
  /\ STUFF_RUN * (Len(s.bits) - i) + s.run <= r + i

(* One bit through usbhs.py's stuffer adds it, and a zero only when six ones
   have been collected for it. *)
LEMMA StuffBitStep ==
  ASSUME NEW s, NEW i \in Nat, NEW r \in Nat, NEW d \in Bit, Stuffed(s, i, r)
  PROVE  Stuffed(StuffBit(s, d), i + 1, r)
<1> DEFINE run == IF d = 1 THEN s.run + 1 ELSE 0
<1>1. s.bits \in Seq(Bit) /\ s.run \in 0..5 /\ Len(s.bits) \in Nat
  BY DEF Stuffed, STUFF_RUN
<1>2. /\ Append(s.bits, d) \in Seq(Bit) /\ Len(Append(s.bits, d)) = Len(s.bits) + 1
  BY <1>1
<1>3. <<d, 0>> \in Seq(Bit) /\ Len(<<d, 0>>) = 2
  BY DEF Bit
<1>4. s.bits \o <<d, 0>> \in Seq(Bit) /\ Len(s.bits \o <<d, 0>>) = Len(s.bits) + 2
  BY <1>1, <1>3
<1>5. CASE run = STUFF_RUN
  <2>1. StuffBit(s, d) = [bits |-> s.bits \o <<d, 0>>, run |-> 0]
    BY <1>5 DEF StuffBit
  <2>2. s.run = 5
    BY <1>5, <1>1 DEF STUFF_RUN
  <2> QED
    BY <1>1, <1>4, <2>1, <2>2 DEF Stuffed, STUFF_RUN
<1>6. CASE run # STUFF_RUN
  <2>1. StuffBit(s, d) = [bits |-> Append(s.bits, d), run |-> run]
    BY <1>6 DEF StuffBit
  <2>2. run \in 0..5 /\ run <= s.run + 1
    BY <1>6, <1>1 DEF STUFF_RUN
  <2> HIDE DEF run
  <2> QED
    BY <1>1, <1>2, <2>1, <2>2 DEF Stuffed, STUFF_RUN
<1> QED
  BY <1>5, <1>6

(* A byte through the stuffing chain is eight to ten bits, whatever the run
   of ones before it, and leaves a run shorter than six. *)
LEMMA StuffByteLength ==
  ASSUME NEW r \in 0..(STUFF_RUN - 1), NEW byte \in Byte
  PROVE  /\ StuffByte(r, byte).bits \in Seq(Bit)
         /\ 8 <= Len(StuffByte(r, byte).bits) /\ Len(StuffByte(r, byte).bits) <= 10
         /\ StuffByte(r, byte).run \in 0..(STUFF_RUN - 1)
<1> DEFINE s0 == [bits |-> <<>>, run |-> r]
           s1 == StuffBit(s0, byte[1])
           s2 == StuffBit(s1, byte[2])
           s3 == StuffBit(s2, byte[3])
           s4 == StuffBit(s3, byte[4])
           s5 == StuffBit(s4, byte[5])
           s6 == StuffBit(s5, byte[6])
           s7 == StuffBit(s6, byte[7])
           s8 == StuffBit(s7, byte[8])
<1>0. r \in 0..5 /\ \A i \in 1..8 : byte[i] \in Bit
  BY DEF Byte, STUFF_RUN
<1>1. ASSUME NEW s, NEW i \in 0..7, Stuffed(s, i, r)
      PROVE  Stuffed(StuffBit(s, byte[i + 1]), i + 1, r)
  <2>1. i \in Nat /\ r \in Nat /\ byte[i + 1] \in Bit
    BY <1>0
  <2> QED
    BY <1>1, <2>1, StuffBitStep
<1>2. Stuffed(s0, 0, r)
  BY <1>0 DEF Stuffed, STUFF_RUN
<1>11. StuffByte(r, byte) = s8
  BY DEF StuffByte
<1> HIDE DEF s0
<1>3. Stuffed(s1, 1, r)
  <2>1. Stuffed(StuffBit(s0, byte[0 + 1]), 0 + 1, r)
    BY <1>2, <1>1
  <2> QED
    BY <2>1
<1> HIDE DEF s1
<1>4. Stuffed(s2, 2, r)
  <2>1. Stuffed(StuffBit(s1, byte[1 + 1]), 1 + 1, r)
    BY <1>3, <1>1
  <2> QED
    BY <2>1
<1> HIDE DEF s2
<1>5. Stuffed(s3, 3, r)
  <2>1. Stuffed(StuffBit(s2, byte[2 + 1]), 2 + 1, r)
    BY <1>4, <1>1
  <2> QED
    BY <2>1
<1> HIDE DEF s3
<1>6. Stuffed(s4, 4, r)
  <2>1. Stuffed(StuffBit(s3, byte[3 + 1]), 3 + 1, r)
    BY <1>5, <1>1
  <2> QED
    BY <2>1
<1> HIDE DEF s4
<1>7. Stuffed(s5, 5, r)
  <2>1. Stuffed(StuffBit(s4, byte[4 + 1]), 4 + 1, r)
    BY <1>6, <1>1
  <2> QED
    BY <2>1
<1> HIDE DEF s5
<1>8. Stuffed(s6, 6, r)
  <2>1. Stuffed(StuffBit(s5, byte[5 + 1]), 5 + 1, r)
    BY <1>7, <1>1
  <2> QED
    BY <2>1
<1> HIDE DEF s6
<1>9. Stuffed(s7, 7, r)
  <2>1. Stuffed(StuffBit(s6, byte[6 + 1]), 6 + 1, r)
    BY <1>8, <1>1
  <2> QED
    BY <2>1
<1> HIDE DEF s7
<1>10. Stuffed(s8, 8, r)
  <2>1. Stuffed(StuffBit(s7, byte[7 + 1]), 7 + 1, r)
    BY <1>9, <1>1
  <2> QED
    BY <2>1
<1> HIDE DEF s8
<1> QED
  <2>1. /\ s8.bits \in Seq(Bit) /\ s8.run \in 0..5 /\ Len(s8.bits) \in Nat
        /\ Len(s8.bits) >= 8 /\ 6 * (Len(s8.bits) - 8) + s8.run <= r + 8
    BY <1>10 DEF Stuffed, STUFF_RUN
  <2>2. Len(s8.bits) <= 10
    BY <2>1, <1>0
  <2> QED
    BY <2>1, <2>2, <1>11 DEF STUFF_RUN

(* Up to four bits leave the queue and the new ones go in behind the rest. *)
LEMMA ShiftLengths ==
  ASSUME TypeOK, NEW add \in Seq(Bit), Shift(add)
  PROVE  /\ queue' \in Seq(Bit) /\ Len(queue') = Len(queue) + Len(add) - drain
         /\ line' \in Seq(Bit) /\ Len(line') = drain
         /\ level' \in Bit
<1>1. /\ queue \in Seq(Bit) /\ Len(queue) \in Nat /\ Len(add) \in Nat /\ level \in Bit
      /\ drain \in Nat /\ drain <= Len(queue) /\ drain <= 4
  BY DEF TypeOK, drain
<1>2. queue \o add \in Seq(Bit) /\ Len(queue \o add) = Len(queue) + Len(add)
  BY <1>1
<1>3. /\ queue' = SubSeq(queue \o add, drain + 1, Len(queue) + Len(add))
      /\ line' = NrziEncode(SubSeq(queue, 1, drain), level)
      /\ level' = IF drain = 0 THEN level ELSE line'[drain]
  BY DEF Shift
<1>4. queue' \in Seq(Bit) /\ Len(queue') = Len(queue) + Len(add) - drain
  <2> DEFINE q == queue \o add
             lo == drain + 1
             hi == Len(queue) + Len(add)
  <2>1. q \in Seq(Bit) /\ Len(q) = hi /\ lo \in 1..(Len(q) + 1) /\ hi \in Int
    BY <1>1, <1>2
  <2>2. SubSeq(q, lo, hi) \in Seq(Bit)
    BY <2>1
  <2>3. Len(SubSeq(q, lo, hi)) = hi - lo + 1
    BY <2>1
  <2> QED
    BY <1>1, <1>3, <2>2, <2>3
<1>5. SubSeq(queue, 1, drain) \in Seq(Bit) /\ Len(SubSeq(queue, 1, drain)) = drain
  BY <1>1
<1>6. line' \in Seq(Bit) /\ Len(line') = drain
  BY <1>1, <1>3, <1>5, NrziEncodeType
<1>7. level' \in Bit
  BY <1>1, <1>3, <1>6
<1> QED
  BY <1>4, <1>6, <1>7

\* The encoder comes out of reset with its registers clear.
LEMMA EncoderInitInv == Init => EncoderInv
<1> SUFFICES ASSUME Init PROVE EncoderInv
  OBVIOUS
<1>1. <<>> \in Seq(Bit) /\ Len(<<>>) = 0
  OBVIOUS
<1>2. 1 \in Bit /\ 0 \in 0..(STUFF_RUN - 1)
  BY DEF Bit, STUFF_RUN
<1>3. queue \in Seq(Bit) /\ line \in Seq(Bit)
  BY <1>1 DEF Init
<1>4. Len(line) <= 4
  BY <1>1 DEF Init
<1>5. TypeOK
  BY <1>2, <1>3, <1>4 DEF Init, TypeOK
<1> QED
  BY <1>1, <1>5 DEF Init, EncoderInv, QueueFits, NoHole, QUEUE_BITS

(* Every cycle keeps the queue within its register and, while the packet is
   open, at least a word full. *)
LEMMA EncoderNextInv == EncoderInv /\ [Next]_vars => EncoderInv'
<1> SUFFICES ASSUME EncoderInv, [Next]_vars PROVE EncoderInv'
  OBVIOUS
<1> USE DEF QUEUE_BITS, REFILL_AT, CLOSE_BELOW, STUFF_RUN
<1>0. /\ TypeOK /\ QueueFits /\ NoHole /\ queue \in Seq(Bit) /\ Len(queue) \in Nat
  BY DEF EncoderInv, TypeOK
<1>1. Keep \/ Consume => head' \in Entries
  BY <1>0 DEF Keep, Consume, TypeOK
<1>2. /\ <<>> \in Seq(Bit) /\ Len(<<>>) = 0
      /\ 1 \in Bit /\ {0, 1} \subseteq 0..(STUFF_RUN - 1)
  BY DEF Bit
<1>3. ASSUME NEW add \in Seq(Bit), Shift(add), state = "DATA",
             Len(queue) <= REFILL_AT, 8 <= Len(add), Len(add) <= 10,
             ~ending
      PROVE  /\ queue' \in Seq(Bit) /\ line' \in Seq(Bit) /\ Len(line') <= 4
             /\ level' \in Bit /\ QueueFits' /\ 4 <= Len(queue')
  <2>1. drain = 4 /\ 4 <= Len(queue)
    BY <1>0, <1>3 DEF NoHole, drain
  <2>2. /\ queue' \in Seq(Bit) /\ Len(queue') = Len(queue) + Len(add) - 4
        /\ line' \in Seq(Bit) /\ Len(line') = 4 /\ level' \in Bit
    BY <1>0, <1>3, <2>1, ShiftLengths
  <2>3. Len(add) \in Nat
    BY <1>3
  <2>4. Len(queue') <= QUEUE_BITS - 4 /\ 4 <= Len(queue')
    BY <1>0, <1>3, <2>1, <2>2, <2>3
  <2> QED
    BY <2>2, <2>4 DEF QueueFits
<1>4. CASE IdleStart
  <2>1. queue' = SyncDataBits(SYNC_BITS)
    BY <1>4 DEF IdleStart
  <2>2. SyncDataBits(SYNC_BITS) \in Seq(Bit) /\ Len(SyncDataBits(SYNC_BITS)) = 32
    BY DEF SyncDataBits, SYNC_BITS, Bit
  <2>3. /\ state' = "DATA" /\ ones_run' = 1 /\ ending' = FALSE /\ underrun' = underrun
        /\ line' = <<>> /\ level' = 1 /\ head' \in Entries
    BY <1>1, <1>4 DEF IdleStart, Undriven
  <2>4. /\ queue' \in Seq(Bit) /\ Len(queue') = 32
        /\ line' \in Seq(Bit) /\ Len(line') <= 4
    BY <1>2, <2>1, <2>2, <2>3
  <2>5. TypeOK'
    BY <1>0, <1>2, <2>3, <2>4 DEF TypeOK
  <2> QED
    BY <2>3, <2>4, <2>5 DEF EncoderInv, QueueFits, NoHole
<1>5. CASE IdleClear
  <2>1. /\ state' = "IDLE" /\ queue' = <<>> /\ ones_run' = 0 /\ ending' = FALSE
        /\ underrun' = underrun /\ line' = <<>> /\ level' = 1 /\ head' \in Entries
    BY <1>1, <1>5 DEF IdleClear, Undriven
  <2>2. /\ queue' \in Seq(Bit) /\ Len(queue') = 0
        /\ line' \in Seq(Bit) /\ Len(line') <= 4
    BY <1>2, <2>1
  <2>3. TypeOK'
    BY <1>0, <1>2, <2>1, <2>2 DEF TypeOK
  <2> QED
    BY <2>1, <2>2, <2>3 DEF EncoderInv, QueueFits, NoHole
<1>6. CASE TakeByte
  <2> DEFINE s == StuffByte(ones_run, head)
  <2>1. head \in Byte /\ ones_run \in 0..(STUFF_RUN - 1)
    BY <1>0, <1>6, BytesAssumption DEF TakeByte, TypeOK
  <2>2. /\ s.bits \in Seq(Bit) /\ 8 <= Len(s.bits) /\ Len(s.bits) <= 10
        /\ s.run \in 0..(STUFF_RUN - 1)
    BY <2>1, StuffByteLength
  <2>3. /\ MayRefill /\ Shift(s.bits) /\ ones_run' = s.run /\ head' \in Entries
        /\ state' = state /\ ending' = ending /\ underrun' = underrun
    BY <1>1, <1>6 DEF TakeByte
  <2> HIDE DEF s
  <2> QED
    BY <1>0, <1>3, <2>2, <2>3 DEF MayRefill, EncoderInv, TypeOK, NoHole
<1>7. ASSUME MayRefill, AppendEop, Keep \/ Consume, underrun' \in BOOLEAN
      PROVE  EncoderInv'
  <2>1. EOP_DATA \in Seq(Bit) /\ Len(EOP_DATA) = 8
    BY DEF EOP_DATA, Bit
  <2>2. /\ Shift(EOP_DATA) /\ ending' = TRUE /\ state' = state /\ ones_run' = ones_run
        /\ head' \in Entries
    BY <1>1, <1>7 DEF AppendEop
  <2>3. /\ queue' \in Seq(Bit) /\ line' \in Seq(Bit) /\ Len(line') <= 4
        /\ level' \in Bit /\ QueueFits' /\ 4 <= Len(queue')
    <3>1. /\ state = "DATA" /\ Len(queue) <= REFILL_AT /\ ~ending
          /\ 8 <= Len(EOP_DATA) /\ Len(EOP_DATA) <= 10
      BY <1>7, <2>1 DEF MayRefill
    <3> QED
      BY <1>3, <2>1, <2>2, <3>1
  <2>4. TypeOK'
    BY <1>0, <1>7, <2>2, <2>3 DEF TypeOK
  <2>5. NoHole'
    <3>1. Len(queue') \in Nat
      BY <2>3
    <3> QED
      BY <2>2, <2>3, <3>1 DEF NoHole
  <2> QED
    BY <2>3, <2>4, <2>5 DEF EncoderInv
<1>8. CASE TakeEnd
  BY <1>0, <1>7, <1>8 DEF TakeEnd, TypeOK
<1>9. CASE Starve
  BY <1>7, <1>9 DEF Starve
<1>10. CASE Coast
  <2>1. /\ state = "DATA" /\ Shift(<<>>) /\ head' \in Entries
        /\ ones_run' = ones_run /\ ending' = ending /\ underrun' = underrun
        /\ state' = IF Drained THEN "IDLE" ELSE "DATA"
    BY <1>1, <1>10 DEF Coast
  <2>2. /\ queue' \in Seq(Bit) /\ Len(queue') = Len(queue) - drain
        /\ line' \in Seq(Bit) /\ Len(line') = drain /\ level' \in Bit
    <3>1. /\ queue' \in Seq(Bit) /\ Len(queue') = Len(queue) + Len(<<>>) - drain
          /\ line' \in Seq(Bit) /\ Len(line') = drain /\ level' \in Bit
      BY <1>0, <1>2, <2>1, ShiftLengths
    <3>2. drain \in Nat
      BY <1>0 DEF drain
    <3> QED
      BY <1>0, <1>2, <3>1, <3>2
  <2>3. drain \in Nat /\ drain <= 4
    BY <1>0 DEF drain
  <2>4. NoHole'
    <3>1. CASE ending
      BY <1>0, <2>1, <2>2, <3>1 DEF Drained, NoHole, drain
    <3>2. CASE ~ending
      <4>1. Len(queue) >= 8
        BY <1>0, <1>10, <3>2 DEF Coast
      <4> QED
        BY <1>0, <2>1, <2>2, <4>1 DEF NoHole, drain
    <3> QED
      BY <3>1, <3>2
  <2> QED
    BY <1>0, <2>1, <2>2, <2>3, <2>4 DEF EncoderInv, TypeOK, QueueFits
<1>11. CASE UNCHANGED vars
  BY <1>11 DEF EncoderInv, TypeOK, QueueFits, NoHole, vars, encRegs
<1> QED
  BY <1>4, <1>5, <1>6, <1>8, <1>9, <1>10, <1>11 DEF Next

(* The inductive invariant holds in every reachable state of the encoder. *)
THEOREM EncoderInvariant == Spec => []EncoderInv
  BY EncoderInitInv, EncoderNextInv, PTL DEF Spec

(* Type correctness: the carried run of ones stays below six, the output
   register holds at most a word. *)
THEOREM EncoderTypeCorrect == Spec => []TypeOK
<1>1. EncoderInv => TypeOK
  BY DEF EncoderInv
<1> QED
  BY <1>1, EncoderInvariant, PTL

(* Whatever bytes are sent, the queue register never overflows. *)
THEOREM QueueNeverOverflows == Spec => []QueueFits
<1>1. EncoderInv => QueueFits
  BY DEF EncoderInv
<1> QED
  BY <1>1, EncoderInvariant, PTL

(* An open packet always has a whole word to send. *)
THEOREM OpenPacketHasAWord == Spec => []NoHole
<1>1. EncoderInv => NoHole
  BY DEF EncoderInv
<1> QED
  BY <1>1, EncoderInvariant, PTL

(* The output enable of every packet is contiguous, from the first SYNC bit to
   the last EOP bit, however the source behaves. *)
THEOREM OutputEnableContiguous == Spec => OeContiguous
<1> DEFINE Step == state = "DATA" => /\ line' # <<>>
                                     /\ Len(line') < 4 => state' = "IDLE"
<1>1. EncoderInv /\ [Next]_vars => [Step]_encRegs
  <2> SUFFICES ASSUME EncoderInv, Next, state = "DATA"
               PROVE  line' # <<>> /\ (Len(line') < 4 => state' = "IDLE")
    BY DEF vars
  <2>0. TypeOK /\ NoHole /\ Len(queue) \in Nat
    BY DEF EncoderInv, TypeOK
  <2>1. PICK add \in Seq(Bit) : Shift(add)
    <3>1. CASE TakeByte
      <4>1. head \in Byte /\ ones_run \in 0..(STUFF_RUN - 1)
        BY <2>0, <3>1, BytesAssumption DEF TakeByte, TypeOK
      <4> QED
        BY <3>1, <4>1, StuffByteLength DEF TakeByte
    <3>2. CASE TakeEnd \/ Starve
      <4>1. EOP_DATA \in Seq(Bit)
        BY DEF EOP_DATA, Bit
      <4> QED
        BY <3>2, <4>1 DEF TakeEnd, Starve, AppendEop
    <3>3. CASE Coast
      <4>1. <<>> \in Seq(Bit)
        OBVIOUS
      <4> QED
        BY <3>3, <4>1 DEF Coast
    <3> QED
      BY <3>1, <3>2, <3>3 DEF Next, IdleStart, IdleClear
  <2>2. line' \in Seq(Bit) /\ Len(line') = drain /\ Len(queue) > 0
    BY <2>0, <2>1, ShiftLengths DEF NoHole
  <2>3. Len(line') > 0
    BY <2>0, <2>2 DEF drain
  <2>4. line' # <<>>
    BY <2>3
  <2>5. ASSUME Len(line') < 4 PROVE state' = "IDLE"
    <3>1. Len(queue) < 4
      BY <2>0, <2>2, <2>5 DEF drain
    <3>2. ending
      BY <2>0, <3>1 DEF NoHole
    <3> QED
      BY <2>0, <3>1, <3>2 DEF Next, IdleStart, IdleClear, TakeByte, TakeEnd, Starve, Coast,
                              MayRefill, Drained
  <2> QED
    BY <2>4, <2>5
<1>2. Spec => [][Next]_vars
  BY DEF Spec
<1> QED
  BY <1>1, <1>2, EncoderInvariant, PTL DEF OeContiguous

-----------------------------------------------------------------------------
(* The transmit path. *)

\* What the FIFO carries.
Written == Bytes \cup {EndMark}

(* Types, and what the FIFO shows the encoder; a packet being handed over has
   a byte accepted, one being sent has been started on the wire. *)
TxTypeOK ==
  /\ op_mode \in 0..3 /\ npackets \in 0..MaxPackets
  /\ offer \in Seq(Bytes) /\ (npackets = 0 => offer = <<>>)
  /\ npackets # 0 => offer \in Seq(Range(Payload(npackets, MaxLen)))
  /\ {prev_valid, pending_end, begun} \subseteq BOOLEAN
  /\ visible \in Seq(Written) /\ flying \in Seq(Written) /\ unseen \in Nat
  /\ accepted \in Seq(Seq(Bytes)) /\ onWire \in Seq(Seq(Bytes)) /\ sent \in Seq(Bit)
  /\ head = Shown(visible)
  /\ begun => accepted # <<>> /\ prev_valid /\ ~pending_end
  /\ state = "DATA" => onWire # <<>>

\* The registers of both domains, the FIFO between them and the histories.
TxInv == EncoderInv /\ TxTypeOK

\* The path comes out of reset with nothing in it.
LEMMA TxInitInv == TxInit => TxInv
<1> SUFFICES ASSUME TxInit PROVE TxInv
  OBVIOUS
<1>1. Init /\ head = NoEntry /\ flying = <<>> /\ visible = <<>> /\ unseen = 0
  BY DEF TxInit, Fifo!FifoInit
<1>2. EncoderInv
  BY <1>1, EncoderInitInv
<1>3. /\ <<>> \in Seq(Bytes) /\ <<>> \in Seq(Written) /\ <<>> \in Seq(Seq(Bytes))
      /\ <<>> \in Seq(Bit) /\ 0 \in 0..MaxPackets /\ 0 \in 0..3
  BY PayloadAssumption
<1>4. head = Shown(visible)
  BY <1>1 DEF Shown
<1>5. state # "DATA"
  BY <1>1 DEF Init
<1> QED
  BY <1>1, <1>2, <1>3, <1>4, <1>5 DEF TxInit, TxTypeOK, TxInv

\* What the encoder is shown is one of its entries, and none but on an empty FIFO.
LEMMA ShownEntry ==
  ASSUME NEW s \in Seq(Written)
  PROVE  /\ Shown(s) \in Entries
         /\ s = <<>> <=> Shown(s) = NoEntry
         /\ s # <<>> => /\ Shown(s) = Head(s) /\ Head(s) \in Written /\ Tail(s) \in Seq(Written)
                        /\ Len(Tail(s)) = Len(s) - 1
<1>1. CASE s = <<>>
  BY <1>1 DEF Shown, Entries
<1>2. CASE s # <<>>
  <2>1. Head(s) \in Written /\ Tail(s) \in Seq(Written) /\ Len(Tail(s)) = Len(s) - 1
    BY <1>2, HeadTailProperties
  <2>2. Head(s) # NoEntry
    BY <2>1, BytesAssumption, EntryAssumption DEF Written
  <2> QED
    BY <1>2, <2>1, <2>2 DEF Shown, Entries, Written
<1> QED
  BY <1>1, <1>2

(* What an edge of the usb clock can do: hand a byte over or not. *)
LEMMA UsbEdgeTypes ==
  ASSUME TxTypeOK, UsbEdge
  PROVE  /\ op_mode' \in 0..3 /\ npackets' \in 0..MaxPackets
         /\ offer' \in Seq(Bytes) /\ (npackets' = 0 => offer' = <<>>)
         /\ npackets' # 0 => offer' \in Seq(Range(Payload(npackets', MaxLen)))
         /\ begun' \in BOOLEAN /\ prev_valid' \in BOOLEAN
         /\ accepted' \in Seq(Seq(Bytes))
         /\ begun' => accepted' # <<>> /\ prev_valid'
         /\ UNCHANGED <<vars, wireVars>>
<1>1. /\ op_mode' \in 0..3 /\ begun' = (tx_valid /\ (begun \/ utmi_ready))
      /\ prev_valid' = tx_valid /\ UNCHANGED <<vars, wireVars>>
  BY DEF UsbEdge
<1>2. tx_valid \in BOOLEAN /\ begun \in BOOLEAN /\ utmi_ready \in BOOLEAN
  BY DEF tx_valid, TxTypeOK, utmi_ready, tx_ready
<1>3. CASE HandOver
  <2> DEFINE R == Range(Payload(npackets, MaxLen))
  <2>1. npackets' = npackets /\ offer # <<>> /\ offer' = Tail(offer) /\ utmi_ready
    BY <1>3 DEF HandOver
  <2>2. npackets # 0 /\ offer \in Seq(Bytes) /\ offer \in Seq(R)
    BY <2>1 DEF TxTypeOK
  <2> HIDE DEF R
  <2>3. Head(offer) \in Bytes /\ Tail(offer) \in Seq(Bytes) /\ Tail(offer) \in Seq(R)
    BY <2>1, <2>2
  <2>4. accepted' \in Seq(Seq(Bytes)) /\ (tx_valid => accepted' # <<>>)
    <3>1. CASE ~normal
      <4>1. accepted' = accepted /\ ~tx_valid
        BY <1>3, <3>1 DEF HandOver, tx_valid
      <4> QED
        BY <4>1 DEF TxTypeOK
    <3>2. CASE normal /\ ~begun
      <4>1. accepted' = Append(accepted, <<Head(offer)>>)
        BY <1>3, <3>2 DEF HandOver
      <4>2. <<Head(offer)>> \in Seq(Bytes) /\ accepted \in Seq(Seq(Bytes))
        BY <2>3 DEF TxTypeOK
      <4> QED
        BY <4>1, <4>2, AppendProperties
    <3>3. CASE normal /\ begun
      <4>1. accepted' = [accepted EXCEPT ![Len(accepted)] = Append(@, Head(offer))]
        BY <1>3, <3>3 DEF HandOver
      <4>2. accepted # <<>> /\ accepted \in Seq(Seq(Bytes))
        BY <3>3 DEF TxTypeOK
      <4>3. accepted' \in Seq(Seq(Bytes)) /\ Len(accepted') = Len(accepted)
        BY <2>3, <4>1, <4>2, FlattenGrow
      <4> QED
        BY <4>2, <4>3
    <3> QED
      BY <3>1, <3>2, <3>3
  <2>5. /\ npackets' \in 0..MaxPackets /\ npackets' # 0
        /\ offer' \in Seq(Range(Payload(npackets', MaxLen)))
    BY <2>1, <2>2, <2>3 DEF TxTypeOK, R
  <2> QED
    BY <1>1, <1>2, <2>1, <2>3, <2>4, <2>5
<1>4. CASE NoHandOver
  <2>1. accepted' = accepted /\ (utmi_ready /\ tx_valid => FALSE)
    BY <1>4 DEF NoHandOver, tx_valid
  <2>2. \/ UNCHANGED <<offer, npackets>>
        \/ /\ npackets < MaxPackets /\ npackets' = npackets + 1
           /\ \E n \in 1..MaxLen : offer' = Payload(npackets + 1, n)
    BY <1>4 DEF NoHandOver
  <2>3. /\ npackets' \in 0..MaxPackets /\ offer' \in Seq(Bytes) /\ (npackets' = 0 => offer' = <<>>)
        /\ npackets' # 0 => offer' \in Seq(Range(Payload(npackets', MaxLen)))
    <3>1. CASE UNCHANGED <<offer, npackets>>
      BY <3>1 DEF TxTypeOK
    <3>2. CASE /\ npackets < MaxPackets /\ npackets' = npackets + 1
               /\ \E n \in 1..MaxLen : offer' = Payload(npackets + 1, n)
      <4>1. PICK n \in 1..MaxLen : offer' = Payload(npackets', n)
        BY <3>2
      <4>2. npackets' \in 1..MaxPackets
        BY <3>2, PayloadAssumption DEF TxTypeOK
      <4> DEFINE p == Payload(npackets', n)
                 R == Range(Payload(npackets', MaxLen))
      <4>3. p \in Seq(Bytes) /\ Range(p) \subseteq R
        BY <4>2, PayloadAssumption
      <4> HIDE DEF p, R
      <4>4. \A i \in 1..Len(p) : p[i] \in R
        BY <4>3 DEF Range
      <4>5. p \in Seq(R)
        BY <4>3, <4>4
      <4> QED
        BY <4>1, <4>2, <4>3, <4>5 DEF p, R
    <3> QED
      BY <2>2, <3>1, <3>2
  <2>4. accepted' \in Seq(Seq(Bytes)) /\ (begun' => accepted' # <<>> /\ prev_valid')
    BY <1>1, <2>1 DEF TxTypeOK
  <2> QED
    BY <1>1, <1>2, <2>3, <2>4
<1> QED
  BY <1>3, <1>4 DEF UsbEdge

\* A byte more: behind the last packet, or the first of a new one.
Grown(packets, more, e) ==
  IF more THEN [packets EXCEPT ![Len(packets)] = Append(@, e)] ELSE Append(packets, <<e>>)

(* What an edge of the usb clock does: it writes an end marker or keeps it
   pending, and a packet is over; it writes the byte that is handed over; or
   it writes nothing, and the packet goes on if there is one. *)
LEMMA UsbClockStep ==
  ASSUME TxTypeOK, UsbClock
  PROVE  /\ UsbEdge /\ UNCHANGED <<visible, unseen>>
         /\ \/ /\ flying' = Append(flying, EndMark) /\ pending_end' = FALSE
               /\ accepted' = accepted /\ begun' = FALSE
            \/ /\ flying' = flying /\ pending_end' = TRUE
               /\ accepted' = accepted /\ begun' = FALSE
            \/ /\ offer # <<>> /\ flying' = Append(flying, Head(offer))
               /\ pending_end = FALSE /\ pending_end' = FALSE
               /\ accepted' = Grown(accepted, begun, Head(offer))
               /\ begun' = TRUE /\ npackets' = npackets
            \/ /\ flying' = flying /\ pending_end = FALSE /\ pending_end' = FALSE
               /\ accepted' = accepted /\ begun' = begun
               /\ begun => npackets' = npackets
<1>1. /\ tx_valid \in BOOLEAN /\ begun \in BOOLEAN /\ prev_valid \in BOOLEAN
      /\ pending_end \in BOOLEAN /\ ended \in BOOLEAN /\ normal \in BOOLEAN
      /\ begun => prev_valid /\ ~pending_end
  BY DEF tx_valid, TxTypeOK, ended, normal
<1>2. UsbEdge /\ UNCHANGED <<visible, unseen>>
  BY DEF UsbClock, WriteEnd, HoldEnd, WriteByte, WriteNothing, Fifo!Write, fifoVars
<1>3. begun' = (tx_valid /\ (begun \/ utmi_ready))
  BY <1>2 DEF UsbEdge
<1>4. ended => (tx_valid => ~begun)
  BY <1>1 DEF ended
<1>5. ASSUME ended \/ (tx_valid => ~Fifo!WRdy)
      PROVE  accepted' = accepted /\ (tx_valid => ~utmi_ready)
  <2>1. ~tx_ready
    BY <1>5 DEF tx_ready
  <2>2. normal => ~utmi_ready
    BY <2>1 DEF utmi_ready
  <2>3. accepted' = accepted
    BY <1>2, <2>2 DEF UsbEdge, HandOver, NoHandOver
  <2> QED
    BY <2>2, <2>3 DEF tx_valid
<1>6. CASE WriteEnd
  <2>1. ended /\ flying' = Append(flying, EndMark) /\ pending_end' = FALSE
    BY <1>6 DEF WriteEnd, Fifo!Write
  <2> QED
    BY <1>1, <1>2, <1>3, <1>4, <1>5, <2>1
<1>7. CASE HoldEnd
  <2>1. ended /\ flying' = flying /\ pending_end' = TRUE
    BY <1>7 DEF HoldEnd, fifoVars
  <2> QED
    BY <1>1, <1>2, <1>3, <1>4, <1>5, <2>1
<1>8. CASE WriteByte
  <2>1. ~ended /\ tx_valid /\ Fifo!WRdy /\ flying' = Append(flying, Head(offer))
    BY <1>8 DEF WriteByte, Fifo!Write
  <2>2. offer # <<>> /\ normal /\ utmi_ready
    BY <2>1 DEF tx_valid, utmi_ready, tx_ready
  <2>3. pending_end = FALSE /\ pending_end' = FALSE
    BY <1>1, <1>8, <2>1 DEF WriteByte, ended
  <2>4. HandOver
    BY <1>2, <2>2 DEF UsbEdge, NoHandOver
  <2>5. accepted' = Grown(accepted, begun, Head(offer)) /\ npackets' = npackets
    BY <1>1, <2>2, <2>4 DEF HandOver, Grown
  <2>6. begun' = TRUE
    BY <1>3, <2>1, <2>2
  <2> QED
    BY <1>2, <2>1, <2>2, <2>3, <2>5, <2>6
<1>9. CASE WriteNothing
  <2>1. ~ended /\ (tx_valid => ~Fifo!WRdy) /\ flying' = flying /\ pending_end' = pending_end
    BY <1>9 DEF WriteNothing, fifoVars
  <2>2. pending_end = FALSE /\ (prev_valid => tx_valid)
    BY <1>1, <2>1 DEF ended
  <2>3. accepted' = accepted /\ begun' = begun
    BY <1>1, <1>3, <1>5, <2>1, <2>2
  <2>4. begun => npackets' = npackets
    <3>1. begun => offer # <<>>
      BY <1>1, <2>2 DEF tx_valid
    <3> QED
      BY <1>2, <3>1 DEF UsbEdge, HandOver, NoHandOver
  <2> QED
    BY <1>2, <2>1, <2>2, <2>3, <2>4
<1> QED
  BY <1>6, <1>7, <1>8, <1>9 DEF UsbClock

(* What an edge of the transmit clock does: it takes a byte or an end marker,
   starts a packet, closes a starved one, or takes nothing. *)
LEMMA TxEdgeStep ==
  ASSUME TxInv, TxEdge
  PROVE  /\ UNCHANGED <<srcVars, bridgeVars>> /\ flying' = flying
         /\ sent' = IF state = "IDLE" THEN <<>> ELSE sent \o line'
         /\ head' = Shown(visible')
         /\ \/ /\ visible # <<>> /\ visible' = Tail(visible) /\ unseen' = unseen + 1
               /\ head \in Bytes /\ head = Head(visible) /\ TakeByte /\ state = "DATA"
               /\ onWire' = [onWire EXCEPT ![Len(onWire)] = Append(@, head)]
            \/ /\ visible # <<>> /\ visible' = Tail(visible) /\ unseen' = unseen + 1
               /\ head = EndMark /\ head = Head(visible)
               /\ TakeEnd \/ IdleClear
               /\ onWire' = onWire
            \/ /\ visible' = visible /\ unseen' = unseen /\ visible # <<>>
               /\ head \in Bytes /\ head = Head(visible) /\ IdleStart
               /\ onWire' = Append(onWire, <<>>)
            \/ /\ visible' = visible /\ unseen' = unseen
               /\ (IdleClear /\ head = NoEntry) \/ Coast \/ Starve
               /\ onWire' = onWire
<1>1. /\ visible \in Seq(Written) /\ head = Shown(visible)
  BY DEF TxInv, TxTypeOK
<1>2. /\ visible = <<>> <=> head = NoEntry
      /\ visible # <<>> => head = Head(visible) /\ head \in Written
  BY <1>1, ShownEntry
<1>3. EndMark \notin Bytes /\ NoEntry \notin Bytes /\ EndMark # NoEntry
  BY BytesAssumption, EntryAssumption
<1>4. /\ UNCHANGED <<srcVars, bridgeVars>> /\ head' = Shown(visible') /\ Next
      /\ sent' = IF state = "IDLE" THEN <<>> ELSE sent \o line'
      /\ onWire' = CASE state = "IDLE" /\ state' = "DATA" -> Append(onWire, <<>>)
                     [] byte_ready /\ head # EndMark ->
                          [onWire EXCEPT ![Len(onWire)] = Append(@, head)]
                     [] OTHER -> onWire
  BY DEF TxEdge
<1>5. byte_ready => /\ visible # <<>> /\ visible' = Tail(visible) /\ unseen' = unseen + 1
                    /\ flying' = flying
  BY <1>2 DEF TxEdge, Fifo!Read, Fifo!RRdy, byte_ready
<1>6. ~byte_ready => visible' = visible /\ unseen' = unseen /\ flying' = flying
  BY DEF TxEdge, fifoVars
<1>7. state = "IDLE" \/ state = "DATA"
  BY DEF TxInv, EncoderInv, TypeOK
<1>8. CASE TakeByte
  <2>1. byte_ready /\ state = "DATA" /\ head \in Bytes
    BY <1>3, <1>8 DEF TakeByte, byte_ready, MayRefill
  <2>2. onWire' = [onWire EXCEPT ![Len(onWire)] = Append(@, head)]
    BY <1>3, <1>4, <2>1
  <2> QED
    BY <1>2, <1>4, <1>5, <1>8, <2>1, <2>2
<1>9. CASE TakeEnd
  <2>1. byte_ready /\ state = "DATA" /\ head = EndMark
    BY <1>3, <1>9 DEF TakeEnd, byte_ready, MayRefill
  <2>2. onWire' = onWire
    BY <1>4, <2>1
  <2> QED
    BY <1>2, <1>4, <1>5, <1>9, <2>1, <2>2
<1>10. CASE IdleClear /\ head = EndMark
  <2>1. byte_ready /\ state = "IDLE" /\ state' = state
    BY <1>3, <1>10 DEF IdleClear, byte_ready
  <2>2. onWire' = onWire
    BY <1>4, <1>10, <2>1
  <2> QED
    BY <1>2, <1>4, <1>5, <1>10, <2>1, <2>2
<1>11. CASE IdleStart
  <2>1. ~byte_ready /\ state = "IDLE" /\ state' = "DATA" /\ head \in Bytes
    BY <1>3, <1>11 DEF IdleStart, byte_ready, MayRefill
  <2>2. onWire' = Append(onWire, <<>>)
    BY <1>4, <2>1
  <2> QED
    BY <1>2, <1>3, <1>4, <1>6, <1>11, <2>1, <2>2
<1>12. CASE (IdleClear /\ head # EndMark) \/ Coast \/ Starve
  <2>1. IdleClear => head \notin Bytes /\ state = "IDLE" /\ state' = "IDLE"
    BY DEF IdleClear
  <2>2. Starve => head = NoEntry /\ state = "DATA"
    BY DEF Starve, MayRefill
  <2>3. Coast => state = "DATA" /\ ~byte_ready
    <3>1. Coast => state = "DATA" /\ (ending \/ Len(queue) > REFILL_AT \/ head = NoEntry)
      BY DEF Coast
    <3>2. Len(queue) > REFILL_AT => ~(Len(queue) <= REFILL_AT)
      BY DEF TxInv, EncoderInv, TypeOK, REFILL_AT, QUEUE_BITS
    <3> QED
      BY <3>1, <3>2 DEF byte_ready, MayRefill
  <2>4. IdleClear => head = NoEntry
    BY <1>2, <1>12, <2>1, <2>2, <2>3 DEF Written
  <2>5. ~byte_ready
    BY <1>12, <2>2, <2>3, <2>4 DEF byte_ready
  <2>6. onWire' = onWire
    BY <1>4, <1>12, <2>1, <2>2, <2>3, <2>5
  <2> QED
    BY <1>4, <1>6, <1>12, <2>4, <2>5, <2>6
<1> QED
  BY <1>4, <1>8, <1>9, <1>10, <1>11, <1>12 DEF Next

\* The other steps: an entry or a slot gets across.
LEMMA CrossingStep ==
  ASSUME TxInv, ShowEntry \/ ShowSlot
  PROVE  /\ UNCHANGED <<srcVars, bridgeVars, encRegs, wireVars>>
         /\ visible' \in Seq(Written) /\ flying' \in Seq(Written) /\ unseen' \in Nat
         /\ visible' \o flying' = visible \o flying
         /\ head' = Shown(visible')
         /\ head # NoEntry => head' = head
<1>1. visible \in Seq(Written) /\ flying \in Seq(Written) /\ head = Shown(visible)
  BY DEF TxInv, TxTypeOK
<1>2. unseen \in Nat
  BY DEF TxInv, TxTypeOK
<1>3. CASE ShowEntry
  <2>1. /\ flying # <<>> /\ visible' = Append(visible, Head(flying)) /\ flying' = Tail(flying)
        /\ unseen' = unseen /\ head' = Shown(visible')
        /\ UNCHANGED <<srcVars, bridgeVars, encRegs, wireVars>>
    BY <1>3 DEF ShowEntry, Fifo!ShowEntry
  <2> DEFINE h == Head(flying)
             t == Tail(flying)
  <2>2. h \in Written /\ t \in Seq(Written) /\ flying = <<h>> \o t
    BY <1>1, <2>1, HeadTailProperties
  <2> HIDE DEF h, t
  <2>3. Append(visible, h) \in Seq(Written) /\ Append(visible, h) = visible \o <<h>>
    BY <1>1, <2>2, AppendProperties, AppendIsConcat
  <2>4. (visible \o <<h>>) \o t = visible \o (<<h>> \o t)
    <3>1. <<h>> \in Seq(Written)
      BY <2>2
    <3> QED
      BY <1>1, <2>2, <3>1, ConcatAssociative
  <2>5. visible' \o flying' = visible \o flying
    BY <2>1, <2>2, <2>3, <2>4 DEF h, t
  <2>6. head # NoEntry => head' = head
    <3> SUFFICES ASSUME visible # <<>> PROVE Shown(Append(visible, h)) = Shown(visible)
      BY <1>1, <2>1, ShownEntry DEF h
    <3>1. Head(Append(visible, h)) = Head(visible) /\ Append(visible, h) # <<>>
      BY <1>1, <2>2
    <3> QED
      BY <3>1 DEF Shown
  <2> QED
    BY <1>2, <2>1, <2>2, <2>3, <2>5, <2>6 DEF h, t
<1>4. CASE ShowSlot
  <2>1. /\ unseen > 0 /\ unseen' = unseen - 1 /\ UNCHANGED <<flying, visible>>
        /\ UNCHANGED <<srcVars, bridgeVars, vars, wireVars>>
    BY <1>4 DEF ShowSlot, Fifo!ShowSlot
  <2>2. UNCHANGED encRegs /\ head' = head
    BY <2>1 DEF vars
  <2> QED
    BY <1>1, <1>2, <2>1, <2>2
<1> QED
  BY <1>3, <1>4

\* The encoder's invariant does not depend on how its head gets there.
LEMMA EncoderHead ==
  ASSUME EncoderInv, UNCHANGED encRegs, head' \in Entries
  PROVE  EncoderInv'
BY DEF EncoderInv, TypeOK, QueueFits, NoHole, encRegs

\* Every edge of either clock, and every crossing, keeps the types and the encoder's invariant.
LEMMA TxNextInv == TxInv /\ [TxNext]_txVars => TxInv'
<1> SUFFICES ASSUME TxInv, [TxNext]_txVars PROVE TxInv'
  OBVIOUS
<1>0. TxTypeOK /\ EncoderInv
  BY DEF TxInv
<1>1. ASSUME UNCHANGED <<srcVars, bridgeVars, encRegs, wireVars>>,
             visible' \in Seq(Written), flying' \in Seq(Written), unseen' \in Nat,
             head' = Shown(visible')
      PROVE  TxInv'
  <2>1. head' \in Entries
    BY <1>1, ShownEntry
  <2>2. EncoderInv'
    BY <1>0, <1>1, <2>1, EncoderHead
  <2>3. TxTypeOK'
    BY <1>0, <1>1 DEF TxTypeOK, srcVars, bridgeVars, wireVars, encRegs
  <2> QED
    BY <2>2, <2>3 DEF TxInv
<1>2. CASE UsbClock
  <2>1. UsbEdge /\ UNCHANGED <<visible, unseen>>
    BY <1>0, <1>2, UsbClockStep
  <2>2. /\ op_mode' \in 0..3 /\ npackets' \in 0..MaxPackets
        /\ offer' \in Seq(Bytes) /\ (npackets' = 0 => offer' = <<>>)
        /\ npackets' # 0 => offer' \in Seq(Range(Payload(npackets', MaxLen)))
        /\ begun' \in BOOLEAN /\ prev_valid' \in BOOLEAN
        /\ accepted' \in Seq(Seq(Bytes))
        /\ begun' => accepted' # <<>> /\ prev_valid'
        /\ UNCHANGED <<vars, wireVars>>
    BY <1>0, <2>1, UsbEdgeTypes
  <2>3. flying' \in Seq(Written) /\ pending_end' \in BOOLEAN /\ (begun' => ~pending_end')
    <3>1. flying \in Seq(Written) /\ EndMark \in Written
      BY <1>0 DEF TxTypeOK, Written
    <3>2. offer # <<>> => Head(offer) \in Written
      BY <1>0 DEF TxTypeOK, Written
    <3>3. begun => ~pending_end
      BY <1>0 DEF TxTypeOK
    <3>4. \/ /\ flying' = Append(flying, EndMark) /\ pending_end' = FALSE /\ begun' = FALSE
          \/ /\ flying' = flying /\ pending_end' = TRUE /\ begun' = FALSE
          \/ /\ offer # <<>> /\ flying' = Append(flying, Head(offer)) /\ pending_end' = FALSE
          \/ /\ flying' = flying /\ pending_end' = FALSE
      BY <1>0, <1>2, UsbClockStep
    <3>5. flying' \in Seq(Written)
      BY <3>1, <3>2, <3>4, AppendProperties
    <3> QED
      BY <3>3, <3>4, <3>5
  <2>4. EncoderInv'
    BY <1>0, <2>2, EncoderNextInv
  <2>5. {prev_valid', pending_end', begun'} \subseteq BOOLEAN
    BY <2>2, <2>3
  <2>6. /\ visible' \in Seq(Written) /\ unseen' \in Nat
        /\ onWire' \in Seq(Seq(Bytes)) /\ sent' \in Seq(Bit) /\ head' = Shown(visible')
        /\ state' = "DATA" => onWire' # <<>>
    BY <1>0, <2>1, <2>2 DEF TxTypeOK, vars, encRegs, wireVars
  <2>7. TxTypeOK'
    BY <2>2, <2>3, <2>5, <2>6 DEF TxTypeOK
  <2> QED
    BY <2>4, <2>7 DEF TxInv
<1>3. CASE TxEdge
  <2>1. EncoderInv'
    <3>1. Next
      BY <1>3 DEF TxEdge
    <3> QED
      BY <1>0, <3>1, EncoderNextInv
  <2>2. /\ UNCHANGED <<srcVars, bridgeVars>> /\ flying' = flying
        /\ head' = Shown(visible')
        /\ sent' = IF state = "IDLE" THEN <<>> ELSE sent \o line'
    BY <1>3, TxEdgeStep
  <2>3. visible' \in Seq(Written) /\ unseen' \in Nat
    <3>1. \/ visible # <<>> /\ visible' = Tail(visible) /\ unseen' = unseen + 1
          \/ visible' = visible /\ unseen' = unseen
      BY <1>3, TxEdgeStep
    <3>2. visible \in Seq(Written) /\ unseen \in Nat
      BY <1>0 DEF TxTypeOK
    <3>3. visible # <<>> => Tail(visible) \in Seq(Written)
      BY <3>2, ShownEntry
    <3> QED
      BY <3>1, <3>2, <3>3
  <2>4. sent' \in Seq(Bit)
    <3>1. sent \in Seq(Bit) /\ line' \in Seq(Bit)
      BY <1>0, <2>1 DEF TxTypeOK, EncoderInv, TypeOK
    <3> QED
      BY <2>2, <3>1, ConcatProperties
  <2>5. onWire' \in Seq(Seq(Bytes)) /\ (state' = "DATA" => onWire' # <<>>)
    <3>1. onWire \in Seq(Seq(Bytes)) /\ (state = "DATA" => onWire # <<>>)
      BY <1>0 DEF TxTypeOK
    <3>2. \/ /\ head \in Bytes /\ state = "DATA"
             /\ onWire' = [onWire EXCEPT ![Len(onWire)] = Append(@, head)]
          \/ onWire' = Append(onWire, <<>>)
          \/ /\ onWire' = onWire
             /\ TakeEnd \/ IdleClear \/ Coast \/ Starve
      BY <1>3, TxEdgeStep
    <3>3. CASE /\ head \in Bytes /\ state = "DATA"
               /\ onWire' = [onWire EXCEPT ![Len(onWire)] = Append(@, head)]
      <4>1. onWire' \in Seq(Seq(Bytes)) /\ Len(onWire') = Len(onWire)
        BY <3>1, <3>3, FlattenGrow
      <4> QED
        BY <3>1, <3>3, <4>1
    <3>4. CASE onWire' = Append(onWire, <<>>)
      <4>1. <<>> \in Seq(Bytes)
        OBVIOUS
      <4> QED
        BY <3>1, <3>4, <4>1, AppendProperties
    <3>5. CASE onWire' = onWire /\ (TakeEnd \/ IdleClear \/ Coast \/ Starve)
      <4>1. state' = "DATA" => state = "DATA"
        BY <3>5 DEF TakeEnd, IdleClear, Coast, Starve, AppendEop, MayRefill
      <4> QED
        BY <3>1, <3>5, <4>1
    <3> QED
      BY <3>2, <3>3, <3>4, <3>5
  <2>6. TxTypeOK'
    BY <1>0, <2>2, <2>3, <2>4, <2>5 DEF TxTypeOK, srcVars, bridgeVars
  <2> QED
    BY <2>1, <2>6 DEF TxInv
<1>4. CASE ShowEntry \/ ShowSlot
  BY <1>1, <1>4, CrossingStep
<1>5. CASE UNCHANGED txVars
  <2>1. UNCHANGED <<srcVars, bridgeVars, encRegs, wireVars, visible, flying, unseen, head>>
    BY <1>5 DEF txVars, vars, fifoVars
  <2> QED
    BY <1>0, <1>1, <2>1 DEF TxTypeOK
<1> QED
  BY <1>2, <1>3, <1>4, <1>5 DEF TxNext

(* The encoder behind the FIFO, fed by the bridge, keeps its invariant: no word of
   line bits is ever short, no queue overflows, whenever the two clocks tick. *)
THEOREM TxInvariant == TxSpec => []TxInv
  BY TxInitInv, TxNextInv, PTL DEF TxSpec

-----------------------------------------------------------------------------
(* Nothing is lost. *)

\* What is left of an entry when end marks go.
CellOf == [e \in Written |-> IF e = EndMark THEN <<>> ELSE <<e>>]

\* A byte, or nothing.
LEMMA CellParts == Parts(CellOf, Written, Bytes)
<1>1. ASSUME NEW e \in Written PROVE (IF e = EndMark THEN <<>> ELSE <<e>>) \in Seq(Bytes)
  <2>1. e = EndMark \/ e \in Bytes
    BY DEF Written
  <2>2. <<>> \in Seq(Bytes) /\ (e \in Bytes => <<e>> \in Seq(Bytes))
    OBVIOUS
  <2> QED
    BY <2>1, <2>2
<1> QED
  BY <1>1 DEF CellOf, Parts

\* OnlyData puts what is left end to end.
LEMMA OnlyDataGathers ==
  ASSUME NEW s \in Seq(Written)
  PROVE  OnlyData(s) = Gather(CellOf, s) /\ OnlyData(s) \in Seq(Bytes)
<1> DEFINE f == [k \in DOMAIN s |-> IF s[k] = EndMark THEN <<>> ELSE <<s[k]>>]
           g == [k \in DOMAIN s |-> CellOf[s[k]]]
<1>1. \A k \in DOMAIN s : CellOf[s[k]] = IF s[k] = EndMark THEN <<>> ELSE <<s[k]>>
  BY DEF CellOf
<1>2. f = g
  BY <1>1
<1>3. OnlyData(s) = FlattenSeq(f) /\ Gather(CellOf, s) = FlattenSeq(g)
  BY Zenon DEF OnlyData, Gather
<1>4. Gather(CellOf, s) \in Seq(Bytes)
  BY CellParts, GatherType
<1> HIDE DEF f, g
<1> QED
  BY <1>2, <1>3, <1>4

\* No entries, no bytes.
LEMMA OnlyDataEmpty == OnlyData(<<>>) = <<>>
<1>1. Gather(CellOf, <<>>) = <<>>
  BY CellParts, GatherEmpty
<1>2. PICK s \in Seq(Written) : s = <<>>
  BY EmptySeq
<1>3. OnlyData(s) = Gather(CellOf, s)
  BY OnlyDataGathers
<1> QED
  BY <1>1, <1>2, <1>3

\* A byte stays, an end marker goes.
LEMMA OnlyDataAppend ==
  ASSUME NEW s \in Seq(Written), NEW e \in Written
  PROVE  OnlyData(Append(s, e)) = OnlyData(s) \o (IF e = EndMark THEN <<>> ELSE <<e>>)
<1>1. Append(s, e) \in Seq(Written) /\ CellOf[e] = IF e = EndMark THEN <<>> ELSE <<e>>
  BY AppendProperties DEF CellOf
<1>2. Gather(CellOf, Append(s, e)) = Gather(CellOf, s) \o CellOf[e]
  BY CellParts, GatherAppend
<1>3. OnlyData(Append(s, e)) = Gather(CellOf, Append(s, e)) /\ OnlyData(s) = Gather(CellOf, s)
  BY <1>1, OnlyDataGathers
<1> QED
  BY <1>1, <1>2, <1>3

\* The bytes of entries behind others come behind theirs.
LEMMA OnlyDataConcat ==
  ASSUME NEW s \in Seq(Written)
  PROVE  \A t \in Seq(Written) :
           /\ OnlyData(t) \in Seq(Bytes)
           /\ OnlyData(s \o t) = OnlyData(s) \o OnlyData(t)
<1> TAKE t \in Seq(Written)
<1>1. s \o t \in Seq(Written)
  BY ConcatProperties
<1>2. Gather(CellOf, s \o t) = Gather(CellOf, s) \o Gather(CellOf, t)
  BY CellParts, GatherConcat
<1>3. /\ OnlyData(s \o t) = Gather(CellOf, s \o t)
      /\ OnlyData(s) = Gather(CellOf, s) /\ OnlyData(t) = Gather(CellOf, t)
  BY <1>1, OnlyDataGathers
<1> QED
  BY <1>2, <1>3, OnlyDataGathers

\* The entry at the front of the FIFO is the first of its data, unless it is an end mark.
LEMMA OnlyDataHead ==
  ASSUME NEW s \in Seq(Written), NEW t \in Seq(Written), s # <<>>
  PROVE  OnlyData(s \o t) = (IF Head(s) = EndMark THEN <<>> ELSE <<Head(s)>>) \o OnlyData(Tail(s) \o t)
<1> DEFINE h == Head(s)
           u == Tail(s)
           c == IF h = EndMark THEN <<>> ELSE <<h>>
<1>1. h \in Written /\ u \in Seq(Written)
  BY HeadTailProperties
<1>2. Gather(CellOf, s) = CellOf[h] \o Gather(CellOf, u)
  BY CellParts, GatherHead
<1> HIDE DEF h, u
<1>3. OnlyData(s) = Gather(CellOf, s) /\ OnlyData(u) = Gather(CellOf, u) /\ CellOf[h] = c
  BY <1>1, OnlyDataGathers DEF CellOf
<1>4. OnlyData(s \o t) = OnlyData(s) \o OnlyData(t) /\ OnlyData(u \o t) = OnlyData(u) \o OnlyData(t)
  BY <1>1, OnlyDataConcat
<1>5. c \in Seq(Bytes)
  BY <1>1, <1>3, CellParts DEF Parts
<1>6. OnlyData(u) \in Seq(Bytes) /\ OnlyData(t) \in Seq(Bytes)
  BY <1>1, OnlyDataGathers
<1> HIDE DEF c
<1> DEFINE a == OnlyData(u)
           b == OnlyData(t)
<1>7. (c \o a) \o b = c \o (a \o b)
  <2>1. a \in Seq(Bytes) /\ b \in Seq(Bytes)
    BY <1>6
  <2> HIDE DEF a, b
  <2> QED
    BY <1>5, <2>1, ConcatAssociative
<1>8. OnlyData(s \o t) = c \o OnlyData(u \o t)
  BY <1>2, <1>3, <1>4, <1>7
<1> QED
  BY <1>8 DEF h, u, c

\* Whether a byte goes on with the last packet or starts one, it is one byte more in all.
LEMMA GrownFlattens ==
  ASSUME NEW packets \in Seq(Seq(Bytes)), NEW more \in BOOLEAN, more => packets # <<>>,
         NEW e \in Bytes
  PROVE  /\ Grown(packets, more, e) \in Seq(Seq(Bytes))
         /\ FlattenSeq(Grown(packets, more, e)) = FlattenSeq(packets) \o <<e>>
<1>1. CASE more
  <2>1. Grown(packets, more, e) = [packets EXCEPT ![Len(packets)] = Append(@, e)]
    BY <1>1 DEF Grown
  <2> QED
    BY <1>1, <2>1, FlattenGrow
<1>2. CASE ~more
  <2>1. Grown(packets, more, e) = Append(packets, <<e>>)
    BY <1>2 DEF Grown
  <2>2. <<e>> \in Seq(Bytes) /\ FlattenSeq(packets) \in Seq(Bytes)
    BY FlattenType
  <2>3. FlattenSeq(Append(packets, <<e>>)) = FlattenSeq(packets) \o <<e>>
    BY <2>2, FlattenAppend
  <2>4. Append(packets, <<e>>) \in Seq(Seq(Bytes))
    BY <2>2, AppendProperties
  <2> QED
    BY <2>1, <2>3, <2>4
<1> QED
  BY <1>1, <1>2

\* The bytes on the wire and in the FIFO are those handed over: half of NothingLostOrMerged.
NothingLost == FlattenSeq(onWire) \o OnlyData(Fifo!Contents) = FlattenSeq(accepted)

\* A step hands a byte over, moves one from the FIFO to the wire, or neither.
LEMMA NothingLostNext == TxInv /\ NothingLost /\ [TxNext]_txVars => NothingLost'
<1> SUFFICES ASSUME TxInv, NothingLost, [TxNext]_txVars PROVE NothingLost'
  OBVIOUS
<1>0. TxTypeOK
  BY DEF TxInv
<1> DEFINE w == FlattenSeq(onWire)
           a == FlattenSeq(accepted)
           d == OnlyData(visible \o flying)
<1>1. /\ visible \in Seq(Written) /\ flying \in Seq(Written) /\ visible \o flying \in Seq(Written)
      /\ onWire \in Seq(Seq(Bytes)) /\ accepted \in Seq(Seq(Bytes))
  BY <1>0, ConcatProperties DEF TxTypeOK
<1>2. w \in Seq(Bytes) /\ a \in Seq(Bytes) /\ d \in Seq(Bytes) /\ w \o d = a
  BY <1>1, FlattenType, OnlyDataConcat DEF NothingLost, Fifo!Contents
<1>3. EndMark \notin Bytes
  BY BytesAssumption, EntryAssumption
<1>4. NothingLost' <=> FlattenSeq(onWire') \o OnlyData(visible' \o flying') = FlattenSeq(accepted')
  BY DEF NothingLost, Fifo!Contents
<1>5. ASSUME NEW e \in Written, flying' = Append(flying, e), visible' = visible
      PROVE  OnlyData(visible' \o flying') = d \o (IF e = EndMark THEN <<>> ELSE <<e>>)
  <2>1. visible \o Append(flying, e) = Append(visible \o flying, e)
    <3>1. /\ Append(flying, e) = flying \o <<e>> /\ <<e>> \in Seq(Written)
          /\ Append(visible \o flying, e) = (visible \o flying) \o <<e>>
      BY <1>1, AppendIsConcat
    <3>2. visible \o (flying \o <<e>>) = (visible \o flying) \o <<e>>
      BY <1>1, <3>1, ConcatAssociative
    <3> QED
      BY <3>1, <3>2
  <2> QED
    BY <1>1, <1>5, <2>1, OnlyDataAppend
<1>6. ASSUME visible # <<>>, visible' = Tail(visible), flying' = flying
      PROVE  /\ OnlyData(visible' \o flying') \in Seq(Bytes)
             /\ d = (IF Head(visible) = EndMark THEN <<>> ELSE <<Head(visible)>>)
                      \o OnlyData(visible' \o flying')
  <2>1. Tail(visible) \in Seq(Written)
    BY <1>1, <1>6, ShownEntry
  <2>2. OnlyData(Tail(visible) \o flying) \in Seq(Bytes)
    BY <1>1, <2>1, ConcatProperties, OnlyDataConcat
  <2> QED
    BY <1>1, <1>6, <2>2, OnlyDataHead
<1>7. CASE UsbClock
  <2>1. UsbEdge /\ UNCHANGED <<visible, unseen>>
    BY <1>0, <1>7, UsbClockStep
  <2>2. onWire' = onWire
    BY <1>0, <2>1, UsbEdgeTypes DEF wireVars
  <2>3. CASE accepted' = accepted /\ flying' = flying
    BY <1>2, <1>4, <2>1, <2>2, <2>3
  <2>4. CASE accepted' = accepted /\ flying' = Append(flying, EndMark)
    <3>1. OnlyData(visible' \o flying') = d \o <<>>
      BY <1>5, <2>1, <2>4 DEF Written
    <3>2. d \o <<>> = d
      BY <1>2, ConcatEmptySeq
    <3> QED
      BY <1>2, <1>4, <2>2, <2>4, <3>1, <3>2
  <2>5. CASE /\ offer # <<>> /\ flying' = Append(flying, Head(offer))
             /\ accepted' = Grown(accepted, begun, Head(offer))
    <3> DEFINE h == Head(offer)
    <3>1. h \in Bytes /\ begun \in BOOLEAN /\ (begun => accepted # <<>>)
      BY <1>0, <2>5 DEF TxTypeOK
    <3>2. h \in Written /\ h # EndMark
      BY <1>3, <3>1 DEF Written
    <3>3. OnlyData(visible' \o flying') = d \o <<h>>
      BY <1>5, <2>1, <2>5, <3>2
    <3>4. FlattenSeq(accepted') = a \o <<h>>
      <4> HIDE DEF h
      <4>1. FlattenSeq(Grown(accepted, begun, h)) = FlattenSeq(accepted) \o <<h>>
        BY <1>1, <3>1, GrownFlattens
      <4> QED
        BY <2>5, <4>1 DEF h
    <3>5. w \o (d \o <<h>>) = (w \o d) \o <<h>>
      <4> HIDE DEF h
      <4>1. <<h>> \in Seq(Bytes)
        BY <3>1
      <4> QED
        BY <1>2, <4>1, ConcatAssociative
    <3> QED
      BY <1>2, <1>4, <2>2, <3>3, <3>4, <3>5
  <2> QED
    BY <1>0, <1>7, <2>3, <2>4, <2>5, UsbClockStep
<1>8. CASE TxEdge
  <2>1. accepted' = accepted /\ flying' = flying
    BY <1>8, TxEdgeStep DEF srcVars
  <2>2. CASE /\ visible # <<>> /\ visible' = Tail(visible) /\ head \in Bytes /\ head = Head(visible)
             /\ state = "DATA" /\ onWire' = [onWire EXCEPT ![Len(onWire)] = Append(@, head)]
    <3> DEFINE e == OnlyData(visible' \o flying')
    <3>1. d = <<head>> \o e /\ e \in Seq(Bytes) /\ <<head>> \in Seq(Bytes)
      BY <1>3, <1>6, <2>1, <2>2
    <3>2. FlattenSeq(onWire') = w \o <<head>>
      <4>1. onWire # <<>>
        BY <1>0, <2>2 DEF TxTypeOK
      <4> QED
        BY <1>1, <2>2, <4>1, FlattenGrow
    <3>3. (w \o <<head>>) \o e = w \o (<<head>> \o e)
      <4> HIDE DEF e
      <4> QED
        BY <1>2, <3>1, ConcatAssociative
    <3> QED
      BY <1>2, <1>4, <2>1, <3>1, <3>2, <3>3
  <2>3. CASE /\ visible # <<>> /\ visible' = Tail(visible) /\ head = EndMark /\ head = Head(visible)
             /\ onWire' = onWire
    <3>1. d = <<>> \o OnlyData(visible' \o flying') /\ OnlyData(visible' \o flying') \in Seq(Bytes)
      BY <1>6, <2>1, <2>3
    <3>2. d = OnlyData(visible' \o flying')
      BY <3>1, ConcatEmptySeq
    <3> QED
      BY <1>2, <1>4, <2>1, <2>3, <3>2
  <2>4. CASE visible' = visible /\ onWire' = Append(onWire, <<>>)
    <3>1. <<>> \in Seq(Bytes) /\ w \o <<>> = w
      BY <1>2, ConcatEmptySeq
    <3>2. FlattenSeq(onWire') = w
      BY <1>1, <1>2, <2>4, <3>1, FlattenAppend
    <3> QED
      BY <1>2, <1>4, <2>1, <2>4, <3>2
  <2>5. CASE visible' = visible /\ onWire' = onWire
    BY <1>2, <1>4, <2>1, <2>5
  <2> QED
    BY <1>8, <2>2, <2>3, <2>4, <2>5, TxEdgeStep
<1>9. CASE ShowEntry \/ ShowSlot
  <2>1. visible' \o flying' = visible \o flying /\ accepted' = accepted /\ onWire' = onWire
    BY <1>9, CrossingStep DEF srcVars, wireVars
  <2> QED
    BY <1>2, <1>4, <2>1
<1>10. CASE UNCHANGED txVars
  <2>1. UNCHANGED <<onWire, accepted, visible, flying>>
    BY <1>10 DEF txVars, srcVars, wireVars, fifoVars
  <2> QED
    BY <1>2, <1>4, <2>1
<1> QED
  BY <1>7, <1>8, <1>9, <1>10 DEF TxNext

-----------------------------------------------------------------------------
(* The packets on the wire are the source's.  What the FIFO holds is parsed
   behind the packets on the wire: a byte goes on with the open packet or starts
   one, an end mark closes it.  Every entry the encoder takes moves one packet
   boundary or byte from the parse to the wire, so the result stays the same. *)

\* What there is to parse behind: packets, the last of them open or not.
ParseStates == {y \in [packets : Seq(Seq(Bytes)), open : BOOLEAN] : y.open => y.packets # <<>>}

\* One entry goes through the parse.
Parsed(y, e) ==
  IF e = EndMark THEN [packets |-> y.packets, open |-> FALSE]
  ELSE [packets |-> Grown(y.packets, y.open, e), open |-> TRUE]

\* The same for a pair, as a fold takes it.
ParseStep == [p \in ParseStates \X Written |-> Parsed(p[1], p[2])]

\* All of the entries, oldest first.
Parse(y, entries) == Folded(ParseStep, y, entries)

\* The packets of Grown: the last one is longer, or there is one more.
LEMMA GrownPackets ==
  ASSUME NEW packets \in Seq(Seq(Bytes)), NEW more \in BOOLEAN, more => packets # <<>>,
         NEW e \in Bytes
  PROVE  LET g == Grown(packets, more, e)
             n == Len(packets)
         IN  /\ g \in Seq(Seq(Bytes)) /\ g # <<>>
             /\ Len(g) = IF more THEN n ELSE n + 1
             /\ \A k \in 1..n : k < n \/ ~more => g[k] = packets[k]
             /\ g[Len(g)] = IF more THEN Append(packets[n], e) ELSE <<e>>
<1> DEFINE g == Grown(packets, more, e)
           n == Len(packets)
<1>1. n \in Nat /\ DOMAIN packets = 1..n /\ (packets # <<>> => n > 0)
  BY EmptySeq
<1>2. CASE more
  <2>1. g = [packets EXCEPT ![n] = Append(packets[n], e)]
    BY <1>2 DEF Grown
  <2>2. g \in Seq(Seq(Bytes)) /\ n > 0
    BY <1>1, <1>2, GrownFlattens
  <2>3. DOMAIN g = 1..n /\ Len(g) \in Nat /\ DOMAIN g = 1..Len(g)
    BY <1>1, <2>1, <2>2
  <2>4. Len(g) = n
    BY <1>1, <2>2, <2>3
  <2>5. g[n] = Append(packets[n], e) /\ \A k \in 1..n : k < n => g[k] = packets[k]
    <3> HIDE DEF g, n
    <3> QED
      BY <1>1, <2>1, <2>2
  <2>6. g # <<>>
    BY <2>2, <2>4, EmptySeq
  <2> QED
    BY <1>1, <1>2, <2>2, <2>4, <2>5, <2>6
<1>3. CASE ~more
  <2>1. g = Append(packets, <<e>>) /\ <<e>> \in Seq(Bytes)
    BY <1>3 DEF Grown
  <2>2. /\ g \in Seq(Seq(Bytes)) /\ Len(g) = n + 1 /\ g[n + 1] = <<e>>
        /\ \A k \in 1..n : g[k] = packets[k]
    BY <1>1, <2>1, AppendProperties
  <2>3. g # <<>>
    BY <1>1, <2>2, EmptySeq
  <2> QED
    BY <1>1, <1>3, <2>2, <2>3
<1> QED
  BY <1>2, <1>3

\* A byte for an open packet goes to the end of the last one.
LEMMA GrownOpen ==
  ASSUME NEW packets \in Seq(Seq(Bytes)), packets # <<>>, NEW e \in Bytes
  PROVE  LET g == [packets EXCEPT ![Len(packets)] = Append(@, e)]
         IN  Len(g) = Len(packets) /\ g[Len(g)] = Append(packets[Len(packets)], e)
<1> DEFINE n == Len(packets)
           g == [packets EXCEPT ![n] = Append(packets[n], e)]
<1>1. n \in Nat /\ DOMAIN packets = 1..n /\ n > 0
  BY EmptySeq
<1>2. g \in Seq(Seq(Bytes))
  BY FlattenGrow
<1>3. DOMAIN g = 1..n /\ Len(g) \in Nat /\ DOMAIN g = 1..Len(g)
  BY <1>1, <1>2
<1>4. Len(g) = n
  BY <1>1, <1>2, <1>3
<1>5. g[n] = Append(packets[n], e)
  <2> HIDE DEF n
  <2> QED
    BY <1>1
<1> QED
  BY <1>4, <1>5

\* A parse of packets leaves packets, and one that is open exists.
LEMMA ParsedType ==
  ASSUME NEW y \in ParseStates, NEW e \in Written
  PROVE  Parsed(y, e) \in ParseStates /\ ParseStep[<<y, e>>] = Parsed(y, e)
<1>1. y.packets \in Seq(Seq(Bytes)) /\ y.open \in BOOLEAN /\ (y.open => y.packets # <<>>)
  BY DEF ParseStates
<1>2. Parsed(y, e) \in ParseStates
  <2>1. CASE e = EndMark
    BY <1>1, <2>1 DEF Parsed, ParseStates
  <2>2. CASE e # EndMark
    <3>1. e \in Bytes
      BY <2>2 DEF Written
    <3>2. Grown(y.packets, y.open, e) \in Seq(Seq(Bytes)) /\ Grown(y.packets, y.open, e) # <<>>
      BY <1>1, <3>1, GrownPackets
    <3> QED
      BY <2>2, <3>2 DEF Parsed, ParseStates
  <2> QED
    BY <2>1, <2>2
<1>3. <<y, e>> \in ParseStates \X Written /\ <<y, e>>[1] = y /\ <<y, e>>[2] = e
  OBVIOUS
<1> QED
  BY <1>2, <1>3 DEF ParseStep

\* One entry more is parsed behind the others.
LEMMA ParseAppend ==
  ASSUME NEW y \in ParseStates
  PROVE  /\ \A s \in Seq(Written) : Parse(y, s) \in ParseStates
         /\ \A s \in Seq(Written), e \in Written :
              Parse(y, Append(s, e)) = Parsed(Parse(y, s), e)
<1> DEFINE P == {s \in Seq(Written) : Parse(y, s) \in ParseStates}
<1>1. <<>> \in P
  BY FoldedEmpty DEF Parse
<1>2. \A s \in Seq(Written), e \in Written : Parse(y, Append(s, e)) = ParseStep[<<Parse(y, s), e>>]
  BY FoldedAppend DEF Parse
<1>3. ASSUME NEW s \in Seq(Written), NEW e \in Written, s \in P PROVE Append(s, e) \in P
  <2>1. Parse(y, s) \in ParseStates /\ Append(s, e) \in Seq(Written)
    BY <1>3, AppendProperties
  <2>2. ParseStep[<<Parse(y, s), e>>] \in ParseStates
    BY <2>1, ParsedType
  <2> QED
    BY <1>2, <2>1, <2>2
<1> HIDE DEF P
<1>4. Seq(Written) \subseteq P
  BY <1>1, <1>3, SeqInduction
<1>5. \A s \in Seq(Written) : Parse(y, s) \in ParseStates
  BY <1>4 DEF P
<1> QED
  BY <1>2, <1>5, ParsedType

\* The entry in front is parsed first.
LEMMA ParseHead ==
  ASSUME NEW y \in ParseStates, NEW s \in Seq(Written), s # <<>>
  PROVE  Parse(y, s) = Parse(Parsed(y, Head(s)), Tail(s))
<1>1. Head(s) \in Written
  OBVIOUS
<1>2. ParseStep[<<y, Head(s)>>] = Parsed(y, Head(s))
  BY <1>1, ParsedType
<1>3. Parse(y, s) = Folded(ParseStep, ParseStep[<<y, Head(s)>>], Tail(s))
  BY FoldedHead DEF Parse
<1> QED
  BY <1>2, <1>3 DEF Parse

\* z is y with more behind it: closed packets stay, the open one may go on.
Extends(y, z) ==
  /\ Len(y.packets) <= Len(z.packets)
  /\ \A k \in 1..Len(y.packets) :
       /\ Prefix(y.packets[k], z.packets[k])
       /\ k < Len(y.packets) \/ ~y.open => z.packets[k] = y.packets[k]
  /\ ~y.open /\ Len(z.packets) = Len(y.packets) => ~z.open

\* A byte more at its end keeps all prefixes of a packet.
LEMMA PrefixAppend ==
  ASSUME NEW s \in Seq(Bytes), NEW t \in Seq(Bytes), NEW e \in Bytes, Prefix(s, t)
  PROVE  Prefix(s, s) /\ Prefix(s, Append(t, e))
<1>1. /\ Append(t, e) \in Seq(Bytes) /\ Len(Append(t, e)) = Len(t) + 1
      /\ \A i \in 1..Len(t) : Append(t, e)[i] = t[i]
  BY AppendProperties
<1>2. Len(s) <= Len(t) /\ s = SubSeq(t, 1, Len(s)) /\ Len(s) \in Nat /\ Len(t) \in Nat
  BY DEF Prefix
<1>3. \A i \in 1..Len(s) : s[i] = t[i]
  BY <1>2
<1>4. SubSeq(s, 1, Len(s)) = s
  OBVIOUS
<1> DEFINE u == SubSeq(Append(t, e), 1, Len(s))
<1>5. u \in Seq(Bytes) /\ Len(u) = Len(s) /\ \A i \in 1..Len(s) : u[i] = Append(t, e)[i]
  BY <1>1, <1>2
<1>6. \A i \in 1..Len(s) : u[i] = s[i]
  BY <1>1, <1>2, <1>3, <1>5
<1> HIDE DEF u
<1>7. u = s
  BY <1>5, <1>6, SeqEqual
<1> QED
  BY <1>1, <1>2, <1>4, <1>7 DEF Prefix, u

\* What is parsed later only extends what is there.
LEMMA ParseExtends ==
  ASSUME NEW y \in ParseStates
  PROVE  \A s \in Seq(Written) : Extends(y, Parse(y, s))
<1> DEFINE P == {s \in Seq(Written) : Extends(y, Parse(y, s))}
<1>0. y.packets \in Seq(Seq(Bytes)) /\ y.open \in BOOLEAN /\ Len(y.packets) \in Nat
  BY DEF ParseStates
<1>1. <<>> \in P
  <2>1. \A k \in 1..Len(y.packets) : Prefix(y.packets[k], y.packets[k])
    <3> TAKE k \in 1..Len(y.packets)
    <3>1. y.packets[k] \in Seq(Bytes)
      BY <1>0
    <3> QED
      BY <3>1 DEF Prefix
  <2>2. Extends(y, y)
    BY <1>0, <2>1 DEF Extends
  <2> QED
    BY <2>2, FoldedEmpty DEF Parse
<1>2. ASSUME NEW s \in Seq(Written), NEW e \in Written, s \in P PROVE Append(s, e) \in P
  <2> DEFINE z == Parse(y, s)
             x == Parsed(z, e)
  <2>1. z \in ParseStates /\ x = Parse(y, Append(s, e)) /\ Append(s, e) \in Seq(Written)
    BY ParseAppend, AppendProperties
  <2>2. Extends(y, z)
    BY <1>2
  <2>3. z.packets \in Seq(Seq(Bytes)) /\ z.open \in BOOLEAN /\ (z.open => z.packets # <<>>)
    BY <2>1 DEF ParseStates
  <2> HIDE DEF z
  <2>4. CASE e = EndMark
    <3>1. x.packets = z.packets /\ x.open = FALSE
      BY <2>4 DEF Parsed
    <3> QED
      BY <2>1, <2>2, <3>1 DEF Extends
  <2>5. CASE e # EndMark
    <3> DEFINE n == Len(z.packets)
               g == Grown(z.packets, z.open, e)
    <3>1. e \in Bytes /\ x.packets = g /\ x.open = TRUE
      BY <2>5 DEF Parsed, Written
    <3>2. /\ n \in Nat /\ Len(g) = IF z.open THEN n ELSE n + 1
          /\ \A k \in 1..n : k < n \/ ~z.open => g[k] = z.packets[k]
          /\ g[Len(g)] = IF z.open THEN Append(z.packets[n], e) ELSE <<e>>
      BY <2>3, <3>1, GrownPackets
    <3> HIDE DEF n, g, x
    <3>3. Len(y.packets) <= Len(g) /\ (~y.open => Len(y.packets) < Len(g))
      BY <1>0, <2>2, <2>3, <3>2 DEF Extends, n
    <3>4. ASSUME NEW k \in 1..Len(y.packets)
          PROVE  /\ Prefix(y.packets[k], g[k])
                 /\ k < Len(y.packets) \/ ~y.open => g[k] = y.packets[k]
      <4>1. /\ k \in 1..n /\ Prefix(y.packets[k], z.packets[k])
            /\ k < Len(y.packets) \/ ~y.open => z.packets[k] = y.packets[k]
        BY <1>0, <2>2, <3>2 DEF Extends, n
      <4>2. CASE k < n \/ ~z.open
        BY <3>2, <4>1, <4>2
      <4>3. CASE k = n /\ z.open
        <5>1. g[k] = Append(z.packets[k], e)
          BY <3>2, <4>3
        <5>2. y.packets[k] \in Seq(Bytes) /\ z.packets[k] \in Seq(Bytes)
          BY <1>0, <2>3, <4>1 DEF n
        <5>3. Prefix(y.packets[k], g[k])
          BY <3>1, <4>1, <5>1, <5>2, PrefixAppend
        <5>4. k = Len(y.packets) /\ y.open
          BY <1>0, <2>2, <3>2, <4>3 DEF Extends, n
        <5> QED
          BY <1>0, <5>3, <5>4
      <4> QED
        BY <2>3, <3>2, <4>1, <4>2, <4>3
    <3>5. Extends(y, x)
      BY <1>0, <3>1, <3>2, <3>3, <3>4 DEF Extends
    <3> QED
      BY <2>1, <3>5 DEF x
  <2> QED
    BY <2>4, <2>5
<1> HIDE DEF P
<1>3. Seq(Written) \subseteq P
  BY <1>1, <1>2, SeqInduction
<1> QED
  BY <1>3 DEF P

\* The packets on the wire, and the ones there will be when the FIFO has been emptied.
Opened == [packets |-> onWire, open |-> state = "DATA" /\ ~ending]

\* What they will be when the encoder has taken all that the FIFO holds.
Promised == Parse(Opened, Fifo!Contents)

\* The promise is a parse like any other.
LEMMA PromisedType ==
  ASSUME TxInv
  PROVE  /\ Opened \in ParseStates /\ Promised \in ParseStates
         /\ Fifo!Contents \in Seq(Written) /\ Fifo!Contents = visible \o flying
<1>1. /\ onWire \in Seq(Seq(Bytes)) /\ (state = "DATA" => onWire # <<>>)
      /\ visible \in Seq(Written) /\ flying \in Seq(Written)
  BY DEF TxInv, TxTypeOK
<1>2. Fifo!Contents \in Seq(Written) /\ Fifo!Contents = visible \o flying
  BY <1>1, ConcatProperties DEF Fifo!Contents
<1>3. Opened \in ParseStates
  BY <1>1 DEF Opened, ParseStates
<1> QED
  BY <1>2, <1>3, ParseAppend DEF Promised

\* An entry written is parsed behind the rest.
LEMMA PromisedWritten ==
  ASSUME TxInv, NEW e \in Written,
         UNCHANGED <<state, ending, onWire, visible>>, flying' = Append(flying, e)
  PROVE  Promised' = Parsed(Promised, e)
<1>1. Opened' = Opened
  BY DEF Opened
<1>2. visible \in Seq(Written) /\ flying \in Seq(Written) /\ <<e>> \in Seq(Written)
  BY DEF TxInv, TxTypeOK
<1>3. Fifo!Contents' = Append(Fifo!Contents, e)
  <2>1. /\ Append(flying, e) = flying \o <<e>> /\ visible \o flying \in Seq(Written)
        /\ Append(visible \o flying, e) = (visible \o flying) \o <<e>>
    BY <1>2, AppendIsConcat, ConcatProperties
  <2>2. visible \o (flying \o <<e>>) = (visible \o flying) \o <<e>>
    BY <1>2, ConcatAssociative
  <2>3. Fifo!Contents' = visible \o Append(flying, e)
    BY DEF Fifo!Contents
  <2> QED
    BY <2>1, <2>2, <2>3 DEF Fifo!Contents
<1>4. Opened \in ParseStates /\ Fifo!Contents \in Seq(Written)
  BY PromisedType
<1>5. Parse(Opened, Append(Fifo!Contents, e)) = Parsed(Parse(Opened, Fifo!Contents), e)
  BY <1>4, ParseAppend
<1> QED
  BY <1>1, <1>3, <1>5 DEF Promised

\* An entry taken was parsed first: what is promised stays the same.
LEMMA PromisedTaken ==
  ASSUME TxInv, visible # <<>>, visible' = Tail(visible), flying' = flying,
         Opened' = Parsed(Opened, Head(visible))
  PROVE  Promised' = Promised
<1>1. visible \in Seq(Written) /\ flying \in Seq(Written)
  BY DEF TxInv, TxTypeOK
<1>2. Opened \in ParseStates
  BY PromisedType
<1> DEFINE s == visible \o flying
<1>3. s \in Seq(Written) /\ s # <<>> /\ Head(s) = Head(visible) /\ Tail(s) = Tail(visible) \o flying
  <2> DEFINE h == Head(visible)
             u == Tail(visible)
  <2>1. h \in Written /\ u \in Seq(Written) /\ visible = <<h>> \o u
    BY <1>1, HeadTailProperties
  <2> HIDE DEF h, u
  <2>2. <<h>> \in Seq(Written) /\ u \o flying \in Seq(Written) /\ Len(u \o flying) \in Nat
    BY <1>1, <2>1, ConcatProperties
  <2>3. s = <<h>> \o (u \o flying)
    BY <1>1, <2>1, <2>2, ConcatAssociative
  <2> DEFINE v == u \o flying
  <2> HIDE DEF v
  <2>4. <<h>> \o v # <<>> /\ Head(<<h>> \o v) = h /\ Tail(<<h>> \o v) = v
    BY <2>1, <2>2 DEF v
  <2> QED
    BY <2>1, <2>2, <2>3, <2>4, ConcatProperties DEF h, u, v
<1>4. Parse(Opened, s) = Parse(Parsed(Opened, Head(s)), Tail(s))
  <2> HIDE DEF s
  <2> QED
    BY <1>2, <1>3, ParseHead
<1>5. Promised = Parse(Opened, s)
  BY DEF Promised, Fifo!Contents
<1>6. Promised' = Parse(Opened', visible' \o flying')
  BY DEF Promised, Fifo!Contents
<1> QED
  BY <1>3, <1>4, <1>5, <1>6

\* A packet that has just been opened takes its first byte as a new one does.
LEMMA OpenedEmpty ==
  ASSUME NEW packets \in Seq(Seq(Bytes)), NEW e \in Bytes
  PROVE  /\ Parsed([packets |-> Append(packets, <<>>), open |-> TRUE], e)
              = Parsed([packets |-> packets, open |-> FALSE], e)
         /\ [packets |-> Append(packets, <<>>), open |-> TRUE] \in ParseStates
<1> DEFINE n == Len(packets)
           q == Append(packets, <<>>)
           g == Grown(q, TRUE, e)
           h == Append(packets, <<e>>)
<1>1. <<>> \in Seq(Bytes) /\ <<e>> \in Seq(Bytes) /\ n \in Nat /\ Append(<<>>, e) = <<e>>
  OBVIOUS
<1>2. /\ q \in Seq(Seq(Bytes)) /\ Len(q) = n + 1 /\ q[n + 1] = <<>>
      /\ \A k \in 1..n : q[k] = packets[k]
  BY <1>1, AppendProperties
<1>3. q # <<>>
  BY <1>1, <1>2, EmptySeq
<1>4. /\ h \in Seq(Seq(Bytes)) /\ Len(h) = n + 1 /\ h[n + 1] = <<e>>
      /\ \A k \in 1..n : h[k] = packets[k]
  BY <1>1, AppendProperties
<1> HIDE DEF q, h
<1>5. /\ g \in Seq(Seq(Bytes)) /\ Len(g) = Len(q)
      /\ \A k \in 1..Len(q) : k < Len(q) => g[k] = q[k]
      /\ g[Len(g)] = Append(q[Len(q)], e)
  BY <1>2, <1>3, GrownPackets
<1> HIDE DEF g, n
<1>6. Len(g) = n + 1 /\ g[n + 1] = <<e>> /\ \A k \in 1..n : g[k] = packets[k]
  <2>1. Len(g) = n + 1 /\ q[Len(q)] = <<>>
    BY <1>2, <1>5
  <2>2. g[n + 1] = <<e>>
    BY <1>1, <1>5, <2>1
  <2>3. \A k \in 1..n : k \in 1..Len(q) /\ k < Len(q)
    BY <1>1, <1>2
  <2> QED
    BY <1>2, <1>5, <2>1, <2>2, <2>3
<1>7. \A k \in 1..(n + 1) : g[k] = h[k]
  <2>1. \A k \in 1..(n + 1) : k \in 1..n \/ k = n + 1
    BY <1>1
  <2> QED
    BY <1>4, <1>6, <2>1
<1>8. g = h
  BY <1>4, <1>5, <1>6, <1>7, SeqEqual
<1>9. e # EndMark
  BY BytesAssumption, EntryAssumption
<1> QED
  BY <1>2, <1>3, <1>8, <1>9 DEF Parsed, Grown, g, h, q, ParseStates

(* What an edge of the transmit clock does to what is promised: nothing, but
   for a starved encoder that closes its packet by itself. *)
LEMMA PromisedTxEdge ==
  ASSUME TxInv, TxEdge
  PROVE  \/ Promised' = Promised /\ underrun' = underrun
         \/ /\ underrun' = TRUE /\ Fifo!Contents' = Fifo!Contents
            /\ Opened' = [packets |-> onWire, open |-> FALSE]
            /\ Opened = [packets |-> onWire, open |-> TRUE]
<1>1. flying' = flying
  BY TxEdgeStep
<1>2. EndMark \notin Bytes
  BY BytesAssumption, EntryAssumption
<1>3. ending \in BOOLEAN /\ onWire \in Seq(Seq(Bytes)) /\ visible \in Seq(Written)
  BY DEF TxInv, TxTypeOK, EncoderInv, TypeOK
<1>4. CASE /\ visible # <<>> /\ visible' = Tail(visible) /\ head \in Bytes /\ head = Head(visible)
           /\ TakeByte /\ onWire' = [onWire EXCEPT ![Len(onWire)] = Append(@, head)]
  <2>1. /\ state = "DATA" /\ ending = FALSE /\ state' = "DATA" /\ ending' = FALSE
        /\ underrun' = underrun
    BY <1>3, <1>4 DEF TakeByte, MayRefill
  <2>2. Opened' = Parsed(Opened, Head(visible))
    BY <1>2, <1>4, <2>1 DEF Opened, Parsed, Grown
  <2> QED
    BY <1>1, <1>4, <2>1, <2>2, PromisedTaken
<1>5. CASE /\ visible # <<>> /\ visible' = Tail(visible) /\ head = EndMark /\ head = Head(visible)
           /\ TakeEnd \/ IdleClear
           /\ onWire' = onWire
  <2>1. ~(state' = "DATA" /\ ~ending') /\ underrun' = underrun
    BY <1>5 DEF TakeEnd, IdleClear, AppendEop
  <2>2. Opened' = Parsed(Opened, Head(visible))
    BY <1>5, <2>1 DEF Opened, Parsed
  <2> QED
    BY <1>1, <1>5, <2>1, <2>2, PromisedTaken
<1>6. CASE /\ visible' = visible /\ visible # <<>> /\ head \in Bytes /\ head = Head(visible)
           /\ IdleStart /\ onWire' = Append(onWire, <<>>)
  <2>1. /\ Opened = [packets |-> onWire, open |-> FALSE] /\ underrun' = underrun
        /\ Opened' = [packets |-> Append(onWire, <<>>), open |-> TRUE]
    BY <1>6 DEF IdleStart, Opened
  <2>2. Opened' \in ParseStates /\ Parsed(Opened', head) = Parsed(Opened, head)
    BY <1>3, <1>6, <2>1, OpenedEmpty
  <2> DEFINE s == Fifo!Contents
  <2>3. s \in Seq(Written) /\ s # <<>> /\ Head(s) = head /\ Opened \in ParseStates
    <3>1. visible \in Seq(Written) /\ flying \in Seq(Written)
      BY DEF TxInv, TxTypeOK
    <3>2. Len(visible) > 0
      BY <1>6, <3>1, EmptySeq
    <3>3. visible \o flying # <<>> /\ Head(visible \o flying) = Head(visible)
      BY <3>1, <3>2, ConcatProperties
    <3> QED
      BY <1>6, <3>3, PromisedType
  <2> HIDE DEF s
  <2>4. /\ Parse(Opened, s) = Parse(Parsed(Opened, head), Tail(s))
        /\ Parse(Opened', s) = Parse(Parsed(Opened', head), Tail(s))
    BY <2>2, <2>3, ParseHead
  <2>5. s' = s
    BY <1>1, <1>6 DEF s, Fifo!Contents
  <2> QED
    BY <2>1, <2>2, <2>4, <2>5 DEF Promised, s
<1>7. CASE visible' = visible /\ onWire' = onWire /\ ((IdleClear /\ head = NoEntry) \/ Coast)
  <2>1. underrun' = underrun
    BY <1>7 DEF IdleClear, Coast
  <2>2. (state' = "DATA" /\ ~ending') = (state = "DATA" /\ ~ending)
    BY <1>7 DEF IdleClear, Coast, Drained
  <2>3. Opened' = Opened /\ Fifo!Contents' = Fifo!Contents
    BY <1>1, <1>7, <2>2 DEF Opened, Fifo!Contents
  <2> QED
    BY <2>1, <2>3 DEF Promised
<1>8. CASE visible' = visible /\ onWire' = onWire /\ Starve
  <2>1. /\ underrun' = TRUE /\ state = "DATA" /\ ending = FALSE /\ ending' = TRUE
    BY <1>3, <1>8 DEF Starve, MayRefill, AppendEop
  <2> QED
    BY <1>1, <1>8, <2>1 DEF Opened, Fifo!Contents
<1> QED
  BY <1>4, <1>5, <1>6, <1>7, <1>8, TxEdgeStep

-----------------------------------------------------------------------------
(* A starved encoder closes its packet early: the bytes behind it start a new
   packet, each packet is still part of one the source promised. *)

\* Every packet of z has no other bytes than one of y, its open packet than y's.
Splits(z, y) ==
  /\ \A k \in DOMAIN z.packets : \E j \in DOMAIN y.packets :
       Range(z.packets[k]) \subseteq Range(y.packets[j])
  /\ z.open => /\ y.open
               /\ Range(z.packets[Len(z.packets)]) \subseteq Range(y.packets[Len(y.packets)])

\* A byte more in a packet.
LEMMA RangeAppend ==
  ASSUME NEW s \in Seq(Bytes), NEW e \in Bytes
  PROVE  Range(Append(s, e)) = Range(s) \cup {e} /\ Range(<<e>>) = {e}
<1>1. /\ Append(s, e) \in Seq(Bytes) /\ DOMAIN s = 1..Len(s) /\ Len(s) \in Nat
      /\ DOMAIN Append(s, e) = 1..(Len(s) + 1) /\ Append(s, e)[Len(s) + 1] = e
      /\ \A i \in 1..Len(s) : Append(s, e)[i] = s[i]
  BY AppendProperties
<1> DEFINE t == Append(s, e)
<1> HIDE DEF t
<1>2. Range(t) \subseteq Range(s) \cup {e}
  <2> SUFFICES ASSUME NEW i \in DOMAIN t PROVE t[i] \in Range(s) \cup {e}
    BY DEF Range
  <2>1. i \in 1..Len(s) \/ i = Len(s) + 1
    BY <1>1 DEF t
  <2> QED
    BY <1>1, <2>1 DEF Range, t
<1>3. Range(s) \subseteq Range(t)
  <2> SUFFICES ASSUME NEW i \in DOMAIN s PROVE s[i] \in Range(t)
    BY DEF Range
  <2>1. i \in DOMAIN t /\ t[i] = s[i]
    BY <1>1 DEF t
  <2> QED
    BY <2>1 DEF Range
<1>4. e \in Range(t)
  <2>1. Len(s) + 1 \in DOMAIN t /\ t[Len(s) + 1] = e
    BY <1>1 DEF t
  <2> QED
    BY <2>1 DEF Range
<1>5. Range(<<e>>) = {e}
  <2>1. DOMAIN <<e>> = {1} /\ <<e>>[1] = e
    OBVIOUS
  <2> QED
    BY <2>1 DEF Range
<1> QED
  BY <1>2, <1>3, <1>4, <1>5 DEF t

\* An entry in both parses keeps the one a split of the other.
LEMMA ParsedSplits ==
  ASSUME NEW y \in ParseStates, NEW z \in ParseStates, Splits(z, y), NEW e \in Written
  PROVE  Splits(Parsed(z, e), Parsed(y, e))
<1>1. /\ y.packets \in Seq(Seq(Bytes)) /\ y.open \in BOOLEAN /\ (y.open => y.packets # <<>>)
      /\ z.packets \in Seq(Seq(Bytes)) /\ z.open \in BOOLEAN /\ (z.open => z.packets # <<>>)
  BY DEF ParseStates
<1>2. CASE e = EndMark
  BY <1>2 DEF Parsed, Splits
<1>3. CASE e # EndMark
  <2> DEFINE g == Grown(y.packets, y.open, e)
             h == Grown(z.packets, z.open, e)
             n == Len(y.packets)
             m == Len(z.packets)
  <2>1. e \in Bytes
    BY <1>3 DEF Written
  <2>2. /\ g \in Seq(Seq(Bytes)) /\ g # <<>> /\ n \in Nat
        /\ Len(g) = IF y.open THEN n ELSE n + 1
        /\ \A k \in 1..n : k < n \/ ~y.open => g[k] = y.packets[k]
        /\ g[Len(g)] = IF y.open THEN Append(y.packets[n], e) ELSE <<e>>
    <3>1. n \in Nat
      BY <1>1
    <3> QED
      BY <1>1, <2>1, <3>1, GrownPackets
  <2>3. /\ h \in Seq(Seq(Bytes)) /\ h # <<>> /\ m \in Nat
        /\ Len(h) = IF z.open THEN m ELSE m + 1
        /\ \A k \in 1..m : k < m \/ ~z.open => h[k] = z.packets[k]
        /\ h[Len(h)] = IF z.open THEN Append(z.packets[m], e) ELSE <<e>>
    <3>1. m \in Nat
      BY <1>1
    <3> QED
      BY <1>1, <2>1, <3>1, GrownPackets
  <2> HIDE DEF g, h
  <2>4. DOMAIN g = 1..Len(g) /\ DOMAIN h = 1..Len(h)
    BY <2>2, <2>3
  <2>5. n > 0 \/ ~y.open
    BY <1>1, EmptySeq
  <2>6. m > 0 \/ ~z.open
    BY <1>1, EmptySeq
  <2>7. \A j \in 1..n : j \in DOMAIN g /\ Range(y.packets[j]) \subseteq Range(g[j])
    <3> TAKE j \in 1..n
    <3>1. j \in DOMAIN g
      BY <2>2, <2>4
    <3>2. CASE j < n \/ ~y.open
      BY <2>2, <3>1, <3>2
    <3>3. CASE j = n /\ y.open
      <4>1. g[j] = Append(y.packets[j], e) /\ y.packets[j] \in Seq(Bytes)
        BY <1>1, <2>2, <3>3
      <4>2. Range(g[j]) = Range(y.packets[j]) \cup {e}
        BY <2>1, <4>1, RangeAppend
      <4> QED
        BY <3>1, <4>2
    <3>4. n \in Nat /\ j \in 1..n /\ y.open \in BOOLEAN
      BY <1>1, <2>2
    <3>5. (j < n \/ ~y.open) \/ (j = n /\ y.open)
      <4> HIDE DEF n
      <4>1. j < n \/ j = n
        BY <3>4
      <4> QED
        BY <4>1, <3>4
    <3> QED
      BY <3>2, <3>3, <3>5
  <2>8. /\ Len(g) \in DOMAIN g /\ e \in Range(g[Len(g)])
        /\ y.open => Range(g[Len(g)]) = Range(y.packets[n]) \cup {e}
    <3>1. Len(g) \in DOMAIN g
      BY <2>2, <2>4, <2>5
    <3>2. CASE y.open
      <4>1. n \in 1..n
        BY <2>2, <2>5, <3>2
      <4>2. y.packets[n] \in Seq(Bytes) /\ g[Len(g)] = Append(y.packets[n], e)
        BY <1>1, <2>2, <3>2, <4>1
      <4>3. Range(g[Len(g)]) = Range(y.packets[n]) \cup {e}
        BY <2>1, <4>2, RangeAppend
      <4> QED
        BY <3>1, <4>3
    <3>3. CASE ~y.open
      <4>1. g[Len(g)] = <<e>> /\ <<>> \in Seq(Bytes)
        BY <2>2, <3>3
      <4>2. Range(<<e>>) = {e}
        BY <2>1, <4>1, RangeAppend
      <4> QED
        BY <3>1, <3>3, <4>1, <4>2
    <3> QED
      BY <1>1, <3>2, <3>3
  <2>9. Range(h[Len(h)]) \subseteq Range(g[Len(g)])
    <3>1. CASE z.open
      <4>1. m \in 1..m
        BY <2>3, <2>6, <3>1
      <4>2. z.packets[m] \in Seq(Bytes) /\ h[Len(h)] = Append(z.packets[m], e)
        BY <1>1, <2>3, <3>1, <4>1
      <4>3. Range(h[Len(h)]) = Range(z.packets[m]) \cup {e}
        BY <2>1, <4>2, RangeAppend
      <4>4. y.open /\ Range(z.packets[m]) \subseteq Range(y.packets[n])
        BY <3>1 DEF Splits
      <4> QED
        BY <2>8, <4>3, <4>4
    <3>2. CASE ~z.open
      <4>1. h[Len(h)] = <<e>> /\ <<>> \in Seq(Bytes)
        BY <2>3, <3>2
      <4>2. Range(<<e>>) = {e}
        BY <2>1, <4>1, RangeAppend
      <4> QED
        BY <2>8, <4>1, <4>2
    <3> QED
      BY <1>1, <3>1, <3>2
  <2>10. ASSUME NEW k \in DOMAIN h PROVE \E j \in DOMAIN g : Range(h[k]) \subseteq Range(g[j])
    <3>1. CASE k = Len(h)
      BY <2>8, <2>9, <3>1
    <3>2. CASE k # Len(h)
      <4>1. k \in 1..m /\ h[k] = z.packets[k]
        <5>1. CASE z.open
          <6>1. Len(h) = m /\ k \in 1..Len(h)
            BY <2>3, <2>4, <5>1
          <6>2. k \in 1..m /\ k < m
            BY <2>3, <3>2, <6>1
          <6> QED
            BY <2>3, <6>2
        <5>2. CASE ~z.open
          BY <2>3, <2>4, <3>2, <5>2
        <5> QED
          BY <5>1, <5>2
      <4>2. DOMAIN z.packets = 1..m /\ DOMAIN y.packets = 1..n
        BY <1>1
      <4>3. PICK j \in 1..n : Range(z.packets[k]) \subseteq Range(y.packets[j])
        BY <4>1, <4>2 DEF Splits
      <4> QED
        BY <2>7, <4>1, <4>3
    <3> QED
      BY <3>1, <3>2
  <2>11. /\ Parsed(y, e) = [packets |-> g, open |-> TRUE]
         /\ Parsed(z, e) = [packets |-> h, open |-> TRUE]
    BY <1>3 DEF Parsed, g, h
  <2> QED
    BY <2>9, <2>10, <2>11 DEF Splits
<1> QED
  BY <1>2, <1>3

\* So do all entries of a FIFO.
LEMMA ParseSplits ==
  ASSUME NEW y \in ParseStates, NEW z \in ParseStates, Splits(z, y)
  PROVE  \A s \in Seq(Written) : Splits(Parse(z, s), Parse(y, s))
<1> DEFINE P == {s \in Seq(Written) : Splits(Parse(z, s), Parse(y, s))}
<1>1. <<>> \in P
  BY FoldedEmpty DEF Parse
<1>2. ASSUME NEW s \in Seq(Written), NEW e \in Written, s \in P PROVE Append(s, e) \in P
  <2> DEFINE a == Parse(y, s)
             b == Parse(z, s)
  <2>1. /\ a \in ParseStates /\ Parsed(a, e) = Parse(y, Append(s, e))
        /\ b \in ParseStates /\ Parsed(b, e) = Parse(z, Append(s, e))
    BY ParseAppend
  <2>2. Append(s, e) \in Seq(Written) /\ Splits(b, a)
    BY <1>2, AppendProperties
  <2> HIDE DEF a, b
  <2>3. Splits(Parsed(b, e), Parsed(a, e))
    BY <2>1, <2>2, ParsedSplits
  <2> QED
    BY <2>1, <2>2, <2>3
<1> HIDE DEF P
<1>3. Seq(Written) \subseteq P
  BY <1>1, <1>2, SeqInduction
<1> QED
  BY <1>3 DEF P

(* The promise: an encoder that never starved will have sent the source's
   packets when the FIFO has been emptied, and the last one is open for as long
   as the source is in it.  Starved or not, the packet is closed once the source
   has left it, no packet has bytes of two of the source's, and an open one has
   those of the packet being offered. *)
Promise ==
  /\ Promised.open => begun \/ pending_end
  /\ ~underrun => Promised.packets = accepted /\ (begun => Promised.open)
  /\ \A k \in DOMAIN Promised.packets : \E p \in 1..npackets :
       Range(Promised.packets[k]) \subseteq Range(Payload(p, MaxLen))
  /\ Promised.open /\ begun =>
       Range(Promised.packets[Len(Promised.packets)]) \subseteq Range(Payload(npackets, MaxLen))

\* Nothing is promised at reset.
LEMMA PromiseInit == TxInit => Promise
<1> SUFFICES ASSUME TxInit PROVE Promise
  OBVIOUS
<1>1. onWire = <<>> /\ accepted = <<>> /\ begun = FALSE /\ state = "IDLE"
  BY DEF TxInit, Init
<1>2. visible = <<>> /\ flying = <<>>
  BY DEF TxInit, Fifo!FifoInit
<1>3. Fifo!Contents = <<>>
  BY <1>2, ConcatEmptySeq DEF Fifo!Contents
<1>4. Promised = Opened
  BY <1>3, FoldedEmpty DEF Promised, Parse
<1>5. Promised.packets = <<>> /\ Promised.open = FALSE
  BY <1>1, <1>4 DEF Opened
<1>6. DOMAIN <<>> = {}
  OBVIOUS
<1> QED
  BY <1>1, <1>5, <1>6 DEF Promise

\* An edge of the usb clock: a byte or an end mark goes in, or neither, as the source says.
LEMMA PromiseUsbClock == TxInv /\ Promise /\ UsbClock => Promise'
<1> SUFFICES ASSUME TxInv, Promise, UsbClock PROVE Promise'
  OBVIOUS
<1> DEFINE y == Promised
           R(p) == Range(Payload(p, MaxLen))
<1>0. TxTypeOK
  BY DEF TxInv
<1>1. UsbEdge /\ UNCHANGED <<visible, unseen>>
  BY <1>0, UsbClockStep
<1>2. UNCHANGED <<vars, wireVars>>
  BY <1>0, <1>1, UsbEdgeTypes
<1>3. UNCHANGED <<state, ending, onWire, visible, underrun>>
  BY <1>1, <1>2 DEF vars, encRegs, wireVars
<1>4. npackets \in Nat /\ npackets' \in Nat /\ npackets <= npackets'
  <2>1. npackets' = npackets \/ npackets' = npackets + 1
    BY <1>1 DEF UsbEdge, HandOver, NoHandOver
  <2>2. npackets \in Nat
    BY <1>0 DEF TxTypeOK
  <2> QED
    BY <2>1, <2>2
<1>5. y \in ParseStates
  BY PromisedType
<1>6. /\ y.packets \in Seq(Seq(Bytes)) /\ y.open \in BOOLEAN /\ (y.open => y.packets # <<>>)
      /\ begun \in BOOLEAN /\ pending_end \in BOOLEAN
  BY <1>0, <1>5 DEF ParseStates, TxTypeOK
<1>7. /\ y.open => begun \/ pending_end
      /\ ~underrun => y.packets = accepted /\ (begun => y.open)
      /\ \A k \in DOMAIN y.packets : \E p \in 1..npackets : Range(y.packets[k]) \subseteq R(p)
      /\ y.open /\ begun => Range(y.packets[Len(y.packets)]) \subseteq R(npackets)
  BY DEF Promise
<1> DEFINE x == Promised'
<1>8. Promise' <=>
        /\ x.open => begun' \/ pending_end'
        /\ ~underrun' => x.packets = accepted' /\ (begun' => x.open)
        /\ \A k \in DOMAIN x.packets : \E p \in 1..npackets' : Range(x.packets[k]) \subseteq R(p)
        /\ x.open /\ begun' => Range(x.packets[Len(x.packets)]) \subseteq R(npackets')
  BY DEF Promise
<1>9. flying' = flying => x = y
  BY <1>3 DEF Promised, Opened, Fifo!Contents
<1>10. \A e \in Written : flying' = Append(flying, e) => x = Parsed(y, e)
  BY <1>3, PromisedWritten
<1> HIDE DEF x, y, R
<1>11. \A k \in DOMAIN y.packets : \E p \in 1..npackets' : Range(y.packets[k]) \subseteq R(p)
  <2>1. \A p \in 1..npackets : p \in 1..npackets'
    BY <1>4
  <2> QED
    BY <1>7, <2>1
<1>12. CASE /\ flying' = Append(flying, EndMark)
            /\ accepted' = accepted /\ begun' = FALSE
  <2>1. x.packets = y.packets /\ x.open = FALSE
    BY <1>10, <1>12 DEF Parsed, Written
  <2> QED
    BY <1>3, <1>7, <1>8, <1>11, <1>12, <2>1
<1>13. CASE /\ flying' = flying /\ pending_end' = TRUE
            /\ accepted' = accepted /\ begun' = FALSE
  BY <1>3, <1>7, <1>8, <1>9, <1>11, <1>13
<1>14. CASE /\ flying' = flying /\ pending_end = FALSE /\ pending_end' = FALSE
            /\ accepted' = accepted /\ begun' = begun
            /\ begun => npackets' = npackets
  BY <1>3, <1>7, <1>8, <1>9, <1>11, <1>14
<1>15. CASE /\ offer # <<>> /\ flying' = Append(flying, Head(offer))
            /\ pending_end = FALSE /\ pending_end' = FALSE
            /\ accepted' = Grown(accepted, begun, Head(offer))
            /\ begun' = TRUE /\ npackets' = npackets
  <2> DEFINE h == Head(offer)
             n == Len(y.packets)
             g == Grown(y.packets, y.open, h)
  <2>1. h \in Bytes /\ h \in R(npackets) /\ npackets \in 1..npackets
    <3>1. npackets # 0
      BY <1>0, <1>15 DEF TxTypeOK
    <3>2. offer \in Seq(Bytes) /\ offer \in Seq(R(npackets))
      BY <1>0, <3>1 DEF TxTypeOK, R
    <3> QED
      BY <1>4, <1>15, <3>1, <3>2
  <2> HIDE DEF h
  <2>2. h # EndMark /\ h \in Written
    BY <2>1, BytesAssumption, EntryAssumption DEF Written
  <2>3. x = [packets |-> g, open |-> TRUE]
    BY <1>10, <1>15, <2>2 DEF Parsed, h
  <2>4. n \in Nat /\ DOMAIN y.packets = 1..n /\ (y.open => n \in 1..n)
    BY <1>6, EmptySeq
  <2>5. /\ g \in Seq(Seq(Bytes))
        /\ Len(g) = IF y.open THEN n ELSE n + 1
        /\ \A k \in 1..n : k < n \/ ~y.open => g[k] = y.packets[k]
        /\ g[Len(g)] = IF y.open THEN Append(y.packets[n], h) ELSE <<h>>
    BY <1>6, <2>1, <2>4, GrownPackets
  <2>6. ~underrun => g = accepted'
    <3> SUFFICES ASSUME ~underrun PROVE g = accepted'
      OBVIOUS
    <3>1. y.packets = accepted /\ (begun => y.open)
      BY <1>7
    <3>2. y.open = begun
      BY <1>6, <1>7, <1>15, <3>1
    <3> QED
      BY <1>15, <3>1, <3>2 DEF g, h
  <2> HIDE DEF g, n
  <2>7. Range(g[Len(g)]) \subseteq R(npackets)
    <3>1. CASE y.open
      <4>1. begun
        BY <1>6, <1>7, <1>15, <3>1
      <4>2. Range(y.packets[n]) \subseteq R(npackets)
        BY <1>7, <3>1, <4>1 DEF n
      <4>3. y.packets[n] \in Seq(Bytes)
        BY <1>6, <2>4, <3>1
      <4>4. g[Len(g)] = Append(y.packets[n], h)
        BY <2>5, <3>1
      <4>5. Range(g[Len(g)]) = Range(y.packets[n]) \cup {h}
        BY <2>1, <4>3, <4>4, RangeAppend
      <4> QED
        BY <2>1, <4>2, <4>5
    <3>2. CASE ~y.open
      <4>1. g[Len(g)] = <<h>> /\ <<>> \in Seq(Bytes)
        BY <2>5, <3>2
      <4>2. Range(<<h>>) = {h}
        BY <2>1, <4>1, RangeAppend
      <4> QED
        BY <2>1, <4>1, <4>2
    <3> QED
      BY <1>6, <3>1, <3>2
  <2>8. \A k \in DOMAIN g : \E p \in 1..npackets : Range(g[k]) \subseteq R(p)
    <3> TAKE k \in DOMAIN g
    <3>1. DOMAIN g = 1..Len(g)
      BY <2>5
    <3>2. CASE k = Len(g)
      BY <2>1, <2>7, <3>2
    <3>3. CASE k # Len(g)
      <4>1. k \in 1..n /\ g[k] = y.packets[k]
        BY <2>4, <2>5, <3>1, <3>3
      <4> QED
        BY <1>7, <2>4, <4>1
    <3> QED
      BY <3>2, <3>3
  <2>9. x.packets = g /\ x.open = TRUE
    BY <2>3
  <2> QED
    BY <1>3, <1>8, <1>15, <2>6, <2>7, <2>8, <2>9
<1> QED
  BY <1>0, <1>12, <1>13, <1>14, <1>15, UsbClockStep

\* The promise is kept by every step: an edge of the transmit clock only splits packets.
LEMMA PromiseNext == TxInv /\ Promise /\ [TxNext]_txVars => Promise'
<1> SUFFICES ASSUME TxInv, Promise, [TxNext]_txVars PROVE Promise'
  OBVIOUS
<1>1. ASSUME Promised' = Promised, UNCHANGED <<underrun, srcVars, bridgeVars>>
      PROVE  Promise'
  BY <1>1 DEF Promise, srcVars, bridgeVars
<1>2. CASE UsbClock
  BY <1>2, PromiseUsbClock
<1>3. CASE TxEdge
  <2>1. UNCHANGED <<srcVars, bridgeVars>>
    BY <1>3 DEF TxEdge
  <2>2. CASE Promised' = Promised /\ underrun' = underrun
    BY <1>1, <2>1, <2>2
  <2>3. CASE /\ underrun' = TRUE /\ Fifo!Contents' = Fifo!Contents
             /\ Opened' = [packets |-> onWire, open |-> FALSE]
             /\ Opened = [packets |-> onWire, open |-> TRUE]
    <3> DEFINE a == [packets |-> onWire, open |-> TRUE]
               b == [packets |-> onWire, open |-> FALSE]
               s == Fifo!Contents
               y == Parse(a, s)
               z == Parse(b, s)
    <3>1. a \in ParseStates /\ s \in Seq(Written) /\ onWire \in Seq(Seq(Bytes))
      BY <2>3, PromisedType DEF TxInv, TxTypeOK
    <3>2. b \in ParseStates
      BY <3>1 DEF ParseStates
    <3>3. Splits(b, a)
      BY DEF Splits
    <3>4. Promised = y /\ Promised' = z
      BY <2>3 DEF Promised
    <3> HIDE DEF a, b, s
    <3>5. Splits(z, y)
      BY <3>1, <3>2, <3>3, ParseSplits
    <3> HIDE DEF y, z
    <3>6. /\ y.open => begun \/ pending_end
          /\ \A k \in DOMAIN y.packets : \E p \in 1..npackets :
               Range(y.packets[k]) \subseteq Range(Payload(p, MaxLen))
          /\ y.open /\ begun =>
               Range(y.packets[Len(y.packets)]) \subseteq Range(Payload(npackets, MaxLen))
      BY <3>4 DEF Promise
    <3>7. /\ z.open => begun \/ pending_end
          /\ z.open /\ begun =>
               Range(z.packets[Len(z.packets)]) \subseteq Range(Payload(npackets, MaxLen))
      BY <3>5, <3>6 DEF Splits
    <3>8. \A k \in DOMAIN z.packets : \E p \in 1..npackets :
               Range(z.packets[k]) \subseteq Range(Payload(p, MaxLen))
      <4> TAKE k \in DOMAIN z.packets
      <4>1. PICK j \in DOMAIN y.packets : Range(z.packets[k]) \subseteq Range(y.packets[j])
        BY <3>5 DEF Splits
      <4>2. PICK p \in 1..npackets : Range(y.packets[j]) \subseteq Range(Payload(p, MaxLen))
        BY <3>6
      <4> QED
        BY <4>1, <4>2
    <3> QED
      BY <2>1, <2>3, <3>4, <3>7, <3>8 DEF Promise, srcVars, bridgeVars
  <2> QED
    BY <1>3, <2>2, <2>3, PromisedTxEdge
<1>4. CASE ShowEntry \/ ShowSlot
  <2>1. /\ UNCHANGED <<srcVars, bridgeVars, encRegs, wireVars>>
        /\ visible' \o flying' = visible \o flying
    BY <1>4, CrossingStep
  <2>2. Promised' = Promised /\ underrun' = underrun
    BY <2>1 DEF encRegs, wireVars, Promised, Opened, Fifo!Contents
  <2> QED
    BY <1>1, <2>1, <2>2
<1>5. CASE UNCHANGED txVars
  <2>1. UNCHANGED <<srcVars, bridgeVars, encRegs, wireVars, visible, flying>>
    BY <1>5 DEF txVars, vars, fifoVars
  <2>2. Promised' = Promised /\ underrun' = underrun
    BY <2>1 DEF encRegs, wireVars, Promised, Opened, Fifo!Contents
  <2> QED
    BY <1>1, <2>1, <2>2
<1> QED
  BY <1>2, <1>3, <1>4, <1>5 DEF TxNext

\* What is on the wire is the beginning of what is promised.
LEMMA PromiseFollows == TxInv /\ Promise => WireFollowsSource
<1> SUFFICES ASSUME TxInv, Promise, ~underrun, NEW k \in DOMAIN onWire
             PROVE  /\ k \in DOMAIN accepted /\ Prefix(onWire[k], accepted[k])
                    /\ (k < Len(onWire) \/ ending) => onWire[k] = accepted[k]
  BY DEF WireFollowsSource
<1> DEFINE y == Promised
<1>1. y.packets = accepted
  BY DEF Promise
<1>2. Opened \in ParseStates /\ Fifo!Contents \in Seq(Written)
  BY PromisedType
<1>3. Extends(Opened, y)
  BY <1>2, ParseExtends DEF Promised
<1>4. Opened.packets = onWire /\ (ending => ~Opened.open)
  BY DEF Opened
<1>5. onWire \in Seq(Seq(Bytes)) /\ accepted \in Seq(Seq(Bytes))
  BY DEF TxInv, TxTypeOK
<1> HIDE DEF y
<1>6. k \in 1..Len(onWire) /\ Len(onWire) <= Len(accepted) /\ DOMAIN accepted = 1..Len(accepted)
  BY <1>1, <1>3, <1>4, <1>5 DEF Extends
<1>7. /\ Prefix(onWire[k], accepted[k])
      /\ (k < Len(onWire) \/ ending) => accepted[k] = onWire[k]
  BY <1>1, <1>3, <1>4, <1>6 DEF Extends
<1> QED
  BY <1>5, <1>6, <1>7

\* A prefix has no other elements.
LEMMA PrefixRange ==
  ASSUME NEW s \in Seq(Bytes), NEW t \in Seq(Bytes), Prefix(s, t)
  PROVE  Range(s) \subseteq Range(t)
<1>1. Len(s) <= Len(t) /\ s = SubSeq(t, 1, Len(s)) /\ Len(s) \in Nat /\ Len(t) \in Nat
  BY DEF Prefix
<1>2. \A i \in 1..Len(s) : s[i] = t[i] /\ i \in DOMAIN t
  BY <1>1
<1> QED
  BY <1>2 DEF Range

\* Each packet on the wire is part of one that is promised, which has the bytes of one source packet.
LEMMA PromiseKeepsApart == TxInv /\ NothingLost /\ Promise => NothingLostOrMerged
<1> SUFFICES ASSUME TxInv, NothingLost, Promise, NEW k \in DOMAIN onWire
             PROVE  \E p \in 1..npackets : onWire[k] \in Seq(Range(Payload(p, MaxLen)))
  BY DEF NothingLostOrMerged, NothingLost
<1> DEFINE y == Promised
<1>1. Opened \in ParseStates /\ Fifo!Contents \in Seq(Written) /\ y \in ParseStates
  BY PromisedType
<1>2. Extends(Opened, y)
  BY <1>1, ParseExtends DEF Promised
<1>3. Opened.packets = onWire
  BY DEF Opened
<1>4. onWire \in Seq(Seq(Bytes)) /\ y.packets \in Seq(Seq(Bytes))
  BY <1>1 DEF TxInv, TxTypeOK, ParseStates
<1>5. \A j \in DOMAIN y.packets : \E p \in 1..npackets :
        Range(y.packets[j]) \subseteq Range(Payload(p, MaxLen))
  BY DEF Promise
<1> HIDE DEF y
<1>6. k \in 1..Len(onWire) /\ k \in DOMAIN y.packets
  BY <1>2, <1>3, <1>4 DEF Extends
<1>7. Prefix(onWire[k], y.packets[k])
  BY <1>2, <1>3, <1>6 DEF Extends
<1>8. onWire[k] \in Seq(Bytes) /\ y.packets[k] \in Seq(Bytes)
  BY <1>4, <1>6
<1>9. Range(onWire[k]) \subseteq Range(y.packets[k])
  BY <1>7, <1>8, PrefixRange
<1>10. PICK p \in 1..npackets : Range(y.packets[k]) \subseteq Range(Payload(p, MaxLen))
  BY <1>5, <1>6
<1> DEFINE R == Range(Payload(p, MaxLen))
<1>11. Range(onWire[k]) \subseteq R
  BY <1>9, <1>10
<1> HIDE DEF R
<1>12. \A i \in 1..Len(onWire[k]) : onWire[k][i] \in R
  BY <1>8, <1>11 DEF Range
<1>13. onWire[k] \in Seq(R)
  BY <1>8, <1>12
<1> QED
  BY <1>13 DEF R

(* An encoder that has never starved sends the packets of the source: the same
   bytes, boundaries and order, for any depth of the FIFO, any packets, changes of
   mode in mid-packet and any phase of the two clocks. *)
THEOREM WireFollows == TxSpec => []WireFollowsSource
<1>1. TxInit => TxInv /\ Promise
  BY TxInitInv, PromiseInit
<1>2. TxInv /\ Promise /\ [TxNext]_txVars => (TxInv /\ Promise)'
  BY TxNextInv, PromiseNext
<1>3. TxInv /\ Promise => WireFollowsSource
  BY PromiseFollows
<1> QED
  BY <1>1, <1>2, <1>3, PTL DEF TxSpec

\* Out of reset nothing has been accepted.
LEMMA NothingLostInit == TxInit => NothingLost
<1>1. TxInit => FlattenSeq(onWire) \o OnlyData(Fifo!Contents) = FlattenSeq(accepted)
  <2> SUFFICES ASSUME TxInit
               PROVE  FlattenSeq(onWire) \o OnlyData(Fifo!Contents) = FlattenSeq(accepted)
    OBVIOUS
  <2>1. onWire = <<>> /\ accepted = <<>> /\ visible = <<>> /\ flying = <<>>
    BY DEF TxInit, Fifo!FifoInit
  <2>2. <<>> \in Seq(Bytes) /\ <<>> \o <<>> = <<>>
    BY ConcatEmptySeq
  <2>3. Fifo!Contents = <<>>
    BY <2>1, <2>2 DEF Fifo!Contents
  <2> QED
    BY <2>1, <2>2, <2>3, OnlyDataEmpty, FlattenEmpty
<1> QED
  BY <1>1 DEF NothingLost

(* Starved or not, every byte handed over in normal mode is on the wire or in the
   FIFO, once and in order, and no packet on the wire has bytes of two of the
   source's. *)
THEOREM NothingIsLost == TxSpec => []NothingLostOrMerged
<1>1. TxInit => TxInv /\ Promise /\ NothingLost
  BY TxInitInv, PromiseInit, NothingLostInit
<1>2. TxInv /\ Promise /\ NothingLost /\ [TxNext]_txVars => (TxInv /\ Promise /\ NothingLost)'
  BY TxNextInv, PromiseNext, NothingLostNext
<1>3. TxInv /\ Promise /\ NothingLost => NothingLostOrMerged
  BY PromiseKeepsApart
<1> QED
  BY <1>1, <1>2, <1>3, PTL DEF TxSpec

-----------------------------------------------------------------------------
(* The bits on the line are the packet's. *)

\* The first i bits of a sequence of bits.
LEMMA FirstBits ==
  ASSUME NEW bits \in Seq(Bit), NEW i \in 0..Len(bits)
  PROVE  LET s == SubSeq(bits, 1, i)
         IN  s \in Seq(Bit) /\ Len(s) = i /\ \A j \in 1..i : s[j] = bits[j]
  OBVIOUS

\* A byte through the encoder's chain is its eight bits through the reference stuffer.
LEMMA StuffByteIs ==
  ASSUME NEW bits \in Seq(Bit), NEW byte \in Byte,
         NEW old, old = Stuffer(bits)
  PROVE  Stuffer(bits \o byte) = Behind(old.bits, StuffByte(old.run, byte))
<1> DEFINE s0 == [bits |-> <<>>, run |-> old.run]
           s1 == StuffBit(s0, byte[1])
           s2 == StuffBit(s1, byte[2])
           s3 == StuffBit(s2, byte[3])
           s4 == StuffBit(s3, byte[4])
           s5 == StuffBit(s4, byte[5])
           s6 == StuffBit(s5, byte[6])
           s7 == StuffBit(s6, byte[7])
           s8 == StuffBit(s7, byte[8])
           At(i) == bits \o SubSeq(byte, 1, i)
           Is(i, s) == s \in StuffStates /\ Stuffer(At(i)) = Behind(old.bits, s)
<1>1. /\ byte \in Seq(Bit) /\ Len(byte) = 8 /\ \A i \in 1..8 : byte[i] \in Bit
      /\ old \in StuffStates /\ old.bits \in Seq(Bit) /\ old.run \in 0..5
  <2>1. old \in StuffStates
    BY StufferType
  <2> QED
    BY <2>1, ByteBits DEF StuffStates, STUFF_RUN
<1>2. Is(0, s0)
  <2>1. SubSeq(byte, 1, 0) = <<>> /\ bits \o <<>> = bits /\ old.bits \o <<>> = old.bits
    BY <1>1, ConcatEmptySeq
  <2>2. Behind(old.bits, s0) = old
    <3>1. Behind(old.bits, s0) = [bits |-> old.bits, run |-> old.run]
      BY <2>1 DEF Behind
    <3> QED
      BY <1>1, <3>1 DEF StuffStates
  <2>3. s0 \in StuffStates
    BY <1>1 DEF StuffStates, STUFF_RUN
  <2> QED
    BY <2>1, <2>2, <2>3
<1>3. ASSUME NEW i \in 0..7, NEW s, Is(i, s)
      PROVE  Is(i + 1, StuffBit(s, byte[i + 1]))
  <2> DEFINE a == At(i)
             b == At(i + 1)
             d == byte[i + 1]
             m == Len(bits)
  <2>1. /\ SubSeq(byte, 1, i) \in Seq(Bit) /\ Len(SubSeq(byte, 1, i)) = i
        /\ \A j \in 1..i : SubSeq(byte, 1, i)[j] = byte[j]
        /\ SubSeq(byte, 1, i + 1) \in Seq(Bit) /\ Len(SubSeq(byte, 1, i + 1)) = i + 1
        /\ \A j \in 1..(i + 1) : SubSeq(byte, 1, i + 1)[j] = byte[j]
    <3>1. i \in 0..Len(byte) /\ i + 1 \in 0..Len(byte)
      BY <1>1
    <3> QED
      BY <1>1, <3>1, FirstBits
  <2> DEFINE u == SubSeq(byte, 1, i)
             v == SubSeq(byte, 1, i + 1)
  <2>2. d \in Bit /\ m \in Nat
    <3>1. i + 1 \in 1..8
      OBVIOUS
    <3>2. d \in Bit
      BY <1>1, <3>1
    <3>3. m \in Nat
      BY <1>1
    <3> QED
      BY <3>2, <3>3
  <2> HIDE DEF u, v
  <2>3. /\ Len(bits \o u) = m + i /\ Len(bits \o v) = m + i + 1
        /\ \A j \in 1..(m + i) : (bits \o u)[j] = IF j <= m THEN bits[j] ELSE u[j - m]
        /\ \A j \in 1..(m + i + 1) : (bits \o v)[j] = IF j <= m THEN bits[j] ELSE v[j - m]
    BY <2>1, <2>2, ConcatProperties DEF u, v
  <2>4. \A j \in 1..(m + i) : (bits \o u)[j] = (bits \o v)[j]
    <3> TAKE j \in 1..(m + i)
    <3>1. CASE j <= m
      BY <2>2, <2>3, <3>1
    <3>2. CASE j > m
      <4>1. j - m \in 1..i /\ j - m \in 1..(i + 1)
        BY <2>2, <3>2
      <4> QED
        BY <2>1, <2>2, <2>3, <3>2, <4>1 DEF u, v
    <3>3. j <= m \/ j > m
      BY <2>2
    <3> QED
      BY <3>1, <3>2, <3>3
  <2>5. (bits \o v)[m + i + 1] = d
    <3>1. m + i + 1 \in 1..(m + i + 1) /\ ~(m + i + 1 <= m) /\ (m + i + 1) - m = i + 1
      BY <2>2
    <3>2. (bits \o v)[m + i + 1] = v[i + 1]
      BY <2>3, <3>1
    <3> QED
      BY <2>1, <3>2 DEF v
  <2>6. Stuffer(bits \o v) = StuffBit(Stuffer(bits \o u), d)
    <3> HIDE DEF d
    <3>1. m + i \in Nat
      BY <2>2
    <3> QED
      BY <2>3, <2>4, <2>5, <3>1, StufferNext
  <2>7. s \in StuffStates /\ Stuffer(bits \o u) = Behind(old.bits, s)
    BY <1>3 DEF u
  <2>8. StuffBit(s, d) \in StuffStates
    BY <2>2, <2>7, StuffBitType
  <2>9. StuffBit(Behind(old.bits, s), d) = Behind(old.bits, StuffBit(s, d))
    BY <1>1, <2>2, <2>7, StuffBehind
  <2> QED
    BY <2>6, <2>7, <2>8, <2>9 DEF v
<1> HIDE DEF Is
<1>11. StuffByte(old.run, byte) = s8
  BY DEF StuffByte
<1> HIDE DEF s0, s1, s2, s3, s4, s5, s6, s7, s8
<1>4. Is(1, s1)
  <2>1. Is(0 + 1, StuffBit(s0, byte[0 + 1]))
    BY <1>2, <1>3
  <2> QED
    BY <2>1 DEF s1
<1>5. Is(2, s2)
  <2>1. Is(1 + 1, StuffBit(s1, byte[1 + 1]))
    BY <1>4, <1>3
  <2> QED
    BY <2>1 DEF s2
<1>6. Is(3, s3)
  <2>1. Is(2 + 1, StuffBit(s2, byte[2 + 1]))
    BY <1>5, <1>3
  <2> QED
    BY <2>1 DEF s3
<1>7. Is(4, s4)
  <2>1. Is(3 + 1, StuffBit(s3, byte[3 + 1]))
    BY <1>6, <1>3
  <2> QED
    BY <2>1 DEF s4
<1>8. Is(5, s5)
  <2>1. Is(4 + 1, StuffBit(s4, byte[4 + 1]))
    BY <1>7, <1>3
  <2> QED
    BY <2>1 DEF s5
<1>9. Is(6, s6)
  <2>1. Is(5 + 1, StuffBit(s5, byte[5 + 1]))
    BY <1>8, <1>3
  <2> QED
    BY <2>1 DEF s6
<1>10. Is(7, s7)
  <2>1. Is(6 + 1, StuffBit(s6, byte[6 + 1]))
    BY <1>9, <1>3
  <2> QED
    BY <2>1 DEF s7
<1>12. Is(8, s8)
  <2>1. Is(7 + 1, StuffBit(s7, byte[7 + 1]))
    BY <1>10, <1>3
  <2> QED
    BY <2>1 DEF s8
<1>13. SubSeq(byte, 1, 8) = byte
  BY <1>1
<1> QED
  BY <1>11, <1>12, <1>13 DEF Is

\* The bits that leave go from the queue to the line, NRZI undone: none is lost or added.
LEMMA ShiftKeepsBits ==
  ASSUME EncoderInv, NEW add \in Seq(Bit), Shift(add),
         NEW out \in Seq(Bit), level = LevelAfter(out, 1)
  PROVE  /\ out \o line' \in Seq(Bit)
         /\ NrziDecode(out \o line', 1) \o queue' = (NrziDecode(out, 1) \o queue) \o add
         /\ level' = LevelAfter(out \o line', 1)
<1> DEFINE n == drain
           a == SubSeq(queue, 1, n)
           b == SubSeq(queue, n + 1, Len(queue))
           c == NrziDecode(out, 1)
           o == out \o line'
<1>1. /\ queue \in Seq(Bit) /\ level \in Bit /\ Len(queue) \in Nat /\ Len(add) \in Nat
      /\ n \in 0..Len(queue)
  BY DEF EncoderInv, TypeOK, drain
<1>2. /\ queue' = SubSeq(queue \o add, n + 1, Len(queue) + Len(add))
      /\ line' = NrziEncode(a, level)
      /\ level' = IF n = 0 THEN level ELSE line'[n]
  BY DEF Shift
<1>3. a \in Seq(Bit) /\ Len(a) = n /\ b \in Seq(Bit) /\ Len(b) = Len(queue) - n
  BY <1>1
<1>4. queue = a \o b
  <2>1. a \o b = SubSeq(queue, 1, Len(queue))
    <3> HIDE DEF n
    <3>1. 1 \in 1..(Len(queue) + 1) /\ n \in (1 - 1)..Len(queue) /\ Len(queue) \in n..Len(queue)
      BY <1>1
    <3> QED
      BY <1>1, <3>1, ConcatAdjacentSubSeq
  <2>2. SubSeq(queue, 1, Len(queue)) = queue
    BY <1>1
  <2> QED
    BY <2>1, <2>2
<1>5. queue' = b \o add
  <2> DEFINE q == queue \o add
             m == Len(queue)
             k == Len(add)
  <2>1. /\ q \in Seq(Bit) /\ Len(q) = m + k
        /\ \A i \in 1..(m + k) : q[i] = IF i <= m THEN queue[i] ELSE add[i - m]
    BY <1>1, ConcatProperties
  <2>2. /\ queue' \in Seq(Bit) /\ Len(queue') = m + k - n
        /\ \A i \in 1..(m + k - n) : queue'[i] = q[n + i]
    <3> HIDE DEF q
    <3>1. queue' = SubSeq(q, n + 1, m + k)
      BY <1>2 DEF q
    <3> HIDE DEF n, m, k
    <3> DEFINE s == SubSeq(q, n + 1, m + k)
    <3> DEFINE lo == n + 1
               hi == m + k
    <3>2. /\ hi \in Nat /\ n \in Nat /\ n <= hi /\ lo \in Int /\ hi \in Int
          /\ lo = n + 1 /\ Len(q) = hi /\ \A i \in lo..hi : q[i] \in Bit
      BY <1>1, <2>1 DEF m, k
    <3> HIDE DEF lo, hi
    <3>3. /\ SubSeq(q, lo, hi) \in Seq(Bit)
          /\ Len(SubSeq(q, lo, hi)) = IF lo <= hi THEN hi - lo + 1 ELSE 0
          /\ \A i \in 1..(hi - lo + 1) : SubSeq(q, lo, hi)[i] = q[lo + i - 1]
      BY <3>2, SubSeqProperties
    <3>4. /\ s \in Seq(Bit) /\ Len(s) = m + k - n
          /\ \A i \in 1..(m + k - n) : s[i] = q[n + i]
      <4>1. lo <= hi <=> n < hi
        BY <3>2
      <4>2. m + k - n = hi - lo + 1 /\ m + k - n = hi - n /\ (~(lo <= hi) => hi - n = 0)
        <5>1. hi = m + k /\ m \in Nat /\ k \in Nat
          BY <1>1 DEF hi, m, k
        <5> QED
          BY <3>2, <4>1, <5>1
      <4>3. \A i \in 1..(hi - n) : lo + i - 1 = n + i
        BY <3>2
      <4>4. s = SubSeq(q, lo, hi)
        BY DEF lo, hi
      <4> HIDE DEF s
      <4> QED
        BY <3>3, <4>2, <4>3, <4>4
    <3> QED
      BY <3>1, <3>4
  <2>3. \A i \in 1..(m - n) : b[i] = queue[n + i]
    BY <1>1, <1>3
  <2>4. m \in Nat /\ k \in Nat /\ n \in 0..m /\ Len(b) = m - n /\ Len(add) = k
    BY <1>1, <1>3
  <2> HIDE DEF q, n, b, m, k
  <2>5. \A i \in 1..Len(b) : queue'[i] = b[i]
    <3> TAKE i \in 1..Len(b)
    <3>1. n + i \in 1..(m + k) /\ n + i <= m /\ i \in 1..(m + k - n) /\ i \in 1..(m - n)
      BY <2>4
    <3> QED
      BY <2>1, <2>2, <2>3, <3>1
  <2>6. \A i \in 1..Len(add) : queue'[Len(b) + i] = add[i]
    <3> TAKE i \in 1..Len(add)
    <3>1. /\ Len(b) + i \in 1..(m + k - n) /\ n + (Len(b) + i) = m + i
          /\ m + i \in 1..(m + k) /\ ~(m + i <= m) /\ (m + i) - m = i
      BY <2>4
    <3>2. queue'[Len(b) + i] = q[n + (Len(b) + i)]
      BY <2>2, <3>1
    <3>3. q[m + i] = add[(m + i) - m]
      BY <2>1, <3>1
    <3> QED
      BY <3>1, <3>2, <3>3
  <2>7. Len(queue') = Len(b) + Len(add) /\ b \in Seq(Bit)
    BY <1>3, <2>2, <2>4 DEF b
  <2> QED
    BY <2>2, <2>5, <2>6, <2>7, IsConcat
<1>6. line' \in Seq(Bit) /\ Len(line') = n /\ NrziDecode(line', level) = a
  BY <1>1, <1>2, <1>3, NrziEncodeType, NrziInverts
<1>7. o \in Seq(Bit) /\ c \in Seq(Bit) /\ Len(o) = Len(out) + n /\ Len(out) \in Nat
  <2>1. 1 \in Bit /\ Len(out) \in Nat
    BY DEF Bit
  <2>2. c \in Seq(Bit)
    BY <2>1, NrziDecodeType
  <2> QED
    BY <1>6, <2>1, <2>2, ConcatProperties
<1>8. NrziDecode(o, 1) = c \o a
  <2>1. 1 \in Bit
    BY DEF Bit
  <2>2. NrziDecode(o, 1) = NrziDecode(out, 1) \o NrziDecode(line', LevelAfter(out, 1))
    BY <1>6, <2>1, NrziDecodeConcat
  <2> QED
    BY <1>6, <2>2
<1>9. level' = LevelAfter(o, 1)
  <2>1. CASE n = 0
    <3>1. line' = <<>> /\ o = out
      BY <1>6, <2>1, EmptySeq, ConcatEmptySeq
    <3> QED
      BY <1>2, <2>1, <3>1
  <2>2. CASE n # 0
    <3>1. o # <<>> /\ o[Len(o)] = line'[n]
      <4> HIDE DEF n
      <4>1. /\ Len(out) + n \in 1..(Len(out) + Len(line')) /\ ~(Len(out) + n <= Len(out))
            /\ (Len(out) + n) - Len(out) = n
        BY <1>1, <1>6, <1>7, <2>2
      <4>2. (out \o line')[Len(out) + n] = line'[(Len(out) + n) - Len(out)]
        BY <1>6, <4>1, ConcatProperties
      <4>3. Len(o) # 0
        BY <1>1, <1>7, <2>2
      <4> QED
        BY <1>7, <4>1, <4>2, <4>3, EmptySeq
    <3> QED
      BY <1>2, <2>2, <3>1 DEF LevelAfter
  <2> QED
    BY <2>1, <2>2
<1> HIDE DEF n, a, b, c
<1>10. (c \o a) \o queue' = (c \o queue) \o add
  <2>1. queue' = b \o add /\ queue = a \o b
    BY <1>4, <1>5
  <2>2. a \in Seq(Bit) /\ b \in Seq(Bit) /\ c \in Seq(Bit)
    BY <1>3, <1>7
  <2>3. (c \o a) \o (b \o add) = (c \o (a \o b)) \o add
    <3>1. Regrouped(c, a, b, add)
      BY <2>2, Regroup
    <3> QED
      BY <3>1 DEF Regrouped
  <2> QED
    BY <2>1, <2>3
<1> QED
  BY <1>7, <1>8, <1>9, <1>10 DEF c

\* Bits that decode to a packet's data bits and its EOP are that packet on the line.
LEMMA PacketOnLine ==
  ASSUME NEW p \in Seq(Byte), NEW s \in Seq(Bit),
         NrziDecode(s, 1) = Stuffer(DataBits(p)).bits \o EOP_DATA
  PROVE  s = PacketLineBits(p, HS_SYNC_BITS, 1)
<1>1. DataBits(p) \in Seq(Bit) /\ Len(DataBits(p)) > 0 /\ 1 \in Bit /\ EOP_DATA = EopData
  BY DataBitsGrow DEF Bit, EOP_DATA, EopData
<1>2. DataBits(p) = SyncDataBits(HS_SYNC_BITS) \o PayloadDataBits(p)
  BY DEF DataBits
<1>3. PICK l \in Bit : l = 1
  BY <1>1
<1>4. PICK d \in Seq(Bit) : d = DataBits(p)
  BY <1>1
<1>5. PICK t : t = PacketLineBits(p, HS_SYNC_BITS, 1)
  OBVIOUS
<1>6. t \in Seq(Bit) /\ NrziDecode(t, l) = Stuffer(d).bits \o EopData
  BY <1>1, <1>2, <1>3, <1>4, <1>5, PacketDecodes
<1>7. s = t
  <2>1. s \in Seq(Bit) /\ t \in Seq(Bit) /\ l \in Bit /\ NrziDecode(s, l) = NrziDecode(t, l)
    BY <1>1, <1>3, <1>4, <1>6
  <2> QED
    BY <2>1, NrziUnique
<1> QED
  BY <1>5, <1>7

(* The invariant behind WireIsPacket: what has been driven, NRZI undone, and
   what is queued are the stuffed bits of SYNC and the bytes taken so far, the
   stuffer's run and the level are the ones they leave. *)
WireBits ==
  LET stuffed == Stuffer(DataBits(onWire[Len(onWire)]))
  IN  /\ state = "DATA" =>
           /\ NrziDecode(sent, 1) \o queue
                = stuffed.bits \o (IF ending THEN EOP_DATA ELSE <<>>)
           /\ ones_run = stuffed.run
           /\ level = LevelAfter(sent, 1)
      /\ state = "IDLE" /\ sent # <<>> =>
           sent = PacketLineBits(onWire[Len(onWire)], HS_SYNC_BITS, 1)

\* Nothing is driven at reset.
LEMMA WireBitsInit == TxInit => WireBits
  BY DEF TxInit, Init, WireBits

\* The last bits of the queue leave together.
LEMMA LastDrain ==
  ASSUME queue \in Seq(Bit), Len(queue) <= 4
  PROVE  drain = Len(queue) /\ Len(queue) \in Nat
<1>0. Len(queue) \in Nat
  OBVIOUS
<1>1. PICK n \in Nat : n = Len(queue) /\ n <= 4
  <2>1. PICK n \in Nat : n = Len(queue)
    BY <1>0
  <2>2. n <= 4
    BY <2>1
  <2> QED
    BY <2>1, <2>2
<1>2. drain = IF n >= 4 THEN 4 ELSE n
  BY <1>1 DEF drain
<1>3. CASE n = 4
  <2>1. drain = 4
    BY <1>2, <1>3
  <2> QED
    BY <1>1, <1>3, <2>1
<1>4. CASE n # 4
  <2>1. drain = n
    BY <1>1, <1>2, <1>4
  <2> QED
    BY <1>1, <2>1
<1> QED
  BY <1>3, <1>4

\* What an edge of the transmit clock takes in, stuffs, queues and drives.
LEMMA WireBitsTxEdge == TxInv /\ WireBits /\ TxEdge => WireBits'
<1> SUFFICES ASSUME TxInv, WireBits, TxEdge PROVE WireBits'
  OBVIOUS
<1> DEFINE p == onWire[Len(onWire)]
           S == Stuffer(DataBits(p))
<1>1. /\ EncoderInv /\ TypeOK /\ TxTypeOK
      /\ queue \in Seq(Bit) /\ sent \in Seq(Bit) /\ ending \in BOOLEAN
      /\ onWire \in Seq(Seq(Bytes))
  BY DEF TxInv, EncoderInv, TypeOK, TxTypeOK
<1>2. sent' = IF state = "IDLE" THEN <<>> ELSE sent \o line'
  BY TxEdgeStep
<1>3. state = "DATA" => p \in Seq(Bytes) /\ p \in Seq(Byte)
  <2> SUFFICES ASSUME state = "DATA" PROVE p \in Seq(Bytes) /\ p \in Seq(Byte)
    OBVIOUS
  <2>1. onWire # <<>>
    BY <1>1 DEF TxTypeOK
  <2>2. p \in Seq(Bytes)
    BY <1>1, <2>1
  <2> QED
    BY <2>2, BytesAssumption, SeqMonotonic
<1>4. state = "DATA" => /\ DataBits(p) \in Seq(Bit) /\ S \in StuffStates
                        /\ S.bits \in Seq(Bit) /\ S.run \in 0..5
  BY <1>3, DataBitsGrow, StufferType DEF StuffStates, STUFF_RUN
<1>5. state = "DATA" =>
        /\ NrziDecode(sent, 1) \o queue = S.bits \o (IF ending THEN EOP_DATA ELSE <<>>)
        /\ ones_run = S.run
        /\ level = LevelAfter(sent, 1)
  BY DEF WireBits
<1>6. ASSUME state = "DATA", NEW add \in Seq(Bit), Shift(add)
      PROVE  /\ NrziDecode(sent', 1) \o queue'
                  = (S.bits \o (IF ending THEN EOP_DATA ELSE <<>>)) \o add
             /\ level' = LevelAfter(sent', 1) /\ sent' \in Seq(Bit)
  <2>1. level = LevelAfter(sent, 1) /\ sent' = sent \o line'
    BY <1>2, <1>5, <1>6
  <2>2. /\ NrziDecode(sent \o line', 1) \o queue' = (NrziDecode(sent, 1) \o queue) \o add
        /\ level' = LevelAfter(sent \o line', 1) /\ sent \o line' \in Seq(Bit)
    BY <1>1, <1>6, <2>1, ShiftKeepsBits
  <2> QED
    BY <1>5, <1>6, <2>1, <2>2
<1> DEFINE q == onWire'[Len(onWire')]
           T == Stuffer(DataBits(q))
<1>7. WireBits' <=>
        /\ state' = "DATA" =>
             /\ NrziDecode(sent', 1) \o queue' = T.bits \o (IF ending' THEN EOP_DATA ELSE <<>>)
             /\ ones_run' = T.run
             /\ level' = LevelAfter(sent', 1)
        /\ state' = "IDLE" /\ sent' # <<>> => sent' = PacketLineBits(q, HS_SYNC_BITS, 1)
  BY DEF WireBits
<1>8. onWire' = onWire => q = p /\ T = S
  OBVIOUS
<1> HIDE DEF p, q, S, T
<1>9. EOP_DATA \in Seq(Bit) /\ <<>> \in Seq(Bit)
  BY DEF EOP_DATA, Bit
<1>10. CASE /\ head \in Bytes /\ TakeByte
            /\ onWire' = [onWire EXCEPT ![Len(onWire)] = Append(@, head)]
  <2> DEFINE s == StuffByte(ones_run, head)
  <2>1. /\ state = "DATA" /\ ~ending /\ Shift(s.bits) /\ ones_run' = s.run
        /\ state' = "DATA" /\ ~ending'
    BY <1>10 DEF TakeByte, MayRefill
  <2>2. head \in Byte /\ ones_run = S.run
    BY <1>5, <1>10, <2>1, BytesAssumption
  <2>3. s.bits \in Seq(Bit)
    BY <1>1, <2>2, StuffByteLength DEF TypeOK
  <2>4. q = Append(p, head)
    <3>1. onWire # <<>> /\ onWire \in Seq(Seq(Bytes)) /\ head \in Bytes
      BY <1>1, <1>10, <2>1 DEF TxTypeOK
    <3>2. /\ Len(onWire') = Len(onWire)
          /\ onWire'[Len(onWire')] = Append(onWire[Len(onWire)], head)
      BY <1>10, <3>1, GrownOpen
    <3> QED
      BY <3>2 DEF p, q
  <2>5. T = Behind(S.bits, s)
    <3>1. DataBits(q) = DataBits(p) \o head
      BY <1>3, <2>1, <2>2, <2>4, DataBitsGrow
    <3>2. Stuffer(DataBits(p) \o head) = Behind(S.bits, StuffByte(S.run, head))
      BY <1>4, <2>1, <2>2, StuffByteIs DEF S
    <3> QED
      BY <2>2, <3>1, <3>2 DEF T
  <2>6. T.bits = S.bits \o s.bits /\ T.run = s.run
    BY <2>5 DEF Behind
  <2> HIDE DEF s
  <2>7. /\ NrziDecode(sent', 1) \o queue' = (S.bits \o <<>>) \o s.bits
        /\ level' = LevelAfter(sent', 1)
    BY <1>6, <2>1, <2>3
  <2>8. S.bits \o <<>> = S.bits
    BY <1>4, <2>1, ConcatEmptySeq
  <2>9. T.bits \o <<>> = T.bits
    BY <1>4, <2>1, <2>3, <2>6, ConcatEmptySeq, ConcatProperties
  <2> QED
    BY <1>7, <2>1, <2>6, <2>7, <2>8, <2>9
<1>11. CASE onWire' = onWire /\ (TakeEnd \/ Starve)
  <2>1. /\ state = "DATA" /\ ~ending /\ Shift(EOP_DATA) /\ ones_run' = ones_run
        /\ state' = "DATA" /\ ending' = TRUE
    BY <1>11 DEF TakeEnd, Starve, MayRefill, AppendEop
  <2>2. /\ NrziDecode(sent', 1) \o queue' = (S.bits \o <<>>) \o EOP_DATA
        /\ level' = LevelAfter(sent', 1)
    BY <1>6, <1>9, <2>1
  <2>3. S.bits \o <<>> = S.bits
    BY <1>4, <2>1, ConcatEmptySeq
  <2> QED
    BY <1>5, <1>7, <1>8, <1>11, <2>1, <2>2, <2>3
<1>12. CASE onWire' = onWire /\ Coast
  <2> DEFINE b == S.bits \o (IF ending THEN EOP_DATA ELSE <<>>)
  <2>1. /\ state = "DATA" /\ Shift(<<>>) /\ ones_run' = ones_run /\ ending' = ending
        /\ state' = IF Drained THEN "IDLE" ELSE "DATA"
    BY <1>12 DEF Coast
  <2>2. b \in Seq(Bit)
    BY <1>4, <1>9, <2>1, ConcatProperties
  <2>3. /\ NrziDecode(sent', 1) \o queue' = b \o <<>>
        /\ level' = LevelAfter(sent', 1) /\ sent' \in Seq(Bit)
    BY <1>6, <1>9, <2>1
  <2>4. b \o <<>> = b
    <3> HIDE DEF b
    <3> QED
      BY <2>2, ConcatEmptySeq
  <2>5. CASE ~Drained
    BY <1>5, <1>7, <1>8, <1>12, <2>1, <2>3, <2>4, <2>5
  <2>6. CASE Drained
    <3>1. state' = "IDLE" /\ ending /\ Len(queue) <= 4
      BY <2>1, <2>6 DEF Drained
    <3>2. Len(queue') = Len(queue) + Len(<<>>) - drain /\ queue' \in Seq(Bit)
      BY <1>1, <1>9, <2>1, ShiftLengths
    <3>3. Len(queue') = 0
      <4>1. Len(<<>>) = 0
        BY EmptySeq
      <4>2. drain = Len(queue) /\ Len(queue) \in Nat
        BY <1>1, <3>1, LastDrain
      <4> QED
        BY <3>2, <4>1, <4>2
    <3>4. queue' = <<>>
      BY <3>2, <3>3, EmptySeq
    <3>5. NrziDecode(sent', 1) \in Seq(Bit)
      <4>1. 1 \in Bit
        BY DEF Bit
      <4> QED
        BY <2>3, <4>1, NrziDecodeType
    <3>6. NrziDecode(sent', 1) = S.bits \o EOP_DATA
      <4>1. NrziDecode(sent', 1) \o <<>> = NrziDecode(sent', 1)
        BY <3>5, ConcatEmptySeq
      <4> QED
        BY <2>3, <2>4, <3>1, <3>4, <4>1
    <3>7. sent' = PacketLineBits(p, HS_SYNC_BITS, 1)
      BY <1>3, <2>1, <2>3, <3>6, PacketOnLine DEF S
    <3> QED
      BY <1>7, <1>8, <1>12, <3>1, <3>7
  <2> QED
    BY <2>5, <2>6
<1>13. CASE onWire' = Append(onWire, <<>>) /\ IdleStart
  <2>1. /\ state = "IDLE" /\ state' = "DATA" /\ queue' = SyncDataBits(HS_SYNC_BITS)
        /\ ones_run' = 1 /\ ~ending' /\ level' = 1 /\ sent' = <<>>
    BY <1>2, <1>13 DEF IdleStart, SYNC_BITS, HS_SYNC_BITS, Undriven
  <2>2. q = <<>>
    <3>1. <<>> \in Seq(Bytes)
      OBVIOUS
    <3>2. Len(onWire') = Len(onWire) + 1 /\ onWire'[Len(onWire) + 1] = <<>>
      BY <1>1, <1>13, <3>1, AppendProperties
    <3> QED
      BY <3>2 DEF q
  <2>3. DataBits(q) = SyncDataBits(HS_SYNC_BITS)
    BY <2>2, DataBitsGrow, EmptySeq
  <2>4. /\ SyncDataBits(HS_SYNC_BITS) \in Seq(Bit)
        /\ T = [bits |-> SyncDataBits(HS_SYNC_BITS), run |-> 1]
    BY <2>3, StufferSync DEF T, HS_SYNC_BITS
  <2>5. NrziDecode(<<>>, 1) = <<>>
    <3>1. 1 \in Bit /\ <<>> \in Seq(Bit)
      BY DEF Bit
    <3>2. NrziDecode(<<>>, 1) \in Seq(Bit) /\ Len(NrziDecode(<<>>, 1)) = 0
      BY <3>1, NrziDecodeType, EmptySeq
    <3> QED
      BY <3>2, EmptySeq
  <2>6. <<>> \o queue' = queue' \o <<>> /\ LevelAfter(<<>>, 1) = 1
    BY <2>1, <2>4, ConcatEmptySeq DEF LevelAfter
  <2> QED
    BY <1>7, <2>1, <2>4, <2>5, <2>6
<1>14. CASE IdleClear
  <2>1. state' = "IDLE" /\ sent' = <<>>
    BY <1>2, <1>14 DEF IdleClear
  <2> QED
    BY <1>7, <2>1
<1> QED
  BY <1>10, <1>11, <1>12, <1>13, <1>14, TxEdgeStep

\* Other steps leave the encoder and the wire alone.
LEMMA WireBitsNext == TxInv /\ WireBits /\ [TxNext]_txVars => WireBits'
<1> SUFFICES ASSUME TxInv, WireBits, [TxNext]_txVars PROVE WireBits'
  OBVIOUS
<1>1. ASSUME UNCHANGED <<encRegs, wireVars>> PROVE WireBits'
  BY <1>1 DEF WireBits, encRegs, wireVars
<1>2. CASE UsbClock
  <2>1. TxTypeOK /\ UsbEdge
    BY <1>2, UsbClockStep DEF TxInv
  <2>2. UNCHANGED <<vars, wireVars>>
    BY <2>1, UsbEdgeTypes
  <2> QED
    BY <1>1, <2>2 DEF vars
<1>3. CASE TxEdge
  BY <1>3, WireBitsTxEdge
<1>4. CASE ShowEntry \/ ShowSlot
  BY <1>1, <1>4, CrossingStep
<1>5. CASE UNCHANGED txVars
  BY <1>1, <1>5 DEF txVars, vars
<1> QED
  BY <1>2, <1>3, <1>4, <1>5 DEF TxNext

\* The invariant says what WireIsPacket asks.
LEMMA WireBitsPacket == WireBits => WireIsPacket
  BY StufferStuffs DEF WireBits, WireIsPacket, DataBits

(* At every cycle what has been driven and what is queued are the packet of the
   wire code that has the bytes taken, bit for bit, and what has been driven when
   the encoder goes idle is all of it: for packets of any length and bytes, and
   wherever a starved source or a change of mode ends them. *)
THEOREM WireCarriesPackets == TxSpec => []WireIsPacket
<1>1. TxInit => TxInv /\ WireBits
  BY TxInitInv, WireBitsInit
<1>2. TxInv /\ WireBits /\ [TxNext]_txVars => (TxInv /\ WireBits)'
  BY TxNextInv, WireBitsNext
<1> QED
  BY <1>1, <1>2, WireBitsPacket, PTL DEF TxSpec

-----------------------------------------------------------------------------
(* The control plane: op_mode and tx_valid, the synchroniser, the replay.      *)

(* The timer counts the cycles of the present state, which is what held does;
   pair and the state say how many levels of a replay have been shown. *)
Counted ==
  /\ synth # "PASS" => timer = held /\ timer < cycles
  /\ synth = "PASS" => timer = 0
  /\ synth \in {"K", "J"} => pair < pairs
  /\ synth = "GAP" => shown = 0
  /\ synth = "K" => shown = 2 * pair
  /\ synth = "J" => shown = 2 * pair + 1

(* length is the length of the burst that lasts or has just ended. *)
Measured == length = IF prev THEN burst ELSE 0

\* Types, and what the replay's registers count.
PhyInv == PhyTypeOK /\ Counted /\ Measured

\* The synthesiser comes out of reset in SE0.
LEMMA PhyInitInv == PhyInit => PhyInv
<1> SUFFICES ASSUME PhyInit PROVE PhyInv
  OBVIOUS
<1>1. PhyTypeOK
  <2>1. SynthTypeOK
    <3>1. op_mode \in 0..3 /\ {utmi_valid, act, lvl, prev} \subseteq BOOLEAN
      <4>1. op_mode = 0 /\ 0 \in 0..3
        BY DEF PhyInit
      <4>2. utmi_valid = FALSE /\ act = FALSE /\ prev = FALSE /\ lvl \in BOOLEAN
        BY DEF PhyInit, SynthInit
      <4> QED
        BY <4>1, <4>2
    <3>2. length \in 0..min_chirp_cycles /\ burst \in 0..min_chirp_cycles /\ pair \in 0..pairs
      BY SynthAssumption DEF PhyInit, SynthInit
    <3>3. /\ synth \in {"SE0", "PASS", "GAP", "K", "J"}
          /\ timer \in Nat /\ held \in Nat /\ shown \in Nat
      BY DEF PhyInit, SynthInit
    <3> QED
      BY <3>1, <3>2, <3>3 DEF SynthTypeOK
  <2>2. {ctl1, ctl} \subseteq [drive_k : BOOLEAN, non_driving : BOOLEAN]
    BY DEF PhyInit
  <2>3. moved \in BOOLEAN /\ steady \in 0..Settled
    <3>1. Settled = 3 /\ Settled \in 0..Settled
      BY DEF Settled
    <3>2. moved = FALSE /\ steady = Settled
      BY DEF PhyInit
    <3> QED
      BY <3>1, <3>2
  <2> QED
    BY <2>1, <2>2, <2>3 DEF PhyTypeOK
<1>2. Counted
  BY SynthAssumption DEF PhyInit, SynthInit, Counted, cycles
<1>3. Measured
  BY DEF PhyInit, SynthInit, Measured
<1> QED
  BY <1>1, <1>2, <1>3 DEF PhyInv

(* The burst and its measure in a cycle. *)
LEMMA MeasureStep ==
  ASSUME PhyInv, PhyUsbEdge
  PROVE  /\ length' \in 0..min_chirp_cycles /\ burst' \in 0..min_chirp_cycles
         /\ Measured' /\ prev' \in BOOLEAN
<1> DEFINE m == min_chirp_cycles
<1>1. m \in Nat /\ m >= 1
  BY SynthAssumption
<1>2. length \in 0..m /\ burst \in 0..m /\ prev \in BOOLEAN
  BY DEF PhyInv, PhyTypeOK, SynthTypeOK
<1>3. length = IF prev THEN burst ELSE 0
  BY DEF PhyInv, Measured
<1>4. /\ prev' = chirping
      /\ length' = CASE ~chirping -> 0 [] chirping /\ length # m -> length + 1 [] OTHER -> length
      /\ burst' = CASE chirping /\ ~prev -> 1 [] chirping /\ prev /\ burst < m -> burst + 1
                    [] OTHER -> burst
  BY DEF PhyUsbEdge, SynthCycle
<1>5. prev' \in BOOLEAN
  BY <1>4 DEF chirping
<1> HIDE DEF m
<1>6. /\ length' \in 0..m /\ burst' \in 0..m
      /\ length' = IF prev' THEN burst' ELSE 0
  <2>1. CASE chirping
    BY <1>1, <1>2, <1>3, <1>4, <2>1
  <2>2. CASE ~chirping
    BY <1>1, <1>2, <1>3, <1>4, <2>2
  <2> QED
    BY <2>1, <2>2
<1> QED
  BY <1>5, <1>6 DEF Measured, m

(* The replay in a cycle: what the next state, timer, pair and the histories are. *)
LEMMA CountStep ==
  ASSUME PhyInv, PhyUsbEdge
  PROVE  /\ synth' \in {"SE0", "PASS", "GAP", "K", "J"}
         /\ timer' \in Nat /\ pair' \in 0..pairs /\ held' \in Nat /\ shown' \in Nat
         /\ Counted'
         /\ synth \in {"K", "J"} /\ synth' \notin {synth, "GAP"} => held = hold_cycles - 1
         /\ synth = "J" /\ synth' = "PASS" => shown' = 2 * pairs
<1>1. /\ se0_cycles \in Nat /\ se0_cycles >= 1 /\ gap_cycles \in Nat /\ gap_cycles >= 1
      /\ hold_cycles \in Nat /\ hold_cycles >= 1 /\ pairs \in Nat /\ pairs >= 1
  BY SynthAssumption
<1>2. /\ synth \in {"SE0", "PASS", "GAP", "K", "J"}
      /\ timer \in Nat /\ pair \in 0..pairs /\ held \in Nat /\ shown \in Nat
  BY DEF PhyInv, PhyTypeOK, SynthTypeOK
<1>3. Counted
  BY DEF PhyInv
<1>4. timer' = CASE chirp_end -> 0
                 [] ~chirp_end /\ synth = "PASS" -> timer
                 [] OTHER -> IF expired THEN 0 ELSE timer + 1
  BY DEF PhyUsbEdge, SynthCycle, next_timer
<1>5. /\ held' = IF synth' # synth \/ chirp_end THEN 0
                ELSE held + (IF synth = "PASS" THEN 0 ELSE 1)
      /\ shown' = CASE synth' = "GAP" -> 0
                    [] synth' \in {"J", "K", "PASS"} /\ synth \in {"K", "J"}
                         /\ held + 1 = hold_cycles -> shown + 1
                    [] OTHER -> shown
  BY DEF PhyUsbEdge, SynthCycle
<1>6. SE0 \/ PASS \/ GAP \/ K \/ J
  BY DEF PhyUsbEdge, SynthCycle
<1>7. CASE chirp_end
  <2>1. synth' = "GAP" /\ timer' = 0 /\ held' = 0 /\ shown' = 0
    BY <1>4, <1>5, <1>6, <1>7 DEF SE0, PASS, GAP, K, J, Then
  <2>2. pair' \in 0..pairs
    BY <1>1, <1>2, <1>3, <1>6 DEF SE0, PASS, GAP, K, J, first_pair, Counted
  <2>3. Counted'
    BY <1>1, <2>1 DEF Counted, cycles
  <2> QED
    BY <2>1, <2>2, <2>3
<1>8. CASE ~chirp_end
  <2> USE <1>8 DEF Then, expired, cycles, Counted
  <2>1. CASE SE0
    BY <1>1, <1>2, <1>3, <1>4, <1>5, <2>1 DEF SE0
  <2>2. CASE PASS
    BY <1>1, <1>2, <1>3, <1>4, <1>5, <2>2 DEF PASS
  <2>3. CASE GAP
    BY <1>1, <1>2, <1>3, <1>4, <1>5, <2>3 DEF GAP, first_pair
  <2>4. CASE K
    BY <1>1, <1>2, <1>3, <1>4, <1>5, <2>4 DEF K
  <2>5. CASE J
    BY <1>1, <1>2, <1>3, <1>4, <1>5, <2>5 DEF J
  <2> QED
    BY <1>6, <2>1, <2>2, <2>3, <2>4, <2>5
<1> QED
  BY <1>7, <1>8

\* A cycle of the usb clock: the synthesiser's and LUNA's.
LEMMA PhyUsbEdgeInv == PhyInv /\ PhyUsbEdge => PhyInv'
<1> SUFFICES ASSUME PhyInv, PhyUsbEdge PROVE PhyInv'
  OBVIOUS
<1>1. /\ length' \in 0..min_chirp_cycles /\ burst' \in 0..min_chirp_cycles
      /\ Measured' /\ prev' \in BOOLEAN
  BY MeasureStep
<1>2. /\ synth' \in {"SE0", "PASS", "GAP", "K", "J"}
      /\ timer' \in Nat /\ pair' \in 0..pairs /\ held' \in Nat /\ shown' \in Nat
      /\ Counted'
  BY CountStep
<1>3. /\ op_mode' \in 0..3
      /\ utmi_valid' \in BOOLEAN /\ act' \in BOOLEAN /\ lvl' \in BOOLEAN
  BY DEF PhyUsbEdge
<1>4. SynthTypeOK'
  <2>1. {utmi_valid', act', lvl', prev'} \subseteq BOOLEAN
    BY <1>1, <1>3
  <2> QED
    BY <1>1, <1>2, <1>3, <2>1 DEF SynthTypeOK
<1>5. moved' \in BOOLEAN /\ steady' \in 0..Settled
  <2>1. moved \in BOOLEAN /\ steady \in 0..Settled /\ 0 \in 0..Settled
    BY DEF PhyInv, PhyTypeOK, Settled
  <2>2. moved' \in BOOLEAN
    BY <2>1 DEF PhyUsbEdge
  <2> QED
    BY <2>1, <2>2 DEF PhyUsbEdge
<1>6. {ctl1', ctl'} \subseteq [drive_k : BOOLEAN, non_driving : BOOLEAN]
  BY DEF PhyInv, PhyTypeOK, PhyUsbEdge
<1>7. PhyTypeOK'
  BY <1>4, <1>5, <1>6 DEF PhyTypeOK
<1> QED
  BY <1>1, <1>2, <1>7 DEF PhyInv

\* An edge of the transmit clock moves the synchroniser only.
LEMMA PhyTxEdgeInv == PhyInv /\ PhyTxEdge => PhyInv'
<1> SUFFICES ASSUME PhyInv, PhyTxEdge PROVE PhyInv'
  OBVIOUS
<1>1. UNCHANGED inputVars /\ UNCHANGED synthVars
  BY DEF PhyTxEdge
<1>2. SynthTypeOK'
  BY <1>1 DEF PhyInv, PhyTypeOK, SynthTypeOK, inputVars, synthVars
<1>3. Counted' /\ Measured'
  BY <1>1 DEF PhyInv, Counted, Measured, cycles, inputVars, synthVars
<1>4. moved' \in BOOLEAN /\ steady' \in 0..Settled
  <2>1. steady \in 0..Settled
    BY DEF PhyInv, PhyTypeOK
  <2>2. steady' \in 0..Settled
    BY <2>1 DEF PhyTxEdge, Settled
  <2> QED
    BY <2>2 DEF PhyTxEdge
<1>5. {ctl1', ctl'} \subseteq [drive_k : BOOLEAN, non_driving : BOOLEAN]
  <2>1. /\ ctl1.drive_k \in BOOLEAN /\ ctl1.non_driving \in BOOLEAN
        /\ ctl1 \in [drive_k : BOOLEAN, non_driving : BOOLEAN]
    BY DEF PhyInv, PhyTypeOK
  <2>2. ctl_in.drive_k \in BOOLEAN /\ ctl_in.non_driving \in BOOLEAN
    <3>1. utmi_valid \in BOOLEAN
      BY DEF PhyInv, PhyTypeOK, SynthTypeOK
    <3> QED
      BY <3>1 DEF ctl_in, chirp
  <2>3. ctl1' \in [drive_k : BOOLEAN, non_driving : BOOLEAN]
    <3>1. /\ Sampled(ctl_in.drive_k, ctl1.drive_k) \subseteq BOOLEAN
          /\ Sampled(ctl_in.non_driving, ctl1.non_driving) \subseteq BOOLEAN
      BY <2>1, <2>2 DEF Sampled
    <3> QED
      BY <3>1 DEF PhyTxEdge
  <2> QED
    BY <2>1, <2>3 DEF PhyTxEdge
<1>6. PhyTypeOK'
  BY <1>2, <1>4, <1>5 DEF PhyTypeOK
<1> QED
  BY <1>3, <1>6 DEF PhyInv

\* Both clocks' edges keep the invariant.
LEMMA PhyNextInv == PhyInv /\ [PhyNext]_phyVars => PhyInv'
<1>1. PhyInv /\ UNCHANGED phyVars => PhyInv'
  BY DEF PhyInv, PhyTypeOK, SynthTypeOK, Counted, Measured, cycles,
         phyVars, inputVars, synthVars, ctlVars
<1> QED
  BY <1>1, PhyUsbEdgeInv, PhyTxEdgeInv DEF PhyNext

\* It holds always, for every setting of the times.
THEOREM PhyInvariant == PhySpec => []PhyInv
  BY PhyInitInv, PhyNextInv, PTL DEF PhySpec

(* Registers keep their types; pair never counts past its range. *)
THEOREM PhyTypeCorrect == PhySpec => []PhyTypeOK
<1>1. PhyInv => PhyTypeOK
  BY DEF PhyInv
<1> QED
  BY <1>1, PhyInvariant, PTL

(* A replay that reaches its end was whole, whatever restarted it. *)
THEOREM ReplaysAreWhole == PhySpec => ReplayIsWhole
<1> DEFINE A ==
      /\ synth \in {"K", "J"} /\ synth' \notin {synth, "GAP"} => held = hold_cycles - 1
      /\ synth = "J" /\ synth' = "PASS" => shown' = 2 * pairs
<1>1. PhyInv /\ [PhyNext]_phyVars => [A]_phyVars
  <2>1. PhyInv /\ PhyUsbEdge => A
    BY CountStep
  <2>2. PhyTxEdge => A
    BY DEF PhyTxEdge, synthVars
  <2> QED
    BY <2>1, <2>2 DEF PhyNext
<1> QED
  BY <1>1, PhyInvariant, PTL DEF PhySpec, ReplayIsWhole

(* Only a burst of the full length starts or restarts a replay. *)
THEOREM ShortBurstsIgnored == PhySpec => OnlyChirpsReplay
<1> DEFINE A == synth' = "GAP" /\ (synth # "GAP" \/ held' = 0) =>
                  burst = min_chirp_cycles /\ prev /\ ~chirping
<1>1. PhyInv /\ [PhyNext]_phyVars => [A]_synthVars
  <2> SUFFICES ASSUME PhyInv, [PhyNext]_phyVars, synthVars' # synthVars,
                      synth' = "GAP", synth # "GAP" \/ held' = 0
               PROVE  burst = min_chirp_cycles /\ prev /\ ~chirping
    OBVIOUS
  <2>1. PhyUsbEdge
    BY DEF PhyNext, PhyTxEdge, phyVars
  <2>2. chirp_end
    <3> SUFFICES ASSUME ~chirp_end PROVE FALSE
      OBVIOUS
    <3>1. synth = "GAP"
      BY <2>1 DEF PhyUsbEdge, SynthCycle, SE0, PASS, GAP, K, J, Then
    <3>2. held' = held + 1 /\ held \in Nat
      BY <2>1, <3>1 DEF PhyUsbEdge, SynthCycle, PhyInv, PhyTypeOK, SynthTypeOK
    <3> QED
      BY <3>1, <3>2
  <2>3. length = burst
    BY <2>2 DEF chirp_end, PhyInv, Measured
  <2> QED
    BY <2>2, <2>3 DEF chirp_end
<1> QED
  BY <1>1, PhyInvariant, PTL DEF PhySpec, OnlyChirpsReplay

(* How far the control bits have come through the synchroniser. *)
Crossed ==
  /\ steady >= 1 => ~moved
  /\ steady >= 2 => ctl1 = ctl_in
  /\ steady >= 3 => ctl = ctl_in

\* A change of mode starts the count again, an edge of the transmit clock goes on with it.
LEMMA CrossedNext == PhyInv /\ Crossed /\ [PhyNext]_phyVars => Crossed'
<1> SUFFICES ASSUME PhyInv, Crossed, [PhyNext]_phyVars PROVE Crossed'
  OBVIOUS
<1>1. steady \in 0..3 /\ moved \in BOOLEAN
  BY DEF PhyInv, PhyTypeOK, Settled
<1>2. CASE PhyUsbEdge
  BY <1>1, <1>2 DEF PhyUsbEdge, Crossed
<1>3. CASE PhyTxEdge
  <2>1. ctl_in' = ctl_in
    BY <1>3 DEF PhyTxEdge, ctl_in, chirp, inputVars
  <2>2. steady' >= 2 => ctl1' = ctl_in
    <3> SUFFICES ASSUME steady >= 1 PROVE ctl1' = ctl_in
      BY <1>1, <1>3 DEF PhyTxEdge, Settled
    <3>1. ~moved
      BY DEF Crossed
    <3>2. ctl1' \in [drive_k : {ctl_in.drive_k}, non_driving : {ctl_in.non_driving}]
      BY <1>3, <3>1 DEF PhyTxEdge, Sampled
    <3> QED
      BY <3>2 DEF ctl_in
  <2>3. steady' >= 3 => ctl' = ctl_in
    <3> SUFFICES ASSUME steady >= 2 PROVE ctl' = ctl_in
      BY <1>1, <1>3 DEF PhyTxEdge, Settled
    <3> QED
      BY <1>3 DEF PhyTxEdge, Crossed
  <2> QED
    BY <1>3, <2>1, <2>2, <2>3 DEF PhyTxEdge, Crossed
<1>4. CASE UNCHANGED phyVars
  BY <1>4 DEF phyVars, inputVars, ctlVars, Crossed, ctl_in, chirp
<1> QED
  BY <1>2, <1>3, <1>4 DEF PhyNext

\* A settled synchroniser makes the multiplexer do what the mode says.
LEMMA CrossedFollows == Crossed => WireFollowsMode
<1> SUFFICES ASSUME Crossed, steady = 3
             PROVE  wire = CASE chirp /\ utmi_valid -> "K"
                               [] op_mode = OP_NON_DRIVING -> "off" [] OTHER -> "tx"
  BY DEF WireFollowsMode, Settled
<1>1. ctl = ctl_in
  BY DEF Crossed
<1> QED
  <2>1. ctl.drive_k = (chirp /\ utmi_valid) /\ ctl.non_driving = (op_mode = OP_NON_DRIVING)
    BY <1>1 DEF ctl_in
  <2>2. chirp => op_mode # OP_NON_DRIVING
    BY DEF chirp, OP_NON_DRIVING, OP_CHIRP
  <2> QED
    BY <2>1, <2>2 DEF wire

(* Three edges of the transmit clock after op_mode or utmi_valid last moved  *)
(* the control bits, the multiplexer does what the mode says.              *)
THEOREM ModeReachesWire == PhySpec => []WireFollowsMode
<1>1. PhyInit => Crossed
  <2> SUFFICES ASSUME PhyInit PROVE Crossed
    OBVIOUS
  <2>1. ctl_in = [drive_k |-> FALSE, non_driving |-> FALSE]
    <3>1. ~chirp /\ op_mode # OP_NON_DRIVING
      BY DEF PhyInit, chirp, OP_NON_DRIVING, OP_CHIRP
    <3> QED
      BY <3>1 DEF ctl_in
  <2> QED
    BY <2>1 DEF PhyInit, Crossed
<1> QED
  BY <1>1, CrossedFollows, PhyInitInv, PhyNextInv, CrossedNext, PTL DEF PhySpec

-----------------------------------------------------------------------------
(* The two together: packets reach the pins.                                   *)

\* The mode as it goes into the synchroniser is neither a chirp's nor a released line's.
Plain == ~ctl_in.drive_k /\ ~ctl_in.non_driving

(* The invariant behind PacketReachesPins.  A packet that no change of mode cuts
   finds the control bits plain: since an edge of the transmit clock from the
   moment its first byte is handed over, for two from the moment the encoder
   starts it, and for three, all they need, while its bits are driven. *)
Ahead ==
  ~underrun =>
    /\ \A k \in unsent \ cut : Plain /\ steady >= 1
    /\ state = "DATA" /\ Len(onWire) \notin cut => Plain /\ steady >= 2
    /\ line # <<>> /\ Len(onWire) \notin cut => Plain /\ steady >= 3

\* Bits are driven only of a packet that has been started.
DrivenIsStarted == line # <<>> => onWire # <<>>

\* The invariants of the path and of the control plane, and what ties them.
PathInv == TxInv /\ Promise /\ PhyInv /\ Crossed /\ DrivenIsStarted /\ Ahead

\* At reset the mode is normal and the synchroniser has settled.
LEMMA PhyCrossedInit == PhyInit => Crossed /\ Plain /\ steady = 3
<1> SUFFICES ASSUME PhyInit PROVE Crossed /\ Plain /\ steady = 3
  OBVIOUS
<1>1. ctl_in = [drive_k |-> FALSE, non_driving |-> FALSE]
  <2>1. ~chirp /\ op_mode # OP_NON_DRIVING
    BY DEF PhyInit, chirp, OP_NON_DRIVING, OP_CHIRP
  <2> QED
    BY <2>1 DEF ctl_in
<1> QED
  BY <1>1 DEF PhyInit, Crossed, Plain, Settled

\* Both halves come out of reset together.
LEMMA PathInit == PHYTransmitInit => PathInv
<1> SUFFICES ASSUME PHYTransmitInit PROVE PathInv
  OBVIOUS
<1>1. TxInit /\ PhyInit
  BY DEF PHYTransmitInit
<1>2. TxInv /\ Promise /\ PhyInv
  BY <1>1, TxInitInv, PromiseInit, PhyInitInv
<1>3. Crossed /\ Plain /\ steady = 3
  BY <1>1, PhyCrossedInit
<1>4. line = <<>>
  BY <1>1 DEF TxInit, Init
<1> QED
  BY <1>2, <1>3, <1>4 DEF PathInv, Ahead, DrivenIsStarted

\* A step of the whole is one of the path and one of the control plane, or leaves it alone.
LEMMA PathSteps ==
  PHYTransmitNext => [TxNext]_txVars /\ [PhyNext]_phyVars
  BY DEF PHYTransmitNext, UsbClockEdge, TxClockEdge, Crossing, TxNext, PhyNext

\* What the wire owes is a packet the source has handed over.
LEMMA StartedIsAccepted ==
  ASSUME TxInv, Promise, ~underrun, onWire # <<>>
  PROVE  /\ Len(onWire) \in Nat /\ Len(accepted) \in Nat
         /\ 1 <= Len(onWire) /\ Len(onWire) <= Len(accepted)
<1>1. onWire \in Seq(Seq(Bytes)) /\ accepted \in Seq(Seq(Bytes))
  BY DEF TxInv, TxTypeOK
<1>2. WireFollowsSource
  BY PromiseFollows
<1>3. PICK n \in Nat : n = Len(onWire) /\ n >= 1
  BY <1>1, EmptySeq
<1>4. n \in DOMAIN onWire
  BY <1>1, <1>3
<1>5. n \in DOMAIN accepted
  BY <1>2, <1>4 DEF WireFollowsSource
<1> QED
  BY <1>1, <1>3, <1>5

\* Bits come from a packet that has been started, and it is not forgotten.
LEMMA DrivenNext == TxInv /\ DrivenIsStarted /\ [TxNext]_txVars => DrivenIsStarted'
<1> SUFFICES ASSUME TxInv, DrivenIsStarted, [TxNext]_txVars PROVE DrivenIsStarted'
  OBVIOUS
<1>0. /\ onWire \in Seq(Seq(Bytes)) /\ (state = "DATA" => onWire # <<>>)
      /\ state \in {"IDLE", "DATA"}
  BY DEF TxInv, TxTypeOK, EncoderInv, TypeOK
<1>1. ASSUME UNCHANGED <<encRegs, wireVars>> PROVE DrivenIsStarted'
  BY <1>1 DEF DrivenIsStarted, encRegs, wireVars
<1>2. CASE UsbClock
  <2>1. TxTypeOK /\ UsbEdge
    BY <1>2, UsbClockStep DEF TxInv
  <2>2. UNCHANGED <<vars, wireVars>>
    BY <2>1, UsbEdgeTypes
  <2> QED
    BY <1>1, <2>2 DEF vars
<1>3. CASE TxEdge
  <2> SUFFICES ASSUME line' # <<>> PROVE onWire' # <<>>
    BY DEF DrivenIsStarted
  <2>1. state = "DATA"
    <3>1. Next
      BY <1>3 DEF TxEdge
    <3> QED
      BY <1>0, <3>1 DEF Next, IdleStart, IdleClear, Undriven, TakeByte, TakeEnd, Starve,
                        Coast, MayRefill
  <2>2. TxInv'
    BY <1>3, TxNextInv DEF TxNext
  <2>3. Len(onWire') = Len(onWire) \/ onWire' # <<>>
    <3>1. \/ onWire' = [onWire EXCEPT ![Len(onWire)] = Append(@, head)] /\ head \in Bytes
          \/ onWire' = Append(onWire, <<>>)
          \/ onWire' = onWire
      BY <1>3, TxEdgeStep
    <3>2. onWire' = Append(onWire, <<>>) => onWire' # <<>>
      <4>1. <<>> \in Seq(Bytes)
        OBVIOUS
      <4> QED
        BY <1>0, <4>1, AppendProperties
    <3>3. head \in Bytes => Len([onWire EXCEPT ![Len(onWire)] = Append(@, head)]) = Len(onWire)
      <4> SUFFICES ASSUME head \in Bytes
                   PROVE  Len([onWire EXCEPT ![Len(onWire)] = Append(@, head)]) = Len(onWire)
        OBVIOUS
      <4>1. Len(Grown(onWire, TRUE, head)) = Len(onWire)
        BY <1>0, <2>1, GrownPackets
      <4> QED
        BY <4>1 DEF Grown
    <3> QED
      BY <3>1, <3>2, <3>3
  <2>4. onWire' \in Seq(Seq(Bytes))
    BY <2>2 DEF TxInv, TxTypeOK
  <2> QED
    BY <1>0, <2>1, <2>3, <2>4, EmptySeq
<1>4. CASE ShowEntry \/ ShowSlot
  BY <1>1, <1>4, CrossingStep
<1>5. CASE UNCHANGED txVars
  BY <1>1, <1>5 DEF txVars, vars
<1> QED
  BY <1>2, <1>3, <1>4, <1>5 DEF TxNext

(* Only what is handed over in normal mode is owed to the wire: whatever lies
   in the FIFO, the mode as it goes into the synchroniser is plain when a packet
   begins. *)
LEMMA AcceptedInNormalMode ==
  UsbEdge => accepted' = accepted \/ (Plain /\ offer # <<>>)
<1> SUFFICES ASSUME UsbEdge, accepted' # accepted PROVE Plain /\ offer # <<>>
  OBVIOUS
<1>1. HandOver
  BY DEF UsbEdge, NoHandOver
<1>2. normal /\ offer # <<>>
  BY <1>1, Zenon DEF HandOver
<1>3. op_mode # OP_NON_DRIVING /\ op_mode # OP_CHIRP
  BY <1>2 DEF normal
<1> QED
  BY <1>2, <1>3 DEF Plain, ctl_in, chirp

\* The packets to be sent begin with the one under way, if there is one.
LEMMA UnsentBounds ==
  /\ state = "IDLE" /\ line = <<>> => unsent = (Len(onWire) + 1)..Len(accepted)
  /\ state # "IDLE" \/ line # <<>> => unsent = Len(onWire)..Len(accepted)
  BY DEF unsent

\* A packet the wire carries is among those not sent yet.
LEMMA OnWireIsUnsent ==
  ASSUME TxInv, Promise, DrivenIsStarted, ~underrun, state = "DATA" \/ line # <<>>
  PROVE  Len(onWire) \in unsent
<1>1. onWire # <<>>
  BY DEF TxInv, TxTypeOK, DrivenIsStarted
<1>2. PICK n \in Nat : n = Len(onWire) /\ n <= Len(accepted)
  BY <1>1, StartedIsAccepted
<1>3. PICK m \in Nat : m = Len(accepted)
  BY <1>1, StartedIsAccepted
<1>4. unsent = n..m
  BY <1>2, <1>3, UnsentBounds
<1> QED
  BY <1>2, <1>3, <1>4

\* The usb clock: a change of mode cuts all that is unsent; what is handed over starts plain.
LEMMA AheadUsb ==
  ASSUME PathInv, UsbClockEdge, TxInv', Promise', DrivenIsStarted', PhyInv'
  PROVE  Ahead'
<1> SUFFICES ASSUME ~underrun' PROVE Ahead'
  BY DEF Ahead
<1>1. UsbEdge /\ TxTypeOK
  BY UsbClockStep DEF PathInv, TxInv, UsbClockEdge
<1>2. UNCHANGED <<state, line, underrun, onWire>>
  BY <1>1 DEF UsbEdge, vars, encRegs, wireVars
<1>3. CASE steady' = 0
  <2>1. cut' = unsent'
    BY <1>3 DEF UsbClockEdge
  <2>2. (state = "DATA" \/ line # <<>>)' => (Len(onWire) \in unsent)'
    BY OnWireIsUnsent, PTL
  <2> QED
    BY <2>1, <2>2 DEF Ahead
<1>4. CASE steady' # 0
  <2>1. steady' \in Nat /\ steady' >= 1
    BY <1>4 DEF PhyInv, PhyTypeOK, Settled
  <2>2. cut' = cut /\ steady' = steady /\ ctl_in' = ctl_in
    BY <1>4 DEF UsbClockEdge, PhyUsbEdge
  <2>3. Plain' = Plain
    BY <2>2 DEF Plain
  <2>4. ASSUME NEW k \in unsent' \ cut' PROVE Plain
    <3>1. CASE k \in unsent
      BY <1>2, <2>2, <2>4, <3>1 DEF PathInv, Ahead
    <3>2. CASE k \notin unsent
      <4>1. accepted' # accepted
        BY <1>2, <2>4, <3>2 DEF unsent
      <4> QED
        BY <1>1, <4>1, AcceptedInNormalMode
    <3> QED
      BY <3>1, <3>2
  <2> QED
    BY <1>2, <2>1, <2>2, <2>3, <2>4 DEF PathInv, Ahead
<1> QED
  BY <1>3, <1>4

\* Bits are driven in the middle of a packet only.
LEMMA DrivenInData ==
  ASSUME TxInv, TxEdge, line' # <<>>
  PROVE  state = "DATA" /\ Len(onWire') = Len(onWire)
<1>0. /\ onWire \in Seq(Seq(Bytes)) /\ (state = "DATA" => onWire # <<>>)
      /\ state \in {"IDLE", "DATA"}
  BY DEF TxInv, TxTypeOK, EncoderInv, TypeOK
<1>1. Next
  BY DEF TxEdge
<1>2. state = "DATA" /\ ~IdleStart
  BY <1>0, <1>1 DEF Next, IdleStart, IdleClear, Undriven, TakeByte, TakeEnd, Starve, Coast,
                    MayRefill
<1>3. \/ onWire' = [onWire EXCEPT ![Len(onWire)] = Append(@, head)] /\ head \in Bytes
      \/ onWire' = onWire
  BY <1>2, TxEdgeStep
<1>4. ASSUME head \in Bytes
      PROVE  Len([onWire EXCEPT ![Len(onWire)] = Append(@, head)]) = Len(onWire)
  <2>1. Len(Grown(onWire, TRUE, head)) = Len(onWire)
    BY <1>0, <1>2, <1>4, GrownPackets
  <2> QED
    BY <2>1 DEF Grown
<1> QED
  BY <1>2, <1>3, <1>4

\* An edge of the transmit clock adds nothing to what is unsent.
LEMMA UnsentShrinks ==
  ASSUME TxInv, DrivenIsStarted, TxEdge, TxInv'
  PROVE  /\ accepted' = accepted /\ unsent' \subseteq unsent
         /\ state = "IDLE" /\ state' = "DATA" => Len(onWire') = Len(onWire) + 1
         /\ state = "DATA" => Len(onWire') = Len(onWire)
<1>0. /\ onWire \in Seq(Seq(Bytes)) /\ (state = "DATA" => onWire # <<>>)
      /\ state \in {"IDLE", "DATA"} /\ state' \in {"IDLE", "DATA"}
      /\ accepted \in Seq(Seq(Bytes)) /\ onWire' \in Seq(Seq(Bytes))
  BY DEF TxInv, TxTypeOK, EncoderInv, TypeOK
<1>1. Next /\ UNCHANGED srcVars
  BY DEF TxEdge
<1>2. accepted' = accepted
  BY <1>1 DEF srcVars
<1>3. PICK n \in Nat : n = Len(onWire)
  BY <1>0
<1>4. PICK m \in Nat : m = Len(accepted)
  BY <1>0
<1>5. state = "DATA" => ~IdleStart /\ ~IdleClear /\ ~(IdleStart \/ IdleClear)
  BY DEF IdleStart, IdleClear
<1>6. state = "DATA" => Len(onWire') = Len(onWire)
  <2> SUFFICES ASSUME state = "DATA" PROVE Len(onWire') = Len(onWire)
    OBVIOUS
  <2>1. \/ onWire' = [onWire EXCEPT ![Len(onWire)] = Append(@, head)] /\ head \in Bytes
        \/ onWire' = onWire
    BY <1>5, TxEdgeStep
  <2>2. ASSUME head \in Bytes
        PROVE  Len([onWire EXCEPT ![Len(onWire)] = Append(@, head)]) = Len(onWire)
    <3>1. Len(Grown(onWire, TRUE, head)) = Len(onWire)
      BY <1>0, <2>2, GrownPackets
    <3> QED
      BY <3>1 DEF Grown
  <2> QED
    BY <2>1, <2>2
<1>7. state = "IDLE" => /\ line' = <<>>
                        /\ state' = "DATA" => Len(onWire') = n + 1
                        /\ state' = "IDLE" => onWire' = onWire
  <2> SUFFICES ASSUME state = "IDLE"
               PROVE  /\ line' = <<>>
                      /\ state' = "DATA" => Len(onWire') = n + 1
                      /\ state' = "IDLE" => onWire' = onWire
    OBVIOUS
  <2>1. IdleStart \/ IdleClear
    BY <1>1 DEF Next, TakeByte, TakeEnd, Starve, Coast, MayRefill
  <2>2. line' = <<>> /\ (IdleStart => state' = "DATA") /\ (IdleClear => state' = "IDLE")
    BY <2>1 DEF IdleStart, IdleClear, Undriven
  <2>3. IdleStart => ~IdleClear
    BY <2>2
  <2>4. onWire' = IF state' = "DATA" THEN Append(onWire, <<>>) ELSE onWire
    <3>1. CASE state' = "DATA"
      <4>1. ~IdleClear /\ ~TakeByte /\ ~TakeEnd /\ ~Coast /\ ~Starve
        BY <2>2, <3>1 DEF IdleClear, TakeByte, TakeEnd, Coast, Starve, MayRefill
      <4> QED
        BY <3>1, <4>1, TxEdgeStep
    <3>2. CASE state' = "IDLE"
      <4>1. IdleClear /\ ~IdleStart
        BY <2>1, <2>2, <3>2
      <4>2. state # "DATA"
        OBVIOUS
      <4> QED
        BY <3>2, <4>1, <4>2, TxEdgeStep
    <3> QED
      BY <1>0, <3>1, <3>2
  <2>5. Len(Append(onWire, <<>>)) = n + 1
    <3>1. <<>> \in Seq(Bytes)
      OBVIOUS
    <3> QED
      BY <1>0, <1>3, <3>1, AppendProperties
  <2> QED
    BY <2>2, <2>4, <2>5
<1>8. unsent' \subseteq unsent
  <2>1. PICK k \in Nat : k = Len(onWire')
    BY <1>0
  <2>2. unsent = (IF state = "IDLE" /\ line = <<>> THEN n + 1 ELSE n)..m
    BY <1>3, <1>4 DEF unsent
  <2>3. unsent' = (IF state' = "IDLE" /\ line' = <<>> THEN k + 1 ELSE k)..m
    BY <1>2, <1>4, <2>1 DEF unsent
  <2> QED
    BY <1>0, <1>3, <1>6, <1>7, <2>1, <2>2, <2>3
<1> QED
  BY <1>2, <1>3, <1>6, <1>7, <1>8

\* The transmit clock: the control bits stay ahead of the packet by the cycle it waits for its first word.
LEMMA AheadTx ==
  ASSUME PathInv, TxClockEdge, TxInv', Promise', DrivenIsStarted', PhyInv'
  PROVE  Ahead'
<1> SUFFICES ASSUME ~underrun' PROVE Ahead'
  BY DEF Ahead
<1>0. TxInv /\ DrivenIsStarted /\ TxEdge /\ PhyTxEdge /\ cut' = cut \cap unsent'
  BY DEF PathInv, TxClockEdge
<1>1. state \in {"IDLE", "DATA"} /\ state' \in {"IDLE", "DATA"} /\ underrun \in BOOLEAN
  BY <1>0 DEF TxInv, EncoderInv, TypeOK
<1>2. ~underrun
  <2>1. Next
    BY <1>0 DEF TxEdge
  <2> QED
    BY <2>1 DEF Next, IdleStart, IdleClear, TakeByte, TakeEnd, Starve, Coast
<1>3. /\ steady \in 0..3
      /\ steady' = IF steady < 3 THEN steady + 1 ELSE steady
  BY <1>0 DEF PhyTxEdge, PathInv, PhyInv, PhyTypeOK, Settled
<1>4. Plain' = Plain
  BY <1>0 DEF PhyTxEdge, inputVars, Plain, ctl_in, chirp
<1>5. /\ \A k \in unsent \ cut : Plain /\ steady >= 1
      /\ state = "DATA" /\ Len(onWire) \notin cut => Plain /\ steady >= 2
  BY <1>2 DEF PathInv, Ahead
<1>6. /\ unsent' \subseteq unsent
      /\ state = "IDLE" /\ state' = "DATA" => Len(onWire') = Len(onWire) + 1
      /\ state = "DATA" => Len(onWire') = Len(onWire)
  BY <1>0, UnsentShrinks
<1>7. (state = "DATA" \/ line # <<>>)' => (Len(onWire) \in unsent)'
  BY OnWireIsUnsent, PTL
<1>8. ASSUME (Len(onWire) \in unsent)', (Len(onWire) \notin cut)'
      PROVE  Len(onWire') \in unsent \ cut
  BY <1>0, <1>6, <1>8
<1>9. line' # <<>> => state = "DATA"
  BY <1>0, DrivenInData
<1>10. \A k \in unsent' \ cut' : Plain' /\ steady' >= 1
  BY <1>0, <1>3, <1>4, <1>5, <1>6
<1>11. ASSUME (state = "DATA")', (Len(onWire) \notin cut)' PROVE Plain' /\ steady' >= 2
  <2>1. Len(onWire') \in unsent \ cut
    BY <1>7, <1>8, <1>11
  <2>2. CASE state = "DATA"
    BY <1>3, <1>4, <1>5, <1>6, <2>1, <2>2
  <2>3. CASE state = "IDLE"
    BY <1>3, <1>4, <1>5, <2>1, <2>3
  <2> QED
    BY <1>1, <2>2, <2>3
<1>12. ASSUME (line # <<>>)', (Len(onWire) \notin cut)' PROVE Plain' /\ steady' >= 3
  <2>1. Len(onWire') \in unsent \ cut
    BY <1>7, <1>8, <1>12
  <2> QED
    BY <1>3, <1>4, <1>5, <1>6, <1>9, <1>12, <2>1
<1> QED
  BY <1>10, <1>11, <1>12 DEF Ahead

\* The whole invariant is inductive.
LEMMA PathNext == PathInv /\ [PHYTransmitNext]_allVars => PathInv'
<1> SUFFICES ASSUME PathInv, [PHYTransmitNext]_allVars PROVE PathInv'
  OBVIOUS
<1>1. [TxNext]_txVars /\ [PhyNext]_phyVars
  BY PathSteps DEF allVars
<1>2. TxInv' /\ Promise' /\ PhyInv' /\ Crossed' /\ DrivenIsStarted'
  BY <1>1, TxNextInv, PromiseNext, PhyNextInv, CrossedNext, DrivenNext DEF PathInv
<1>3. ASSUME UNCHANGED <<srcVars, encRegs, wireVars, phyVars, cut>> PROVE Ahead'
  <2>1. /\ UNCHANGED <<accepted, state, line, underrun, onWire, steady, cut>>
        /\ UNCHANGED <<op_mode, utmi_valid>>
    BY <1>3 DEF srcVars, encRegs, wireVars, phyVars, inputVars, ctlVars
  <2>2. Plain' = Plain /\ unsent' = unsent
    BY <2>1 DEF Plain, ctl_in, chirp, unsent
  <2> QED
    BY <2>1, <2>2 DEF PathInv, Ahead
<1>4. ASSUME UsbClockEdge PROVE Ahead'
  BY <1>2, <1>4, AheadUsb
<1>5. ASSUME TxClockEdge PROVE Ahead'
  BY <1>2, <1>5, AheadTx
<1>6. ASSUME Crossing PROVE Ahead'
  <2>1. UNCHANGED <<srcVars, encRegs, wireVars>>
    BY <1>6, CrossingStep DEF Crossing, PathInv
  <2> QED
    BY <1>3, <1>6, <2>1 DEF Crossing
<1>7. ASSUME UNCHANGED allVars PROVE Ahead'
  BY <1>3, <1>7 DEF allVars, txVars, vars
<1> QED
  BY <1>2, <1>4, <1>5, <1>6, <1>7 DEF PHYTransmitNext, PathInv

(* A packet that starts in normal mode reaches the pins whole, for any FIFO
   depth, packets, and phase of the two clocks. *)
THEOREM PacketsReachPins == PHYTransmitSpec => []PacketReachesPins
<1>1. PathInv => PacketReachesPins
  <2> SUFFICES ASSUME PathInv, ~underrun, line # <<>>, Len(onWire) \notin cut
               PROVE  wire = "tx"
    BY DEF PacketReachesPins
  <2>1. Plain /\ steady >= 3
    BY DEF PathInv, Ahead
  <2>2. ctl = ctl_in
    BY <2>1 DEF PathInv, Crossed
  <2> QED
    BY <2>1, <2>2 DEF Plain, wire
<1> QED
  BY <1>1, PathInit, PathNext, PTL DEF PHYTransmitSpec

(* The components' promises hold of the whole transmit half, in which one op_mode
   and one tx_valid drive the bridge, the multiplexer and the synthesiser. *)
THEOREM TransmitHalfKeepsAll ==
  PHYTransmitSpec => [](QueueFits /\ WireIsPacket /\ WireFollowsSource
                          /\ NothingLostOrMerged /\ WireFollowsMode)
<1> DEFINE All == PathInv /\ WireBits /\ NothingLost
           Kept == QueueFits /\ WireIsPacket /\ WireFollowsSource
                     /\ NothingLostOrMerged /\ WireFollowsMode
<1>1. PHYTransmitInit => All
  BY PathInit, WireBitsInit, NothingLostInit DEF PHYTransmitInit
<1>2. All /\ [PHYTransmitNext]_allVars => All'
  <2> SUFFICES ASSUME All, [PHYTransmitNext]_allVars PROVE All'
    OBVIOUS
  <2>1. [TxNext]_txVars
    BY PathSteps DEF allVars
  <2>2. TxInv /\ Promise
    BY DEF PathInv
  <2> QED
    BY <2>1, <2>2, PathNext, WireBitsNext, NothingLostNext
<1>3. All => Kept
  <2> SUFFICES ASSUME All PROVE Kept
    OBVIOUS
  <2>1. TxInv /\ Promise /\ Crossed
    BY DEF PathInv
  <2>2. QueueFits
    BY <2>1 DEF TxInv, EncoderInv
  <2> QED
    BY <2>1, <2>2, WireBitsPacket, PromiseFollows, PromiseKeepsApart, CrossedFollows
<1> QED
  BY <1>1, <1>2, <1>3, PTL DEF PHYTransmitSpec
================================================================================
