------------------------- MODULE PacketDecoderProofs -------------------------
(***************************************************************************)
(* Proofs about PacketDecoder, for every set of words of at most five bits *)
(* and any activity: one word never produces two events or two bytes, and  *)
(* the decoder implements DecoderEvents.  The argument goes along the      *)
(* chain: an event leaves its run (of ones, of zeros) and a byte its       *)
(* packer shorter than the bits read since, and five bits are too few to   *)
(* fill any of them again.                                                 *)
(*                                                                         *)
(* Then about MCPacketDecoder, for every set of payload bytes and noise:   *)
(* a silence leaves the chain quiet, behind it the chain follows the ideal *)
(* decoder bit by bit through SYNC and payload, and WireCodeProofs says    *)
(* what the ideal decoder makes of a packet: exactly its bytes, and the    *)
(* end only at its last bit.                                               *)
(***************************************************************************)
EXTENDS MCPacketDecoder, WireCodeProofs

\* The events a word can raise.
EventName == {"START", "END", "ERROR"}

\* What the chain carries from bit to bit.
ChainState ==
  [level : Bit, zero : 0..SYNC_ZEROS, ones : 0..STUFF_RUN, acc : Seq(Bit),
   open : BOOLEAN, events : Seq(EventName), bytes : Seq(Byte)]

\* c is what the chain holds after i bits of a word.
ChainInv(c, i) ==
  /\ c \in ChainState /\ Len(c.acc) < 8
  /\ c.bytes = <<>> \/ (in_packet /\ Len(c.bytes) = 1 /\ Len(c.acc) < i)
  /\ \/ c.events = <<>> /\ c.open = in_packet
     \/ /\ c.events = <<"START">> /\ ~in_packet /\ c.open /\ c.bytes = <<>>
        /\ c.ones <= i /\ Len(c.acc) < i
     \/ c.events = <<"END">> /\ in_packet /\ ~c.open /\ c.zero < i /\ c.bytes = <<>>
     \/ c.events = <<"ERROR">> /\ in_packet /\ ~c.open /\ c.zero < i

(* The eighth bit completes a byte. *)
LEMMA EighthBit ==
  ASSUME NEW a \in Seq(Bit), NEW d \in Bit, Len(a) = 7
  PROVE  Append(a, d) \in Byte
<1> DEFINE b == Append(a, d)
<1>1. b \in Seq(Bit) /\ Len(b) = Len(a) + 1
  BY AppendProperties
<1> HIDE DEF b
<1>2. b \in [1..Len(b) -> Bit]
  BY <1>1, LenProperties
<1>3. Len(b) = 8
  BY <1>1
<1>4. b \in Byte
  BY <1>2, <1>3, Zenon DEF Byte
<1> QED
  BY <1>4 DEF b

(* Outside a packet: a START needs eight zeros, which no event of the same word
   leaves behind. *)
LEMMA HuntStep ==
  ASSUME NEW n, NEW i \in 0..4, ChainInv(n, i), ~n.open, NEW d \in {0, 1}
  PROVE  ChainInv(Hunt(n, d), i + 1)
<1> USE DEF SYNC_ZEROS
<1>0. /\ n \in ChainState /\ n.zero \in 0..8 /\ n.events \in Seq(EventName)
      /\ Len(n.acc) \in Nat /\ i \in Nat
  BY DEF ChainInv, ChainState
<1>1. CASE d = 1 /\ n.zero >= SYNC_ZEROS
  <2>1. n.events = <<>> /\ ~in_packet /\ n.bytes = <<>>
    BY <1>0, <1>1 DEF ChainInv
  <2>2. <<"START">> \in Seq(EventName) /\ Append(<<>>, "START") = <<"START">>
    BY DEF EventName
  <2>a. 0 \in 0..SYNC_ZEROS /\ 1 \in 0..STUFF_RUN /\ <<>> \in Seq(Bit)
    BY DEF STUFF_RUN
  <2>3. Hunt(n, d) = [n EXCEPT !.zero = 0, !.ones = 1, !.acc = <<>>, !.open = TRUE,
                               !.events = <<"START">>]
    BY <1>0, <1>1, <2>1, <2>2 DEF Hunt
  <2>4. Hunt(n, d) \in ChainState
    BY <1>0, <2>2, <2>3, <2>a DEF ChainState
  <2>5. /\ Hunt(n, d).ones = 1 /\ Hunt(n, d).acc = <<>> /\ Hunt(n, d).open = TRUE
        /\ Hunt(n, d).events = <<"START">> /\ Hunt(n, d).bytes = <<>>
    BY <1>0, <2>1, <2>3 DEF ChainState
  <2> QED
    BY <1>0, <2>1, <2>4, <2>5 DEF ChainInv
<1>2. CASE ~(d = 1 /\ n.zero >= SYNC_ZEROS)
  <2> DEFINE z == IF d = 1 THEN 0 ELSE IF n.zero = SYNC_ZEROS THEN n.zero ELSE n.zero + 1
  <2>1. Hunt(n, d) = [n EXCEPT !.zero = z]
    BY <1>0, <1>2 DEF Hunt, ChainState
  <2>2. z \in 0..SYNC_ZEROS /\ z <= n.zero + 1 /\ z \in Nat
    BY <1>0
  <2> HIDE DEF z
  <2>3. Hunt(n, d) \in ChainState
    BY <1>0, <2>1, <2>2 DEF ChainState
  <2>4. /\ Hunt(n, d).zero = z
        /\ Hunt(n, d).ones = n.ones /\ Hunt(n, d).acc = n.acc /\ Hunt(n, d).open = n.open
        /\ Hunt(n, d).events = n.events /\ Hunt(n, d).bytes = n.bytes
    BY <1>0, <2>1 DEF ChainState
  <2> QED
    BY <1>0, <2>2, <2>3, <2>4 DEF ChainInv
<1> QED
  BY <1>1, <1>2

(* The violation: an END never shares its word with a byte, because the byte
   would have left fewer than seven bits pending. *)
LEMMA ViolateStep ==
  ASSUME NEW n, NEW i \in 0..4, ChainInv(n, i), n.open, n.ones = STUFF_RUN
  PROVE  ChainInv(Violate(n), i + 1)
<1> DEFINE e == IF Len(n.acc) = EOP_BITS THEN "END" ELSE "ERROR"
           v == Violate(n)
<1>1. n \in ChainState /\ (n.bytes = <<>> \/ (Len(n.bytes) = 1 /\ Len(n.acc) < i))
  BY Zenon DEF ChainInv
<1>2. n.acc \in Seq(Bit) /\ n.ones = 6
  BY <1>1 DEF ChainState, STUFF_RUN
<1>3. n.events = <<>> /\ in_packet
  <2>1. ~(n.ones <= i)
    BY <1>2
  <2> QED
    BY <2>1, Zenon DEF ChainInv
<1>4. e = "END" => n.bytes = <<>>
  <2>1. \A k \in Nat : k < i => k # 7
    OBVIOUS
  <2>2. Len(n.acc) \in Nat
    BY <1>2, LenProperties
  <2>3. Len(n.acc) < i => Len(n.acc) # 7
    BY <2>1, <2>2, Zenon
  <2> QED
    BY <1>1, <2>3 DEF EOP_BITS
<1>5. e = "END" \/ e = "ERROR"
  OBVIOUS
<1>6. <<e>> \in Seq(EventName) /\ Append(<<>>, e) = <<e>>
  BY <1>5 DEF EventName
<1>7. v = [n EXCEPT !.zero = 0, !.ones = 0, !.acc = <<>>, !.open = FALSE, !.events = <<e>>]
  BY <1>1, <1>3, <1>6 DEF Violate, ChainState
<1> HIDE DEF e, v
<1>8. v \in ChainState
  <2>1. 0 \in 0..SYNC_ZEROS /\ 0 \in 0..STUFF_RUN /\ <<>> \in Seq(Bit)
    BY DEF SYNC_ZEROS, STUFF_RUN
  <2> QED
    BY <1>1, <1>6, <1>7, <2>1 DEF ChainState
<1>9. /\ v.zero = 0 /\ v.acc = <<>> /\ v.open = FALSE /\ v.events = <<e>>
      /\ v.bytes = n.bytes
  BY <1>1, <1>7 DEF ChainState
<1>10. v.zero < i + 1 /\ Len(v.acc) < i + 1 /\ Len(v.acc) < 8
  <2>1. v.zero = 0 /\ Len(v.acc) = 0
    BY <1>9
  <2> QED
    BY <2>1
<1>11. ChainInv(v, i + 1)
  BY <1>1, <1>3, <1>4, <1>5, <1>8, <1>9, <1>10, Zenon DEF ChainInv
<1> QED
  BY <1>11 DEF v

(* A stuffed zero is dropped. *)
LEMMA DropStep ==
  ASSUME NEW n, NEW i \in 0..4, ChainInv(n, i), n.open, n.ones = STUFF_RUN
  PROVE  ChainInv([n EXCEPT !.zero = 0, !.ones = 0], i + 1)
<1> DEFINE f == [n EXCEPT !.zero = 0, !.ones = 0]
<1>1. /\ n \in ChainState /\ Len(n.acc) < 8
      /\ n.bytes = <<>> \/ (in_packet /\ Len(n.bytes) = 1 /\ Len(n.acc) < i)
  BY Zenon DEF ChainInv
<1>2. n.acc \in Seq(Bit) /\ n.ones = 6
  BY <1>1 DEF ChainState, STUFF_RUN
<1>3. n.events = <<>> /\ in_packet
  <2>1. ~(n.ones <= i)
    BY <1>2
  <2> QED
    BY <2>1, Zenon DEF ChainInv
<1>4. f \in ChainState
  <2>1. 0 \in 0..SYNC_ZEROS /\ 0 \in 0..STUFF_RUN
    BY DEF SYNC_ZEROS, STUFF_RUN
  <2> QED
    BY <1>1, <1>2, <2>1 DEF ChainState
<1>5. /\ f.acc = n.acc /\ f.open = n.open /\ f.events = n.events /\ f.bytes = n.bytes
  BY <1>1 DEF ChainState
<1> HIDE DEF f
<1>6. Len(n.acc) < i => Len(n.acc) < i + 1
  BY <1>2, LenProperties
<1>7. n.open = in_packet
  BY <1>3 DEF ChainInv
<1>8. ChainInv(f, i + 1)
  BY <1>1, <1>3, <1>4, <1>5, <1>6, <1>7, Zenon DEF ChainInv
<1> QED
  BY <1>8 DEF f

(* A data bit is packed: a word is too short to complete two bytes. *)
LEMMA TakeStep ==
  ASSUME NEW n, NEW i \in 0..4, ChainInv(n, i), n.open, n.ones < STUFF_RUN, NEW d \in Bit
  PROVE  ChainInv(Take(n, d), i + 1)
<1> DEFINE bits == Append(n.acc, d)
           ones == IF d = 1 THEN n.ones + 1 ELSE 0
           t == Take(n, d)
<1>1. /\ n \in ChainState /\ Len(n.acc) < 8
      /\ n.bytes = <<>> \/ (in_packet /\ Len(n.bytes) = 1 /\ Len(n.acc) < i)
      /\ \/ n.events = <<>> /\ n.open = in_packet
         \/ /\ n.events = <<"START">> /\ ~in_packet /\ n.bytes = <<>>
            /\ n.ones <= i /\ Len(n.acc) < i
  BY Zenon DEF ChainInv
<1>2. n.acc \in Seq(Bit) /\ n.ones \in 0..6 /\ n.bytes \in Seq(Byte)
  BY <1>1 DEF ChainState, STUFF_RUN
<1>3. Len(n.acc) \in Nat
  BY <1>2, LenProperties
<1>4. bits \in Seq(Bit) /\ Len(bits) = Len(n.acc) + 1
  BY <1>2, AppendProperties
<1>5. ones \in 0..STUFF_RUN /\ ones <= n.ones + 1 /\ 0 \in 0..SYNC_ZEROS
  BY <1>2 DEF STUFF_RUN, SYNC_ZEROS
<1>6. CASE Len(n.acc) = 7
  <2>1. Len(bits) = 8
    BY <1>4, <1>6
  <2>2. bits \in Byte
    BY <1>2, <1>6, EighthBit
  <2>3. ~(Len(n.acc) < i)
    BY <1>6
  <2>4. n.bytes = <<>> /\ n.events = <<>> /\ n.open = in_packet
    BY <1>1, <2>3, Zenon
  <2> HIDE DEF bits
  <2>5. Append(<<>>, bits) = <<bits>> /\ <<bits>> \in Seq(Byte) /\ Len(<<bits>>) = 1
    BY <2>2
  <2>6. t = [n EXCEPT !.zero = 0, !.ones = ones, !.acc = <<>>, !.bytes = <<bits>>]
    BY <1>1, <2>1, <2>4, <2>5 DEF Take, ChainState, bits
  <2> HIDE DEF ones, t
  <2>7. t \in ChainState
    <3>1. <<>> \in Seq(Bit)
      OBVIOUS
    <3> QED
      BY <1>1, <1>5, <2>5, <2>6, <3>1 DEF ChainState
  <2>8. /\ t.acc = <<>> /\ t.bytes = <<bits>> /\ t.open = n.open /\ t.events = n.events
    BY <1>1, <2>6 DEF ChainState
  <2>9. Len(t.acc) < 8 /\ Len(t.acc) < i + 1
    <3>1. Len(t.acc) = 0
      BY <2>8
    <3> QED
      BY <3>1
  <2>10. ChainInv(t, i + 1)
    BY <2>4, <2>5, <2>7, <2>8, <2>9, Zenon DEF ChainInv
  <2> QED
    BY <2>10 DEF t
<1>7. CASE Len(n.acc) # 7
  <2> DEFINE k == Len(n.acc)
  <2>a. k \in Nat /\ k # 7 /\ k < 8 /\ Len(bits) = k + 1
    BY <1>1, <1>3, <1>4, <1>7
  <2> HIDE DEF k, bits
  <2>1. Len(bits) # 8 /\ Len(bits) < 8 /\ (k < i => Len(bits) < i + 1)
    BY <2>a
  <2>2. t = [n EXCEPT !.zero = 0, !.ones = ones, !.acc = bits, !.bytes = n.bytes]
    BY <1>1, <2>1 DEF Take, ChainState, bits
  <2> HIDE DEF ones, t
  <2>3. t \in ChainState
    BY <1>1, <1>2, <1>4, <1>5, <2>2 DEF ChainState
  <2>4. /\ t.acc = bits /\ t.bytes = n.bytes /\ t.ones = ones
        /\ t.open = n.open /\ t.events = n.events
    BY <1>1, <2>2 DEF ChainState
  <2>5. Len(t.acc) < 8 /\ (Len(n.acc) < i => Len(t.acc) < i + 1)
    BY <2>1, <2>4, Zenon DEF k
  <2>6. n.ones <= i => t.ones <= i + 1
    BY <1>2, <1>5, <2>4
  <2>7. ChainInv(t, i + 1)
    BY <1>1, <2>3, <2>4, <2>5, <2>6, Zenon DEF ChainInv
  <2> QED
    BY <2>7 DEF t
<1> QED
  BY <1>6, <1>7

(* Reading one more bit keeps the chain's invariant. *)
LEMMA ChainStep ==
  ASSUME NEW c, NEW i \in 0..4, ChainInv(c, i), NEW raw \in Bit
  PROVE  ChainInv(BitStep(c, raw), i + 1)
<1> DEFINE d == IF raw = c.level THEN 1 ELSE 0
           n == [c EXCEPT !.level = raw]
<1>0. c \in ChainState
  BY DEF ChainInv
<1>1. n \in ChainState
  BY <1>0 DEF ChainState
<1>2. /\ n.zero = c.zero /\ n.ones = c.ones /\ n.acc = c.acc /\ n.open = c.open
      /\ n.events = c.events /\ n.bytes = c.bytes
  BY <1>0 DEF ChainState
<1>3. d \in {0, 1} /\ d \in Bit
  BY DEF Bit
<1>4. BitStep(c, raw) = IF ~c.open THEN Hunt(n, d)
                        ELSE IF c.ones < STUFF_RUN THEN Take(n, d)
                        ELSE IF d = 1 THEN Violate(n)
                        ELSE [n EXCEPT !.zero = 0, !.ones = 0]
  BY DEF BitStep
<1> HIDE DEF n, d
<1>5. ChainInv(n, i)
  BY <1>1, <1>2 DEF ChainInv
<1>6. n.ones \in 0..6
  BY <1>1 DEF ChainState, STUFF_RUN
<1>7. CASE ~n.open
  BY <1>2, <1>3, <1>4, <1>5, <1>7, HuntStep
<1>8. CASE n.open /\ n.ones < STUFF_RUN
  BY <1>2, <1>3, <1>4, <1>5, <1>8, TakeStep
<1>9. CASE n.open /\ ~(n.ones < STUFF_RUN)
  <2>1. n.ones = STUFF_RUN
    BY <1>6, <1>9 DEF STUFF_RUN
  <2>2. CASE d = 1
    BY <1>2, <1>4, <1>5, <1>9, <2>1, <2>2, ViolateStep
  <2>3. CASE d # 1
    BY <1>2, <1>4, <1>5, <1>9, <2>1, <2>3, DropStep
  <2> QED
    BY <2>2, <2>3
<1> QED
  BY <1>7, <1>8, <1>9

(* One place of the word read, or skipped when the word is shorter. *)
LEMMA ChainPlace ==
  ASSUME NEW word \in Word, NEW c, NEW i \in 0..4, ChainInv(c, i)
  PROVE  ChainInv(IF i + 1 <= Len(word) THEN BitStep(c, word[i + 1]) ELSE c, i + 1)
<1>1. PICK n \in 0..5 : word \in [1..n -> Bit]
  BY DEF Word, MAX_BITS
<1>2. word \in Seq(Bit) /\ Len(word) = n
  BY <1>1
<1>3. CASE i + 1 <= Len(word)
  <2>1. i + 1 \in 1..n
    BY <1>2, <1>3
  <2>2. word[i + 1] \in Bit
    BY <1>1, <2>1
  <2> QED
    BY <1>3, <2>2, ChainStep
<1>4. CASE ~(i + 1 <= Len(word))
  <2>1. c \in ChainState
    BY Zenon DEF ChainInv
  <2>2. c.acc \in Seq(Bit) /\ c.zero \in Nat /\ c.ones \in Nat
    BY <2>1 DEF ChainState, SYNC_ZEROS, STUFF_RUN
  <2>3. Len(c.acc) \in Nat
    BY <2>2, LenProperties
  <2>4. \A k \in Nat : (k < i => k < i + 1) /\ (k <= i => k <= i + 1)
    OBVIOUS
  <2>5. /\ Len(c.acc) < i => Len(c.acc) < i + 1
        /\ c.zero < i => c.zero < i + 1
        /\ c.ones <= i => c.ones <= i + 1
    BY <2>2, <2>3, <2>4, Zenon
  <2>6. ChainInv(c, i + 1)
    BY <2>5, Zenon DEF ChainInv
  <2> QED
    BY <1>4, <2>6
<1> QED
  BY <1>3, <1>4

(* The head of the chain, with the registers of their types. *)
LEMMA RegistersInv ==
  ASSUME TypeOK
  PROVE  ChainInv(Registers, 0)
<1>1. /\ <<>> \in Seq(EventName) /\ <<>> \in Seq(Byte)
  OBVIOUS
<1>2. Registers \in ChainState
  BY <1>1 DEF TypeOK, Registers, ChainState
<1>3. /\ Registers.events = <<>> /\ Registers.bytes = <<>>
      /\ Registers.open = in_packet /\ Registers.acc = acc
  BY DEF Registers
<1>4. Len(acc) < 8
  BY DEF TypeOK
<1> QED
  BY <1>2, <1>3, <1>4, Zenon DEF ChainInv

(* The whole word: from registers of their types, the chain ends in its invariant. *)
LEMMA ChainWord ==
  ASSUME TypeOK, NEW word \in Word
  PROVE  ChainInv(Chain(word), 5)
<1> DEFINE bit(c, i) == IF i <= Len(word) THEN BitStep(c, word[i]) ELSE c
           c1 == bit(Registers, 1)
           c2 == bit(c1, 2)
           c3 == bit(c2, 3)
           c4 == bit(c3, 4)
           c5 == bit(c4, 5)
<1>1. ChainInv(Registers, 0)
  BY RegistersInv
<1>2. ChainInv(c1, 1)
  BY <1>1, ChainPlace
<1>3. ChainInv(c2, 2)
  <2> HIDE DEF c1
  <2> QED BY <1>2, ChainPlace
<1>4. ChainInv(c3, 3)
  <2> HIDE DEF c1, c2
  <2> QED BY <1>3, ChainPlace
<1>5. ChainInv(c4, 4)
  <2> HIDE DEF c1, c2, c3
  <2> QED BY <1>4, ChainPlace
<1>6. ChainInv(c5, 5)
  <2> HIDE DEF c1, c2, c3, c4
  <2> QED BY <1>5, ChainPlace
<1>7. Chain(word) = c5
  BY Zenon DEF Chain
<1> QED
  BY <1>6, <1>7, Zenon

\* The inductive invariant of the decoder alone.
Inv == TypeOK /\ NothingOverwritten

\* It holds at reset,
LEMMA InitInv == Init => Inv
<1> SUFFICES ASSUME Init PROVE Inv
  OBVIOUS
<1>1. <<>> \in Seq(Bit) /\ <<>> \in Seq(EventName) /\ <<>> \in Seq(Byte) /\ Len(<<>>) = 0
  OBVIOUS
<1>2. 0 \in 0..SYNC_ZEROS /\ 0 \in 0..STUFF_RUN /\ 1 \in Bit
  BY DEF SYNC_ZEROS, STUFF_RUN, Bit
<1>3. TypeOK
  <2>1. Len(acc) < 8
    BY <1>1 DEF Init
  <2> QED
    BY <1>1, <1>2, <2>1 DEF Init, TypeOK, EventName
<1>4. NothingOverwritten
  BY <1>1 DEF Init, NothingOverwritten
<1> QED
  BY <1>3, <1>4 DEF Inv

(* What one word does to the registers and to the outputs. *)
LEMMA DecodeStep ==
  ASSUME TypeOK, NEW word \in Word, NEW activity \in BOOLEAN, Decode(word, activity)
  PROVE  /\ TypeOK' /\ NothingOverwritten'
         /\ bytes' = <<>> \/ (in_packet /\ Len(bytes') = 1)
         /\ \/ events' = <<>> /\ in_packet' = in_packet
            \/ events' = <<"START">> /\ ~in_packet /\ in_packet' /\ bytes' = <<>>
            \/ events' = <<"END">> /\ in_packet /\ ~in_packet' /\ bytes' = <<>>
            \/ events' = <<"ERROR">> /\ in_packet /\ ~in_packet'
<1> DEFINE c == Chain(word)
           lost == Lost(c, activity)
<1>1. ChainInv(c, 5)
  BY ChainWord
<1> HIDE DEF c
<1>2. c \in ChainState /\ Len(c.acc) < 8
  BY <1>1, Zenon DEF ChainInv
<1>3. /\ c.level \in Bit /\ c.zero \in 0..SYNC_ZEROS /\ c.ones \in 0..STUFF_RUN
      /\ c.acc \in Seq(Bit) /\ c.open \in BOOLEAN /\ c.events \in Seq(EventName)
      /\ c.bytes \in Seq(Byte)
  BY <1>2 DEF ChainState
<1>4. /\ last_level' = c.level /\ zero_run' = c.zero /\ ones_run' = c.ones
      /\ acc' = c.acc /\ bytes' = c.bytes
      /\ in_packet' = (c.open /\ ~lost)
      /\ events' = IF lost THEN <<"ERROR">> ELSE c.events
  BY Zenon DEF Decode, c
<1>5. lost => in_packet /\ c.events = <<>>
  BY DEF Lost
<1> HIDE DEF lost
<1>6. bytes' = <<>> \/ (in_packet /\ Len(bytes') = 1)
  BY <1>1, <1>4, Zenon DEF ChainInv
<1>7. \/ events' = <<>> /\ in_packet' = in_packet
      \/ events' = <<"START">> /\ ~in_packet /\ in_packet' /\ bytes' = <<>>
      \/ events' = <<"END">> /\ in_packet /\ ~in_packet' /\ bytes' = <<>>
      \/ events' = <<"ERROR">> /\ in_packet /\ ~in_packet'
  <2>1. CASE lost
    BY <1>4, <1>5, <2>1, Zenon
  <2>2. CASE ~lost
    <3>1. events' = c.events /\ in_packet' = c.open
      BY <1>3, <1>4, <2>2, Zenon
    <3>2. \/ c.events = <<>> /\ c.open = in_packet
          \/ c.events = <<"START">> /\ ~in_packet /\ c.open /\ c.bytes = <<>>
          \/ c.events = <<"END">> /\ in_packet /\ ~c.open /\ c.bytes = <<>>
          \/ c.events = <<"ERROR">> /\ in_packet /\ ~c.open
      BY <1>1, Zenon DEF ChainInv
    <3>3. bytes' = c.bytes
      BY <1>4
    <3> QED
      BY <3>1, <3>2, <3>3
  <2> QED
    BY <2>1, <2>2
<1>8. TypeOK'
  <2>1. events' \in Seq(EventName)
    <3>1. <<"ERROR">> \in Seq(EventName)
      BY DEF EventName
    <3> QED
      BY <1>3, <1>4, <3>1, Zenon
  <2>2. in_packet' \in BOOLEAN
    BY <1>4, Zenon
  <2> QED
    BY <1>2, <1>3, <1>4, <2>1, <2>2, Zenon DEF TypeOK, EventName
<1>10. 0 <= 1 /\ 1 <= 1
  OBVIOUS
<1>9. NothingOverwritten'
  <2>1. Len(events') <= 1
    <3>1. Len(<<>>) = 0 /\ Len(<<"START">>) = 1 /\ Len(<<"END">>) = 1 /\ Len(<<"ERROR">>) = 1
      OBVIOUS
    <3>2. Len(events') = 0 \/ Len(events') = 1
      BY <1>7, <3>1, Zenon
    <3> QED
      BY <1>10, <3>2, Zenon
  <2>2. Len(bytes') <= 1
    <3>1. Len(bytes') = 0 \/ Len(bytes') = 1
      BY <1>6
    <3> QED
      BY <1>10, <3>1, Zenon
  <2> QED
    BY <2>1, <2>2 DEF NothingOverwritten
<1> QED
  BY <1>6, <1>7, <1>8, <1>9

(* Each step of the decoder keeps it, and is a step of DecoderEvents. *)
LEMMA WordStep ==
  ASSUME Inv, NEW word \in Word, NEW activity \in BOOLEAN, Decode(word, activity)
  PROVE  Inv' /\ Promise!DecNext
<1>1. /\ TypeOK' /\ NothingOverwritten'
      /\ bytes' = <<>> \/ (in_packet /\ Len(bytes') = 1)
      /\ \/ events' = <<>> /\ in_packet' = in_packet
         \/ events' = <<"START">> /\ ~in_packet /\ in_packet' /\ bytes' = <<>>
         \/ events' = <<"END">> /\ in_packet /\ ~in_packet' /\ bytes' = <<>>
         \/ events' = <<"ERROR">> /\ in_packet /\ ~in_packet'
  BY DecodeStep DEF Inv
<1> SUFFICES Promise!DecNext
  BY <1>1 DEF Inv
<1>2. bytes' = <<>> => data' = NoData
  BY DEF data
<1>3. bytes' # <<>> => in_packet /\ data' \in Byte
  <2> SUFFICES ASSUME bytes' # <<>> PROVE in_packet /\ data' \in Byte
    OBVIOUS
  <2>1. in_packet /\ Len(bytes') = 1
    BY <1>1
  <2>2. bytes' \in Seq(Byte)
    BY <1>1 DEF TypeOK
  <2>3. bytes'[Len(bytes')] \in Byte
    BY <2>1, <2>2, ElementOfSeq
  <2> QED
    BY <2>1, <2>3 DEF data
<1>4. CASE events' = <<>> /\ in_packet' = in_packet
  <2>1. event' = "NONE"
    BY <1>4 DEF event
  <2> QED
    BY <1>2, <1>3, <1>4, <2>1 DEF Promise!DecNext, Promise!Quiet
<1>5. CASE events' = <<"START">> /\ ~in_packet /\ in_packet' /\ bytes' = <<>>
  <2>1. event' = "START"
    BY <1>5 DEF event
  <2> QED
    BY <1>1, <1>2, <1>5, <2>1 DEF Promise!DecNext, Promise!Start, TypeOK
<1>6. CASE events' = <<"END">> /\ in_packet /\ ~in_packet' /\ bytes' = <<>>
  <2>1. event' = "END"
    BY <1>6 DEF event
  <2> QED
    BY <1>1, <1>2, <1>6, <2>1 DEF Promise!DecNext, Promise!End, TypeOK
<1>7. CASE events' = <<"ERROR">> /\ in_packet /\ ~in_packet'
  <2>1. event' = "ERROR"
    BY <1>7 DEF event
  <2> QED
    BY <1>1, <1>2, <1>3, <1>7, <2>1 DEF Promise!DecNext, Promise!Error, TypeOK
<1> QED
  BY <1>1, <1>4, <1>5, <1>6, <1>7

\* So it is kept by every word,
LEMMA NextInv == Inv /\ [Next]_vars => Inv'
<1>1. Next /\ Inv => Inv'
  BY WordStep, WordsAssumption DEF Next
<1>2. UNCHANGED vars /\ Inv => Inv'
  BY DEF Inv, TypeOK, NothingOverwritten, vars, chainVars
<1> QED
  BY <1>1, <1>2

\* and so holds always.
THEOREM Invariant == Spec => []Inv
  BY InitInv, NextInv, PTL DEF Spec

(* The registers keep their types; above all fewer than eight bits are ever
   pending in the packer. *)
THEOREM TypeCorrect == Spec => []TypeOK
<1>1. Inv => TypeOK
  BY DEF Inv
<1> QED
  BY <1>1, Invariant, PTL

(* No word of up to five bits makes the chain produce a second event or a
   second byte, whatever bits arrive. *)
THEOREM OneEventOneByte == Spec => []NothingOverwritten
<1>1. Inv => NothingOverwritten
  BY DEF Inv
<1> QED
  BY <1>1, Invariant, PTL

(* Each step of the specification is a step of DecoderEvents, or none. *)
LEMMA StepKeepsPromise ==
  Inv /\ [Next]_vars => [Promise!DecNext]_(Promise!decVars)
<1>1. Next /\ Inv => Promise!DecNext
  BY WordStep, WordsAssumption DEF Next
<1>2. UNCHANGED vars => UNCHANGED Promise!decVars
  BY DEF vars, chainVars, Promise!decVars, event, data
<1> QED
  BY <1>1, <1>2

(* The decoder implements the promise the UTMI bridge relies on. *)
THEOREM DecoderKeepsPromise == Spec => KeepsPromise
<1>1. Init => Promise!DecInit
  BY DEF Init, Promise!DecInit, event, data
<1> QED
  BY <1>1, Invariant, StepKeepsPromise, PTL DEF Spec, KeepsPromise, Promise!DecSpec

-----------------------------------------------------------------------------
(* The decoder follows the ideal one.                                          *)

\* The bytes of the open packet; b are those before this word.
Total(c, b) == IF c.events = <<"START">> THEN c.bytes ELSE b \o c.bytes

(* s is where the ideal decoder is: inside a packet they agree on the run of
   ones and on all the bits collected, outside on the zeros counted so far. *)
Follows(c, s, b) ==
  /\ s \in RefStates /\ c.open = s.inPacket
  /\ c.open => /\ s.zeros = 0 /\ c.ones = s.run
               /\ Total(c, b) \in Seq(Byte)
               /\ s.bits = PayloadDataBits(Total(c, b)) \o c.acc
  /\ ~c.open => c.zero = IF s.zeros < SYNC_ZEROS THEN s.zeros ELSE SYNC_ZEROS

\* Outside a packet they count the same zeros and start it at the same one.
LEMMA HuntFollows ==
  ASSUME NEW n, NEW i \in 0..4, ChainInv(n, i), ~n.open, NEW d \in {0, 1},
         NEW s, NEW b \in Seq(Byte), Follows(n, s, b)
  PROVE  Follows(Hunt(n, d), RefBit(s, d), b)
<1> USE DEF SYNC_ZEROS
<1>0. /\ n \in ChainState /\ n.zero \in 0..8 /\ n.events \in Seq(EventName) /\ n.bytes \in Seq(Byte)
      /\ i \in Nat
  BY DEF ChainInv, ChainState
<1>1. s \in RefStates /\ s.inPacket = FALSE /\ s.zeros \in Nat /\ s.packets \in Seq(Seq(Byte))
      /\ n.zero = IF s.zeros < 8 THEN s.zeros ELSE 8
  BY DEF Follows, RefStates
<1>2. RefBit(s, d) \in RefStates
  BY <1>1, RefBitType DEF Bit
<1>3. CASE d = 1 /\ n.zero >= 8
  <2>1. n.events = <<>> /\ n.bytes = <<>>
    BY <1>0, <1>3 DEF ChainInv
  <2>2. Append(<<>>, "START") = <<"START">>
    OBVIOUS
  <2>3. Hunt(n, d) = [n EXCEPT !.zero = 0, !.ones = 1, !.acc = <<>>, !.open = TRUE,
                               !.events = <<"START">>]
    BY <1>0, <1>3, <2>1, <2>2 DEF Hunt
  <2>4. PICK c : c = Hunt(n, d)
    OBVIOUS
  <2>5. c.ones = 1 /\ c.acc = <<>> /\ c.open = TRUE /\ c.events = <<"START">> /\ c.bytes = <<>>
    BY <1>0, <2>1, <2>3, <2>4 DEF ChainState
  <2>6. RefBit(s, 1) = [s EXCEPT !.zeros = 0, !.inPacket = TRUE, !.bits = <<>>, !.run = 1]
    <3>1. RefBit(s, 1) = [s EXCEPT !.zeros = 0, !.inPacket = (s.zeros >= MIN_SYNC_ZEROS),
                                   !.bits = <<>>, !.run = 1]
      BY <1>1 DEF RefBit
    <3>2. TRUE = (s.zeros >= MIN_SYNC_ZEROS)
      BY <1>1, <1>3 DEF MIN_SYNC_ZEROS
    <3> QED
      BY <3>1, <3>2, Zenon
  <2>7. PICK t : t = RefBit(s, 1)
    OBVIOUS
  <2>8. t.zeros = 0 /\ t.inPacket = TRUE /\ t.bits = <<>> /\ t.run = 1
    BY <1>1, <2>6, <2>7 DEF RefStates
  <2>9. Total(c, b) = <<>> /\ PayloadDataBits(<<>>) \o <<>> = <<>> /\ <<>> \in Seq(Byte)
    <3>1. PayloadDataBits(<<>>) = <<>>
      BY PayloadBits
    <3> QED
      BY <2>5, <3>1 DEF Total
  <2>10. t \in RefStates
    BY <1>2, <1>3, <2>7
  <2>11. Follows(c, t, b)
    BY <2>5, <2>8, <2>9, <2>10, Zenon DEF Follows
  <2> QED
    BY <1>3, <2>4, <2>7, <2>11
<1>4. CASE ~(d = 1 /\ n.zero >= 8)
  <2> DEFINE z == IF d = 1 THEN 0 ELSE IF n.zero = 8 THEN n.zero ELSE n.zero + 1
  <2>1. Hunt(n, d) = [n EXCEPT !.zero = z]
    BY <1>0, <1>4 DEF Hunt, ChainState
  <2>2. PICK c : c = Hunt(n, d)
    OBVIOUS
  <2>3. c.zero = z /\ c.open = n.open
    BY <1>0, <2>1, <2>2 DEF ChainState
  <2>4. PICK t : t = RefBit(s, d)
    OBVIOUS
  <2>5. t.inPacket = FALSE /\ t.zeros = IF d = 1 THEN 0 ELSE s.zeros + 1
    <3>1. CASE d = 0
      <4>1. RefBit(s, d) = [s EXCEPT !.zeros = s.zeros + 1]
        BY <1>1, <3>1 DEF RefBit
      <4> QED
        <5>1. t.inPacket = s.inPacket /\ t.zeros = s.zeros + 1
          BY <1>1, <2>4, <3>1, <4>1 DEF RefStates
        <5> QED
          BY <1>1, <3>1, <5>1
    <3>2. CASE d = 1
      <4>1. RefBit(s, d) = [s EXCEPT !.zeros = 0, !.inPacket = (s.zeros >= MIN_SYNC_ZEROS),
                                     !.bits = <<>>, !.run = 1]
        BY <1>1, <3>2 DEF RefBit
      <4>2. FALSE = (s.zeros >= MIN_SYNC_ZEROS)
        BY <1>1, <1>4, <3>2 DEF MIN_SYNC_ZEROS
      <4>3. RefBit(s, d) = [s EXCEPT !.zeros = 0, !.inPacket = FALSE, !.bits = <<>>, !.run = 1]
        BY <4>1, <4>2, Zenon
      <4> QED
        BY <1>1, <2>4, <3>2, <4>3 DEF RefStates
    <3> QED
      BY <3>1, <3>2
  <2>6. z = IF t.zeros < 8 THEN t.zeros ELSE 8
    BY <1>1, <1>4, <2>5
  <2> HIDE DEF z
  <2>7. t \in RefStates
    BY <1>2, <2>4
  <2>8. n.open = FALSE
    BY <1>0 DEF ChainState
  <2>9. Follows(c, t, b)
    BY <2>3, <2>5, <2>6, <2>7, <2>8 DEF Follows
  <2> QED
    BY <2>2, <2>4, <2>9
<1> QED
  BY <1>3, <1>4

\* Inside a packet, behind fewer than six ones, both keep the bit.
LEMMA TakeFollows ==
  ASSUME NEW n, NEW i \in 0..4, ChainInv(n, i), n.open, n.ones < STUFF_RUN, NEW d \in Bit,
         NEW s, NEW b \in Seq(Byte), Follows(n, s, b)
  PROVE  Follows(Take(n, d), RefBit(s, d), b)
<1>0. /\ n \in ChainState /\ n.acc \in Seq(Bit) /\ n.ones \in 0..6 /\ n.bytes \in Seq(Byte)
      /\ n.open = TRUE
  BY DEF ChainInv, ChainState, STUFF_RUN
<1>1. PICK y \in Seq(Byte) : y = Total(n, b)
  BY DEF Follows
<1>2. s \in RefStates /\ s.inPacket = TRUE /\ s.zeros = 0 /\ s.run = n.ones /\ s.run # STUFF_RUN
      /\ s.bits = PayloadDataBits(y) \o n.acc
  BY <1>0, <1>1 DEF Follows, STUFF_RUN
<1>3. PICK k : k = IF d = 1 THEN n.ones + 1 ELSE 0
  OBVIOUS
<1>4. PICK t : t = RefBit(s, d)
  OBVIOUS
<1>5. t \in RefStates
  BY <1>2, <1>4, RefBitType
<1>6. t.inPacket = TRUE /\ t.zeros = 0 /\ t.run = k /\ t.bits = Append(s.bits, d)
  <2>1. RefBit(s, d) = [s EXCEPT !.bits = Append(s.bits, d), !.run = k]
    BY <1>2, <1>3 DEF RefBit
  <2> QED
    BY <1>2, <1>4, <2>1 DEF RefStates
<1>7. PICK z \in Seq(Bit), a \in Seq(Bit), h \in Seq(Bit) :
        z = PayloadDataBits(y) /\ a = n.acc /\ h = <<d>>
  <2>1. PayloadDataBits(y) \in Seq(Bit) /\ <<d>> \in Seq(Bit)
    BY PayloadBits
  <2> QED
    BY <1>0, <2>1
<1>8. PICK v \in Seq(Bit) : v = Append(a, d) /\ v = a \o h /\ Len(v) = Len(a) + 1
  <2>1. Append(a, d) \in Seq(Bit) /\ Len(Append(a, d)) = Len(a) + 1 /\ Append(a, d) = a \o <<d>>
    <3>1. a \in Seq(Bit)
      BY <1>7
    <3>2. Append(a, d) \in Seq(Bit) /\ Len(Append(a, d)) = Len(a) + 1
      BY <3>1, AppendProperties
    <3>3. Append(a, d) = a \o <<d>>
      BY <3>1, AppendIsConcat
    <3> QED
      BY <3>2, <3>3
  <2> QED
    BY <1>7, <2>1
<1>9. t.bits = z \o v
  <2>1. PICK w \in Seq(Bit) : w = s.bits
    BY <1>2 DEF RefStates
  <2>2. Append(w, d) = w \o h
    BY <1>7, <2>1, AppendIsConcat
  <2>3. (z \o a) \o h = z \o (a \o h)
    <3>1. z \in Seq(Bit) /\ a \in Seq(Bit) /\ h \in Seq(Bit)
      BY <1>7
    <3> QED
      BY <3>1, BitsAssociate
  <2> QED
    BY <1>2, <1>6, <1>7, <1>8, <2>1, <2>2, <2>3
<1>10. PICK c : c = Take(n, d)
  OBVIOUS
<1>11. Take(n, d) = [n EXCEPT !.zero = 0, !.ones = k, !.acc = IF Len(v) = 8 THEN <<>> ELSE v,
                              !.bytes = IF Len(v) = 8 THEN Append(n.bytes, v) ELSE n.bytes]
  BY <1>0, <1>3, <1>7, <1>8 DEF Take, ChainState
<1>12. /\ c.open = TRUE /\ c.ones = k /\ c.events = n.events
       /\ c.acc = IF Len(v) = 8 THEN <<>> ELSE v
       /\ c.bytes = IF Len(v) = 8 THEN Append(n.bytes, v) ELSE n.bytes
  <2> HIDE <1>3
  <2> QED
    BY <1>0, <1>10, <1>11 DEF ChainState
<1>13. Total(c, b) \in Seq(Byte) /\ t.bits = PayloadDataBits(Total(c, b)) \o c.acc
  <2>1. CASE Len(v) = 8
    <3>1. v \in Byte
      <4>1. v \in [1..8 -> Bit]
        BY <1>8, <2>1, LenProperties
      <4> QED
        BY <4>1, Zenon DEF Byte
    <3>2. Total(c, b) = Append(y, v)
      <4>1. CASE n.events = <<"START">>
        BY <1>1, <1>12, <2>1, <4>1 DEF Total
      <4>2. CASE n.events # <<"START">>
        <5>1. y = b \o n.bytes /\ Total(c, b) = b \o Append(n.bytes, v)
          BY <1>1, <1>12, <2>1, <4>2 DEF Total
        <5>2. PICK m \in Seq(Byte) : m = n.bytes
          BY <1>0
        <5>3. b \o Append(m, v) = Append(b \o m, v)
          BY <3>1, <5>2
        <5> QED
          BY <5>1, <5>2, <5>3
      <4> QED
        BY <4>1, <4>2
    <3>3. PayloadDataBits(Append(y, v)) = z \o v /\ Append(y, v) \in Seq(Byte)
      BY <1>7, <3>1, PayloadBits, AppendProperties
    <3>4. (z \o v) \o <<>> = z \o v
      BY <1>7, <1>8, ConcatProperties, ConcatEmptySeq
    <3> QED
      BY <1>9, <1>12, <2>1, <3>2, <3>3, <3>4
  <2>2. CASE Len(v) # 8
    <3>1. Total(c, b) = y
      BY <1>1, <1>12, <2>2 DEF Total
    <3> QED
      BY <1>7, <1>9, <1>12, <2>2, <3>1
  <2> QED
    BY <2>1, <2>2
<1>14. Follows(c, t, b)
  BY <1>5, <1>6, <1>12, <1>13 DEF Follows
<1> QED
  BY <1>4, <1>10, <1>14

\* Behind six ones a one closes the packet and a zero is dropped, for both.
LEMMA SixthFollows ==
  ASSUME NEW n, NEW i \in 0..4, ChainInv(n, i), n.open, n.ones = STUFF_RUN,
         NEW s, NEW b \in Seq(Byte), Follows(n, s, b)
  PROVE  /\ Follows(Violate(n), RefBit(s, 1), b)
         /\ Follows([n EXCEPT !.zero = 0, !.ones = 0], RefBit(s, 0), b)
<1>0. n \in ChainState /\ n.acc \in Seq(Bit) /\ n.open = TRUE
  BY DEF ChainInv, ChainState
<1>1. PICK y \in Seq(Byte) : y = Total(n, b)
  BY DEF Follows
<1>2. s \in RefStates /\ s.inPacket = TRUE /\ s.zeros = 0 /\ s.run = STUFF_RUN
      /\ s.bits = PayloadDataBits(y) \o n.acc
  BY <1>0, <1>1 DEF Follows
<1>3. RefBit(s, 0) \in RefStates /\ RefBit(s, 1) \in RefStates
  <2>1. 0 \in Bit /\ 1 \in Bit
    BY DEF Bit
  <2> QED
    BY <1>2, <2>1, RefBitType
<1>4. Follows(Violate(n), RefBit(s, 1), b)
  <2>1. PICK c : c = Violate(n)
    OBVIOUS
  <2>2. c.open = FALSE /\ c.zero = 0
    BY <1>0, <2>1 DEF Violate, ChainState
  <2>3. PICK t : t = RefBit(s, 1)
    OBVIOUS
  <2>4. t.inPacket = FALSE /\ t.zeros = 0
    <3>1. RefBit(s, 1) = [s EXCEPT !.inPacket = FALSE, !.run = 0,
                                   !.packets = Append(s.packets, CollectedPayload(s.bits))]
      BY <1>2 DEF RefBit
    <3> QED
      BY <1>2, <2>3, <3>1 DEF RefStates
  <2>5. Follows(c, t, b)
    <3>1. (IF t.zeros < SYNC_ZEROS THEN t.zeros ELSE SYNC_ZEROS) = 0
      BY <2>4 DEF SYNC_ZEROS
    <3>2. t \in RefStates
      BY <1>3, <2>3
    <3> QED
      BY <2>2, <2>4, <3>1, <3>2 DEF Follows
  <2> QED
    BY <2>1, <2>3, <2>5
<1>5. Follows([n EXCEPT !.zero = 0, !.ones = 0], RefBit(s, 0), b)
  <2>1. PICK c : c = [n EXCEPT !.zero = 0, !.ones = 0]
    OBVIOUS
  <2>2. c.open = TRUE /\ c.ones = 0 /\ c.acc = n.acc /\ c.events = n.events /\ c.bytes = n.bytes
    BY <1>0, <2>1 DEF ChainState
  <2>3. PICK t : t = RefBit(s, 0)
    OBVIOUS
  <2>4. t.inPacket = TRUE /\ t.zeros = 0 /\ t.run = 0 /\ t.bits = s.bits
    <3>1. RefBit(s, 0) = [s EXCEPT !.run = 0]
      BY <1>2 DEF RefBit
    <3> QED
      BY <1>2, <2>3, <3>1 DEF RefStates
  <2>5. Total(c, b) = y
    BY <1>1, <2>2 DEF Total
  <2>6. Follows(c, t, b)
    BY <1>1, <1>2, <1>3, <2>2, <2>3, <2>4, <2>5 DEF Follows
  <2> QED
    BY <2>1, <2>3, <2>6
<1> QED
  BY <1>4, <1>5

\* One line bit: they go on together, and the level read is the last one.
LEMMA BitFollows ==
  ASSUME NEW c, NEW i \in 0..4, ChainInv(c, i), NEW raw \in Bit,
         NEW d, d = IF raw = c.level THEN 1 ELSE 0,
         NEW s, NEW b \in Seq(Byte), Follows(c, s, b)
  PROVE  Follows(BitStep(c, raw), RefBit(s, d), b) /\ BitStep(c, raw).level = raw
<1> DEFINE n == [c EXCEPT !.level = raw]
<1>0. c \in ChainState
  BY DEF ChainInv
<1>1. n \in ChainState /\ n.level = raw
  BY <1>0 DEF ChainState
<1>2. /\ n.zero = c.zero /\ n.ones = c.ones /\ n.acc = c.acc /\ n.open = c.open
      /\ n.events = c.events /\ n.bytes = c.bytes
  BY <1>0 DEF ChainState
<1>3. d \in {0, 1} /\ d \in Bit
  BY DEF Bit
<1>4. BitStep(c, raw) = IF ~c.open THEN Hunt(n, d)
                        ELSE IF c.ones < STUFF_RUN THEN Take(n, d)
                        ELSE IF d = 1 THEN Violate(n)
                        ELSE [n EXCEPT !.zero = 0, !.ones = 0]
  BY DEF BitStep
<1> HIDE DEF n
<1>5. ChainInv(n, i)
  BY <1>1, <1>2 DEF ChainInv
<1>6. n.ones \in 0..6
  BY <1>1 DEF ChainState, STUFF_RUN
<1>a. Total(n, b) = Total(c, b)
  BY <1>2 DEF Total
<1>b. Follows(n, s, b)
  BY <1>2, <1>a DEF Follows
<1>7. CASE ~n.open
  <2>1. Follows(Hunt(n, d), RefBit(s, d), b)
    BY <1>3, <1>5, <1>7, <1>b, HuntFollows
  <2>2. Hunt(n, d).level = raw
    BY <1>1 DEF Hunt, ChainState
  <2> QED
    BY <1>2, <1>4, <1>7, <2>1, <2>2
<1>8. CASE n.open /\ n.ones < STUFF_RUN
  <2>1. Follows(Take(n, d), RefBit(s, d), b)
    BY <1>3, <1>5, <1>8, <1>b, TakeFollows
  <2>2. Take(n, d).level = raw
    BY <1>1 DEF Take, ChainState
  <2> QED
    BY <1>2, <1>4, <1>8, <2>1, <2>2
<1>9. CASE n.open /\ ~(n.ones < STUFF_RUN)
  <2>1. n.ones = STUFF_RUN
    BY <1>6, <1>9 DEF STUFF_RUN
  <2>2. /\ Follows(Violate(n), RefBit(s, 1), b)
        /\ Follows([n EXCEPT !.zero = 0, !.ones = 0], RefBit(s, 0), b)
    BY <1>5, <1>9, <1>b, <2>1, SixthFollows
  <2>3. Violate(n).level = raw /\ [n EXCEPT !.zero = 0, !.ones = 0].level = raw
    BY <1>1 DEF Violate, ChainState
  <2>4. CASE d = 1
    BY <1>2, <1>4, <1>9, <2>2, <2>3, <2>4
  <2>5. CASE d = 0
    BY <1>2, <1>4, <1>9, <2>2, <2>3, <2>5
  <2> QED
    BY <1>3, <2>4, <2>5
<1> QED
  BY <1>7, <1>8, <1>9

(* At the last bit of the EOP the decoder reports the END of a packet whose bytes
   it has reported before this word: a byte of the same word would have left fewer
   than seven bits pending. *)
LEMMA BitEnds ==
  ASSUME NEW c, NEW i \in 0..4, ChainInv(c, i), NEW s, NEW b \in Seq(Byte), Follows(c, s, b),
         NEW p \in Seq(Byte), s.inPacket, s.run = STUFF_RUN,
         s.bits = PayloadDataBits(p) \o EopTaken(7)
  PROVE  BitStep(c, c.level).events = <<"END">> /\ b = p
<1>0. /\ c \in ChainState /\ Len(c.acc) < 8 /\ c.acc \in Seq(Bit) /\ c.level \in Bit
      /\ c.bytes \in Seq(Byte)
  BY DEF ChainInv, ChainState
<1>1. PICK y \in Seq(Byte) : y = Total(c, b)
  BY DEF Follows
<1>2. c.open /\ c.ones = STUFF_RUN /\ s.bits = PayloadDataBits(y) \o c.acc
  BY <1>1 DEF Follows
<1>3. EopTaken(7) \in Seq(Bit) /\ Len(EopTaken(7)) = 7
  BY DEF EopTaken, Bit
<1>4. Len(c.acc) = 7 /\ y = p
  <2>1. PICK t \in Seq(Bit), a \in Seq(Bit) : t = EopTaken(7) /\ Len(t) = 7 /\ a = c.acc
    BY <1>0, <1>3
  <2>2. PayloadDataBits(y) \o a = PayloadDataBits(p) \o t
    BY <1>2, <2>1
  <2> QED
    BY <1>0, <2>1, <2>2, PayloadIsTold
<1>5. c.events = <<>>
  <2>1. ~(c.ones <= i)
    BY <1>2 DEF STUFF_RUN
  <2> QED
    BY <1>2, <2>1, Zenon DEF ChainInv
<1>6. c.bytes = <<>>
  <2>1. ~(Len(c.acc) < i)
    BY <1>4
  <2> QED
    BY <2>1, Zenon DEF ChainInv
<1>7. b = p
  <2>1. b \o <<>> = b
    BY ConcatEmptySeq
  <2> QED
    BY <1>1, <1>4, <1>5, <1>6, <2>1 DEF Total
<1>8. BitStep(c, c.level).events = <<"END">>
  <2> DEFINE n == [c EXCEPT !.level = c.level]
  <2>1. n = c
    BY <1>0 DEF ChainState
  <2>2. BitStep(c, c.level) = Violate(n)
    <3>1. ~(c.ones < STUFF_RUN)
      BY <1>2 DEF STUFF_RUN
    <3> QED
      BY <1>2, <3>1 DEF BitStep
  <2>3. Append(<<>>, "END") = <<"END">>
    OBVIOUS
  <2> HIDE DEF n
  <2> QED
    BY <1>0, <1>4, <1>5, <2>1, <2>2, <2>3 DEF Violate, EOP_BITS, ChainState
<1> QED
  BY <1>7, <1>8

(* On a packet with payload p of which r is still to come: the ideal decoder is on
   its way through it, or both have just finished it. *)
Going(c, s, r, p, b) ==
  /\ Follows(c, s, b) /\ r \in Seq(Bit) /\ c.level \in Bit
  /\ \/ Midway(s, p, NrziDecode(r, c.level))
     \/ Finished(s, p, NrziDecode(r, c.level)) /\ c.events = <<"END">> /\ b = p

\* While there is more of it to come the ideal decoder has not finished it.
LEMMA MoreToCome ==
  ASSUME NEW c, NEW s, NEW r, NEW p \in Seq(Byte), NEW b, Going(c, s, r, p, b)
  PROVE  IF r = <<>> THEN Finished(s, p, <<>>) /\ c.events = <<"END">> /\ b = p
                     ELSE Midway(s, p, NrziDecode(r, c.level)) /\ s.packets = <<>>
<1>0. r \in Seq(Bit) /\ c.level \in Bit /\ s \in RefStates
  BY DEF Going, Follows
<1>1. Len(NrziDecode(r, c.level)) = Len(r) /\ NrziDecode(r, c.level) \in Seq(Bit)
  BY <1>0, NrziDecodeType
<1>2. r = <<>> <=> NrziDecode(r, c.level) = <<>>
  BY <1>0, <1>1, EmptySeq
<1>3. Finished(s, p, NrziDecode(r, c.level)) => r = <<>>
  BY <1>2 DEF Finished
<1>4. Midway(s, p, NrziDecode(r, c.level)) => s.packets = <<>>
  BY DEF Midway
<1>5. ~Midway(s, p, <<>>)
  <2> SUFFICES ASSUME Midway(s, p, <<>>) PROVE FALSE
    OBVIOUS
  <2>1. Readable(<<>>)
    BY <1>0, MidwayReads
  <2> QED
    BY <2>1 DEF Readable
<1> QED
  BY <1>2, <1>3, <1>4, <1>5 DEF Going

\* One line bit of a packet.
LEMMA GoingStep ==
  ASSUME NEW c, NEW i \in 0..4, ChainInv(c, i), NEW s, NEW p \in Seq(Byte), NEW b \in Seq(Byte),
         NEW r, r # <<>>, Going(c, s, r, p, b)
  PROVE  Going(BitStep(c, Head(r)), RefBit(s, IF Head(r) = c.level THEN 1 ELSE 0), Tail(r), p, b)
<1>0. r \in Seq(Bit) /\ c.level \in Bit /\ s \in RefStates /\ Follows(c, s, b)
      /\ Midway(s, p, NrziDecode(r, c.level))
  BY MoreToCome DEF Going, Follows
<1>1. PICK raw \in Bit, t \in Seq(Bit) : raw = Head(r) /\ t = Tail(r)
  BY <1>0, HeadTailProperties
<1>2. PICK d : d = IF raw = c.level THEN 1 ELSE 0
  OBVIOUS
<1>3. PICK x : x = NrziDecode(r, c.level)
  OBVIOUS
<1>4. Head(x) = d /\ Tail(x) = NrziDecode(t, raw)
  BY <1>0, <1>1, <1>2, <1>3, NrziHead
<1>5. PICK e, u : e = BitStep(c, raw) /\ u = RefBit(s, d)
  OBVIOUS
<1>6. Follows(e, u, b) /\ e.level = raw
  BY <1>0, <1>1, <1>2, <1>5, BitFollows
<1>7. \/ Midway(u, p, Tail(x))
      \/ /\ Finished(u, p, Tail(x)) /\ d = 1
         /\ s.run = STUFF_RUN /\ s.inPacket /\ s.bits = PayloadDataBits(p) \o EopTaken(7)
  BY <1>0, <1>3, <1>4, <1>5, MidwayReads
<1>8. Finished(u, p, Tail(x)) /\ ~Midway(u, p, Tail(x)) => e.events = <<"END">> /\ b = p
  <2> SUFFICES ASSUME Finished(u, p, Tail(x)), ~Midway(u, p, Tail(x))
               PROVE  e.events = <<"END">> /\ b = p
    OBVIOUS
  <2>1. /\ d = 1 /\ s.run = STUFF_RUN /\ s.inPacket
        /\ s.bits = PayloadDataBits(p) \o EopTaken(7)
    BY <1>7
  <2>2. raw = c.level
    BY <1>2, <2>1
  <2>3. BitStep(c, c.level).events = <<"END">> /\ b = p
    BY <1>0, <2>1, BitEnds
  <2> QED
    BY <1>5, <2>2, <2>3
<1>9. Going(e, u, t, p, b)
  BY <1>1, <1>4, <1>6, <1>7, <1>8 DEF Going
<1> QED
  BY <1>1, <1>2, <1>5, <1>9

(* A word of a packet: the ideal decoder reads the same bits. *)
LEMMA GoingWord ==
  ASSUME TypeOK, NEW p \in Seq(Byte), NEW b \in Seq(Byte), NEW L \in Seq(Bit), NEW s,
         Going(Registers, s, L, p, b), NEW k \in 1..5, k <= Len(L),
         NEW word, word = SubSeq(L, 1, k)
  PROVE  /\ word \in Word
         /\ Going(Chain(word), RefRead(s, NrziDecode(word, last_level)), SubSeq(L, k + 1, Len(L)), p, b)
<1>1. PICK n \in Nat : n = Len(L)
  BY LenProperties
<1>2. k <= n /\ k \in 1..n
  BY <1>1
<1>3. word \in Seq(Bit) /\ Len(word) = k /\ \A i \in 1..k : word[i] = L[i]
  <2>1. \A i \in 1..k : L[i] \in Bit
    <3>1. \A i \in 1..k : i \in 1..n
      BY <1>2
    <3> QED
      BY <1>1, <3>1, ElementOfSeq
  <2>2. /\ SubSeq(L, 1, k) \in Seq(Bit)
        /\ Len(SubSeq(L, 1, k)) = IF 1 <= k THEN k - 1 + 1 ELSE 0
        /\ \A i \in 1..(k - 1 + 1) : SubSeq(L, 1, k)[i] = L[1 + i - 1]
    BY <2>1, SubSeqProperties
  <2>3. k - 1 + 1 = k /\ \A i \in 1..k : 1 + i - 1 = i
    OBVIOUS
  <2> QED
    BY <2>2, <2>3
<1>4. word \in Word
  <2>1. word \in [1..k -> Bit]
    BY <1>3, LenProperties
  <2>2. k \in 0..MAX_BITS
    BY DEF MAX_BITS
  <2> QED
    BY <2>1, <2>2 DEF Word
<1>5. last_level \in Bit /\ s \in RefStates
  BY DEF TypeOK, Going, Follows
<1>6. PICK D \in Seq(Bit) : D = NrziDecode(word, last_level) /\ Len(D) = k
  BY <1>3, <1>5, NrziDecodeType
<1>7. \A i \in 1..k : D[i] = IF L[i] = (IF i = 1 THEN last_level ELSE L[i - 1]) THEN 1 ELSE 0
  <2>1. \A i \in 1..k : D[i] = IF word[i] = (IF i = 1 THEN last_level ELSE word[i - 1]) THEN 1 ELSE 0
    BY <1>3, <1>6 DEF NrziDecode
  <2>2. \A i \in 1..k : i # 1 => i - 1 \in 1..k
    OBVIOUS
  <2> QED
    BY <1>3, <2>1, <2>2
<1>8. PICK g : /\ g[0] = s /\ RefRead(s, D) = g[k]
               /\ \A i \in 0..k : g[i] \in RefStates
               /\ \A i \in 1..k : g[i] = RefBit(g[i - 1], D[i])
  <2>1. k = Len(D) /\ D \in Seq(Bit) /\ s \in RefStates
    BY <1>5, <1>6
  <2>2. PICK g : RefRuns(g, s, D, k)
    BY <2>1, RefReadRuns
  <2> QED
    BY <2>2 DEF RefRuns
<1> DEFINE At(c, m) == /\ Going(c, g[m], SubSeq(L, m + 1, n), p, b)
                       /\ c.level = IF m = 0 THEN last_level ELSE L[m]
           Place(c, i) == ChainInv(c, i) /\ At(c, IF i <= k THEN i ELSE k)
           bit(c, i) == IF i <= Len(word) THEN BitStep(c, word[i]) ELSE c
<1>9. ASSUME NEW c, NEW i \in 0..4, Place(c, i) PROVE Place(bit(c, i + 1), i + 1)
  <2>1. ChainInv(bit(c, i + 1), i + 1)
    BY <1>4, <1>9, ChainPlace
  <2>2. CASE i + 1 <= k
    <3>1. PICK m \in 1..k : m = i + 1 /\ m - 1 = i /\ m \in 1..n
      BY <1>2, <2>2
    <3>2. At(c, i)
      BY <1>9, <2>2
    <3>3. PICK r \in Seq(Bit) : r = SubSeq(L, m, n)
      BY <3>1, <3>2 DEF Going
    <3>4. Head(r) = L[m] /\ Tail(r) = SubSeq(L, m + 1, n) /\ r # <<>>
      <4>1. n \in m..n
        BY <3>1
      <4>2. Head(r) = L[m] /\ Tail(r) = SubSeq(L, m + 1, n)
        BY <1>1, <3>1, <3>3, <4>1, HeadTailOfSubSeq
      <4>3. Len(r) = n - m + 1
        <5>1. \A j \in m..n : L[j] \in Bit
          <6>1. \A j \in m..n : j \in 1..n
            BY <3>1
          <6> QED
            BY <1>1, <6>1, ElementOfSeq
        <5>2. Len(SubSeq(L, m, n)) = IF m <= n THEN n - m + 1 ELSE 0
          BY <5>1, SubSeqProperties
        <5> QED
          BY <3>1, <3>3, <5>2
      <4>4. r # <<>>
        BY <3>1, <4>3
      <4> QED
        BY <4>2, <4>4
    <3>5. D[m] = IF Head(r) = c.level THEN 1 ELSE 0
      <4>1. c.level = IF m = 1 THEN last_level ELSE L[m - 1]
        BY <3>1, <3>2
      <4> QED
        BY <1>7, <3>1, <3>4, <4>1
    <3>6. g[m] = RefBit(g[i], D[m])
      BY <1>8, <3>1
    <3>7. Going(c, g[i], r, p, b) /\ ChainInv(c, i)
      BY <1>9, <3>1, <3>2, <3>3
    <3>8. bit(c, i + 1) = BitStep(c, Head(r))
      BY <1>3, <2>2, <3>1, <3>4
    <3>9. PICK e : e = BitStep(c, Head(r))
      OBVIOUS
    <3>10. Going(e, g[m], Tail(r), p, b)
      BY <3>4, <3>5, <3>6, <3>7, <3>9, GoingStep
    <3>11. e.level = L[m]
      <4>1. PICK q : q = g[i]
        OBVIOUS
      <4>2. Follows(c, q, b) /\ Head(r) \in Bit
        BY <3>3, <3>4, <3>7, <4>1, HeadTailProperties DEF Going
      <4>3. BitStep(c, Head(r)).level = Head(r)
        BY <3>7, <4>2, BitFollows
      <4> QED
        BY <3>4, <3>9, <4>3
    <3>12. At(e, m)
      <4>1. m # 0
        BY <3>1
      <4>2. Going(e, g[m], SubSeq(L, m + 1, n), p, b)
        BY <3>4, <3>10
      <4> QED
        BY <3>11, <4>1, <4>2
    <3> QED
      BY <2>1, <2>2, <3>1, <3>8, <3>9, <3>12
  <2>3. CASE ~(i + 1 <= k)
    <3>1. bit(c, i + 1) = c
      BY <1>3, <2>3
    <3>2. At(c, k)
      BY <1>9, <2>3
    <3> QED
      BY <2>1, <2>3, <3>1, <3>2
  <2> QED
    BY <2>2, <2>3
<1> DEFINE c1 == bit(Registers, 1)
           c2 == bit(c1, 2)
           c3 == bit(c2, 3)
           c4 == bit(c3, 4)
           c5 == bit(c4, 5)
<1>10. Place(Registers, 0)
  <2>1. ChainInv(Registers, 0)
    BY RegistersInv
  <2>2. SubSeq(L, 0 + 1, n) = L
    BY <1>1, SubSeqFull
  <2>3. Registers.level = last_level
    BY DEF Registers
  <2> QED
    <3>1. At(Registers, 0)
      BY <1>8, <2>2, <2>3
    <3>2. (IF 0 <= k THEN 0 ELSE k) = 0
      OBVIOUS
    <3> QED
      BY <2>1, <3>1, <3>2
<1> HIDE DEF Place, bit
<1>11. Place(c1, 1)
  BY <1>9, <1>10
<1>12. Place(c2, 2)
  <2> HIDE DEF c1
  <2> QED BY <1>9, <1>11
<1>13. Place(c3, 3)
  <2> HIDE DEF c1, c2
  <2> QED BY <1>9, <1>12
<1>14. Place(c4, 4)
  <2> HIDE DEF c1, c2, c3
  <2> QED BY <1>9, <1>13
<1>15. Place(c5, 5)
  <2> HIDE DEF c1, c2, c3, c4
  <2> QED BY <1>9, <1>14
<1>16. Chain(word) = c5
  BY Zenon DEF Chain, bit
<1> HIDE DEF c5
<1>17. At(c5, k)
  BY <1>15 DEF Place
<1>18. Going(c5, g[k], SubSeq(L, k + 1, n), p, b)
  BY <1>17
<1> QED
  BY <1>1, <1>4, <1>6, <1>8, <1>16, <1>18

-----------------------------------------------------------------------------
(* Silence, and the packets that follow it.                                    *)

\* What j bits without an edge leave: no packet and no zeros, or a run of ones.
Quiet(c, j) == IF c.open THEN c.ones >= j ELSE j = 0 \/ c.zero = 0

\* One more of them.
LEMMA QuietStep ==
  ASSUME NEW c \in ChainState, NEW j \in Nat, Quiet(c, j)
  PROVE  Quiet(BitStep(c, c.level), j + 1) /\ BitStep(c, c.level).level = c.level
<1>0. c.zero \in 0..8 /\ c.ones \in 0..6 /\ c.open \in BOOLEAN
  BY DEF ChainState, SYNC_ZEROS, STUFF_RUN
<1>1. [c EXCEPT !.level = c.level] = c
  BY DEF ChainState
<1>2. BitStep(c, c.level) = IF ~c.open THEN Hunt(c, 1)
                            ELSE IF c.ones < STUFF_RUN THEN Take(c, 1) ELSE Violate(c)
  BY <1>1 DEF BitStep
<1>3. CASE ~c.open /\ c.zero >= SYNC_ZEROS
  <2>1. j = 0
    BY <1>0, <1>3 DEF Quiet, SYNC_ZEROS
  <2>2. Hunt(c, 1).open = TRUE /\ Hunt(c, 1).ones = 1 /\ Hunt(c, 1).level = c.level
    BY <1>3 DEF Hunt, ChainState
  <2>3. Hunt(c, 1).ones >= j + 1
    BY <2>1, <2>2
  <2> QED
    BY <1>2, <1>3, <2>2, <2>3 DEF Quiet
<1>4. CASE ~c.open /\ ~(c.zero >= SYNC_ZEROS)
  <2>1. Hunt(c, 1).open = c.open /\ Hunt(c, 1).zero = 0 /\ Hunt(c, 1).level = c.level
    BY <1>4 DEF Hunt, ChainState
  <2> QED
    BY <1>2, <1>4, <2>1 DEF Quiet
<1>5. CASE c.open /\ c.ones < STUFF_RUN
  <2>1. Take(c, 1).open = c.open /\ Take(c, 1).ones = c.ones + 1 /\ Take(c, 1).level = c.level
    BY <1>5 DEF Take, ChainState
  <2>2. c.ones + 1 >= j + 1
    BY <1>0, <1>5 DEF Quiet
  <2> QED
    BY <1>2, <1>5, <2>1, <2>2 DEF Quiet
<1>6. CASE c.open /\ ~(c.ones < STUFF_RUN)
  <2>1. Violate(c).open = FALSE /\ Violate(c).zero = 0 /\ Violate(c).level = c.level
    BY DEF Violate, ChainState
  <2> QED
    BY <1>2, <1>6, <2>1 DEF Quiet
<1> QED
  BY <1>3, <1>4, <1>5, <1>6

\* A word without an edge.
LEMMA SilentWord ==
  ASSUME TypeOK, NEW j \in Nat, Quiet(Registers, j),
         NEW word, word = [i \in 1..4 |-> last_level]
  PROVE  word \in Word /\ Quiet(Chain(word), j + 4) /\ ChainInv(Chain(word), 5)
<1> DEFINE bit(c, i) == IF i <= Len(word) THEN BitStep(c, word[i]) ELSE c
           Place(c, i) == ChainInv(c, i) /\ Quiet(c, j + i) /\ c.level = last_level
           c1 == bit(Registers, 1)
           c2 == bit(c1, 2)
           c3 == bit(c2, 3)
           c4 == bit(c3, 4)
           c5 == bit(c4, 5)
<1>1. word \in Seq(Bit) /\ Len(word) = 4 /\ word \in [1..4 -> Bit] /\ \A i \in 1..4 : word[i] = last_level
  BY DEF TypeOK
<1>2. word \in Word
  <2>1. 4 \in 0..MAX_BITS
    BY DEF MAX_BITS
  <2> QED
    BY <1>1, <2>1 DEF Word
<1>3. ASSUME NEW c, NEW i \in 0..3, Place(c, i) PROVE Place(bit(c, i + 1), i + 1)
  <2>1. i \in 0..4 /\ i + 1 \in 1..4 /\ i + 1 <= 4 /\ j + i \in Nat
    OBVIOUS
  <2>2. bit(c, i + 1) = BitStep(c, c.level)
    BY <1>1, <1>3, <2>1
  <2>3. ChainInv(bit(c, i + 1), i + 1)
    BY <1>2, <1>3, <2>1, ChainPlace
  <2>4. c \in ChainState
    BY <1>3 DEF ChainInv
  <2>5. Quiet(BitStep(c, c.level), (j + i) + 1) /\ BitStep(c, c.level).level = c.level
    BY <1>3, <2>1, <2>4, QuietStep
  <2>6. (j + i) + 1 = j + (i + 1)
    OBVIOUS
  <2> QED
    BY <1>3, <2>2, <2>3, <2>5, <2>6
<1>4. Place(Registers, 0)
  <2>1. ChainInv(Registers, 0)
    BY RegistersInv
  <2>2. j + 0 = j /\ Registers.level = last_level
    BY DEF Registers
  <2> QED
    BY <2>1, <2>2
<1> HIDE DEF Place, bit
<1>5. Place(c1, 1)
  BY <1>3, <1>4
<1>6. Place(c2, 2)
  <2> HIDE DEF c1
  <2> QED BY <1>3, <1>5
<1>7. Place(c3, 3)
  <2> HIDE DEF c1, c2
  <2> QED BY <1>3, <1>6
<1>8. Place(c4, 4)
  <2> HIDE DEF c1, c2, c3
  <2> QED BY <1>3, <1>7
<1>9. c5 = c4
  BY <1>1 DEF bit
<1>10. Chain(word) = c5
  BY Zenon DEF Chain, bit
<1> HIDE DEF c4, c5
<1>11. Quiet(c4, j + 4)
  BY <1>8 DEF Place
<1>12. ChainInv(Chain(word), 5)
  BY <1>2, ChainWord
<1> QED
  BY <1>2, <1>9, <1>10, <1>11, <1>12

\* The bytes of the open packet as the UTMI side has seen them.
Before == IF in_packet THEN got ELSE <<>>
\* They are known exactly while a packet that came after silence is open.
GotInv == IF trusted /\ in_packet THEN got \in Seq(Byte) ELSE got = NoData

(* The decoder has followed the ideal one through what has been read of the packet
   on the line; a line that was silent is quiet. *)
MCInv ==
  /\ Inv /\ GotInv
  /\ line \in Seq(Bit) /\ still \in 0..2 /\ trusted \in BOOLEAN
  /\ Quiet(Registers, 4 * still)
  /\ line # <<>> => /\ trusted /\ still = 0 /\ payload \in Seq(Byte)
                    /\ Going(Registers, ref, line, payload, Before)

\* A word read with activity leaves in the registers what the chain has computed.
LEMMA DecodeActive ==
  ASSUME TypeOK, NEW word \in Word, Decode(word, TRUE)
  PROVE  LET c == Chain(word)
         IN  /\ ChainInv(c, 5)
             /\ last_level' = c.level /\ zero_run' = c.zero /\ ones_run' = c.ones
             /\ acc' = c.acc /\ bytes' = c.bytes /\ in_packet' = c.open /\ events' = c.events
<1>1. ChainInv(Chain(word), 5)
  BY ChainWord
<1> DEFINE c == Chain(word)
<1>2. ~Lost(c, TRUE)
  BY DEF Lost
<1>3. c.open \in BOOLEAN
  BY <1>1 DEF ChainInv, ChainState
<1>4. /\ last_level' = c.level /\ zero_run' = c.zero /\ ones_run' = c.ones
      /\ acc' = c.acc /\ bytes' = c.bytes
      /\ in_packet' = (c.open /\ ~Lost(c, TRUE))
      /\ events' = IF Lost(c, TRUE) THEN <<"ERROR">> ELSE c.events
  BY Zenon DEF Decode
<1>5. in_packet' = c.open
  <2>1. CASE c.open
    <3>1. c.open = TRUE
      BY <1>3, <2>1
    <3> QED
      BY <1>2, <1>4, <3>1, Zenon
  <2>2. CASE ~c.open
    <3>1. c.open = FALSE
      BY <1>3, <2>2
    <3> QED
      BY <1>2, <1>4, <3>1, Zenon
  <2> QED
    BY <2>1, <2>2
<1> QED
  BY <1>1, <1>2, <1>4, <1>5

\* The UTMI side's history after a word of a packet.
LEMMA CollectStep ==
  ASSUME TypeOK, GotInv, trusted, trusted', NEW word \in Word, Decode(word, TRUE), Collect
  PROVE  GotInv' /\ Before \in Seq(Byte)
         /\ (in_packet' => Before' = Total(Chain(word), Before))
<1> DEFINE c == Chain(word)
<1>1. /\ ChainInv(c, 5)
      /\ bytes' = c.bytes /\ in_packet' = c.open /\ events' = c.events
  BY Zenon, DecodeActive
<1>2. /\ TypeOK'
      /\ bytes' = <<>> \/ (in_packet /\ Len(bytes') = 1)
      /\ \/ events' = <<>> /\ in_packet' = in_packet
         \/ events' = <<"START">> /\ ~in_packet /\ in_packet' /\ bytes' = <<>>
         \/ events' = <<"END">> /\ in_packet /\ ~in_packet' /\ bytes' = <<>>
         \/ events' = <<"ERROR">> /\ in_packet /\ ~in_packet'
  <2>1. TRUE \in BOOLEAN
    OBVIOUS
  <2> QED
    BY <2>1, DecodeStep
<1> HIDE DEF c
<1>3. in_packet \in BOOLEAN /\ in_packet' \in BOOLEAN /\ bytes' \in Seq(Byte)
  BY <1>2 DEF TypeOK
<1>4. Before \in Seq(Byte)
  BY DEF Before, GotInv
<1>5. got # NoData <=> in_packet
  BY NoBytesAssumption DEF GotInv
<1>6. got' = IF ~(trusted' /\ (event' = "START" \/ (got # NoData /\ event' = "NONE"))) THEN NoData
             ELSE IF data' = NoData THEN IF event' = "START" THEN <<>> ELSE got
             ELSE Append(IF event' = "START" THEN <<>> ELSE got, data')
  BY DEF Collect
<1>7. bytes' = <<>> => data' = NoData
  BY DEF data
<1>8. CASE events' = <<>> /\ in_packet' = in_packet
  <2>1. event' = "NONE"
    BY <1>8 DEF event
  <2>2. CASE ~in_packet
    <3>1. got' = NoData
      BY <1>5, <1>6, <2>1, <2>2
    <3> QED
      BY <1>4, <1>8, <2>2, <3>1 DEF GotInv
  <2>3. CASE in_packet
    <3>1. Before = got /\ got \in Seq(Byte)
      BY <2>3 DEF Before, GotInv
    <3>2. Total(c, Before) = got \o bytes'
      BY <1>1, <1>8, <3>1 DEF Total
    <3>3. CASE bytes' = <<>>
      <4>1. got' = got
        BY <1>5, <1>6, <1>7, <2>1, <2>3, <3>3
      <4>2. got \o <<>> = got
        BY <3>1, ConcatEmptySeq
      <4>3. Before' = got'
        BY <1>8, <2>3 DEF Before
      <4> QED
        BY <1>4, <1>8, <2>3, <3>1, <3>2, <3>3, <4>1, <4>2, <4>3 DEF GotInv, c
    <3>4. CASE bytes' # <<>>
      <4>1. Len(bytes') = 1
        BY <1>2, <3>4
      <4>2. PICK v \in Byte : v = bytes'[1]
        BY <1>3, <4>1, ElementOfSeq
      <4>3. data' = v /\ v # NoData
        BY <3>4, <4>1, <4>2, NoDataAssumption DEF data
      <4>4. got' = Append(got, v)
        BY <1>5, <1>6, <2>1, <2>3, <4>3
      <4>5. PICK h \in Seq(Byte) : h = <<v>>
        <5>1. <<v>> \in Seq(Byte)
          BY <4>2
        <5> QED
          BY <5>1
      <4>6. bytes' = h
        BY <1>3, <4>1, <4>2, <4>5
      <4>7. Append(got, v) = got \o h /\ Append(got, v) \in Seq(Byte)
        BY <3>1, <4>2, <4>5, AppendIsConcat, AppendProperties
      <4>8. Before' = got'
        BY <1>8, <2>3 DEF Before
      <4> QED
        BY <1>4, <1>8, <2>3, <3>2, <4>4, <4>6, <4>7, <4>8 DEF GotInv, c
    <3> QED
      BY <3>3, <3>4
  <2> QED
    BY <2>2, <2>3
<1>9. CASE events' = <<"START">> /\ ~in_packet /\ in_packet' /\ bytes' = <<>>
  <2>1. event' = "START"
    BY <1>9 DEF event
  <2>2. got' = <<>>
    BY <1>6, <1>7, <1>9, <2>1
  <2>3. Before' = <<>>
    BY <1>9, <2>2 DEF Before
  <2>4. Total(c, Before) = <<>>
    BY <1>1, <1>9 DEF Total
  <2>5. GotInv'
    BY <1>9, <2>2 DEF GotInv
  <2> QED
    BY <1>4, <2>3, <2>4, <2>5 DEF c
<1>10. CASE ~in_packet' /\ (events' = <<"END">> \/ events' = <<"ERROR">>)
  <2>1. event' # "START" /\ event' # "NONE"
    BY <1>10 DEF event
  <2>2. got' = NoData
    BY <1>6, <2>1
  <2> QED
    BY <1>4, <1>10, <2>2 DEF GotInv
<1> QED
  BY <1>2, <1>8, <1>9, <1>10

\* A word that is not part of a trusted packet leaves no history.
LEMMA CollectNothing ==
  ASSUME trusted' = FALSE, Collect
  PROVE  GotInv'
<1>1. got' = NoData
  BY DEF Collect
<1> QED
  BY <1>1 DEF GotInv

\* The registers take over from the chain.
LEMMA FollowsOn ==
  ASSUME TypeOK', NEW c, c \in ChainState, NEW s, NEW b, Follows(c, s, b),
         last_level' = c.level, zero_run' = c.zero, ones_run' = c.ones, acc' = c.acc,
         in_packet' = c.open, in_packet' => Before' = Total(c, b)
  PROVE  Follows(Registers', s, Before')
<1>1. PICK e : e = Registers'
  OBVIOUS
<1>2. /\ e.zero = c.zero /\ e.ones = c.ones /\ e.acc = c.acc /\ e.open = c.open
      /\ e.events = <<>> /\ e.bytes = <<>>
  BY <1>1 DEF Registers
<1>3. CASE c.open
  <2>1. Total(c, b) \in Seq(Byte)
    BY <1>3 DEF Follows
  <2>2. Total(e, Before') = Total(c, b)
    <3>1. Total(c, b) \o <<>> = Total(c, b)
      BY <2>1, ConcatEmptySeq
    <3>2. Before' = Total(c, b)
      BY <1>3
    <3>3. Total(e, Before') = Before' \o <<>>
      BY <1>2 DEF Total
    <3> QED
      BY <3>1, <3>2, <3>3
  <2>3. Follows(e, s, Before')
    BY <1>2, <1>3, <2>2 DEF Follows
  <2> QED
    BY <1>1, <2>3
<1>4. CASE ~c.open
  <2>1. Follows(e, s, Before')
    BY <1>2, <1>4 DEF Follows
  <2> QED
    BY <1>1, <2>1
<1> QED
  BY <1>3, <1>4

\* One more word of a packet.
LEMMA PacketWordStep ==
  ASSUME MCInv, PacketWord
  PROVE  /\ Inv' /\ GotInv' /\ line' \in Seq(Bit) /\ still' = 0 /\ trusted' = TRUE
         /\ payload' = payload /\ payload \in Seq(Byte) /\ ref.packets = <<>>
         /\ line' # <<>> => Going(Registers', ref', line', payload, Before')
         /\ line' = <<>> => event' = "END" /\ got = payload /\ ref'.packets = <<payload>>
<1>1. /\ line # <<>> /\ still' = still /\ trusted' = trusted /\ payload' = payload
      /\ TypeOK /\ GotInv /\ line \in Seq(Bit) /\ trusted \in BOOLEAN
      /\ trusted /\ still = 0 /\ payload \in Seq(Byte)
      /\ Going(Registers, ref, line, payload, Before)
  BY DEF PacketWord, MCInv, Inv
<1>2. PICK n \in 3..MAX_BITS :
        LET k == IF n < Len(line) THEN n ELSE Len(line)
            word == SubSeq(line, 1, k)
        IN  /\ Decode(word, TRUE) /\ Collect
            /\ ref' = RefRead(ref, NrziDecode(word, last_level))
            /\ line' = SubSeq(line, k + 1, Len(line))
  BY DEF PacketWord
<1>3. PICK k \in 1..5 : k = (IF n < Len(line) THEN n ELSE Len(line)) /\ k <= Len(line)
  <2>1. PICK m \in Nat : m = Len(line) /\ m # 0
    <3>1. Len(line) \in Nat /\ Len(line) # 0
      BY <1>1, LenProperties, EmptySeq
    <3> QED
      BY <3>1
  <2>2. n \in 3..5
    BY <1>2 DEF MAX_BITS
  <2>3. CASE n < m
    BY <2>1, <2>2, <2>3
  <2>4. CASE ~(n < m)
    BY <2>1, <2>2, <2>4
  <2> QED
    BY <2>3, <2>4
<1>4. PICK word : word = SubSeq(line, 1, k)
  OBVIOUS
<1>5. /\ Decode(word, TRUE) /\ Collect
      /\ ref' = RefRead(ref, NrziDecode(word, last_level))
      /\ line' = SubSeq(line, k + 1, Len(line))
  BY <1>2, <1>3, <1>4
<1>6. Before \in Seq(Byte)
  BY <1>1 DEF Before, GotInv
<1>7. word \in Word /\ Going(Chain(word), ref', line', payload, Before)
  <2>1. PICK p, b, L, s :
          /\ p \in Seq(Byte) /\ b \in Seq(Byte) /\ L \in Seq(Bit)
          /\ p = payload /\ b = Before /\ L = line /\ s = ref
    BY <1>1, <1>6
  <2>2. Going(Registers, s, L, p, b) /\ k <= Len(L) /\ word = SubSeq(L, 1, k)
    BY <1>1, <1>3, <1>4, <2>1
  <2>3. /\ word \in Word
        /\ Going(Chain(word), RefRead(s, NrziDecode(word, last_level)), SubSeq(L, k + 1, Len(L)), p, b)
    BY <1>1, <1>3, <2>1, <2>2, GoingWord
  <2> QED
    BY <1>5, <2>1, <2>3
<1>8. /\ ChainInv(Chain(word), 5)
      /\ last_level' = Chain(word).level /\ zero_run' = Chain(word).zero
      /\ ones_run' = Chain(word).ones /\ acc' = Chain(word).acc /\ bytes' = Chain(word).bytes
      /\ in_packet' = Chain(word).open /\ events' = Chain(word).events
  BY <1>1, <1>5, <1>7, DecodeActive
<1>9. TypeOK' /\ NothingOverwritten'
  <2>1. TRUE \in BOOLEAN
    OBVIOUS
  <2> QED
    BY <1>1, <1>5, <1>7, <2>1, DecodeStep
<1>10. GotInv' /\ (in_packet' => Before' = Total(Chain(word), Before))
  BY <1>1, <1>5, <1>7, CollectStep
<1>11. PICK c \in ChainState : c = Chain(word)
  BY <1>8 DEF ChainInv
<1>12. Follows(Registers', ref', Before')
  <2>1. PICK s, b : s = ref' /\ b = Before
    OBVIOUS
  <2>2. Follows(c, s, b)
    BY <1>7, <1>11, <2>1 DEF Going
  <2>3. Follows(Registers', s, Before')
    BY <1>8, <1>9, <1>10, <1>11, <2>1, <2>2, FollowsOn
  <2> QED
    BY <2>1, <2>3
<1>13. Registers'.level = c.level /\ c.level \in Bit /\ line' \in Seq(Bit)
  BY <1>7, <1>8, <1>11 DEF Registers, Going
<1>14. IF line' = <<>> THEN Finished(ref', payload, <<>>) /\ c.events = <<"END">> /\ Before = payload
                       ELSE Midway(ref', payload, NrziDecode(line', c.level))
  <2>1. PICK s, p, r, b : s = ref' /\ p = payload /\ r = line' /\ b = Before
    OBVIOUS
  <2>2. Going(c, s, r, p, b) /\ p \in Seq(Byte)
    BY <1>1, <1>7, <1>11, <2>1
  <2>3. IF r = <<>> THEN Finished(s, p, <<>>) /\ c.events = <<"END">> /\ b = p
                    ELSE Midway(s, p, NrziDecode(r, c.level)) /\ s.packets = <<>>
    BY <2>2, MoreToCome
  <2> QED
    BY <2>1, <2>3
<1>15. ref.packets = <<>>
  <2>1. PICK s, p, r, b, e :
          s = ref /\ p = payload /\ r = line /\ b = Before /\ e = Registers
    OBVIOUS
  <2>2. Going(e, s, r, p, b) /\ r # <<>> /\ p \in Seq(Byte)
    BY <1>1, <2>1
  <2>3. s.packets = <<>>
    BY <2>2, MoreToCome
  <2> QED
    BY <2>1, <2>3
<1>16. line' # <<>> => Going(Registers', ref', line', payload, Before')
  BY <1>12, <1>13, <1>14 DEF Going
<1>17. line' = <<>> => event' = "END" /\ got = payload /\ ref'.packets = <<payload>>
  <2> SUFFICES ASSUME line' = <<>> PROVE event' = "END" /\ got = payload /\ ref'.packets = <<payload>>
    OBVIOUS
  <2>1. Finished(ref', payload, <<>>) /\ c.events = <<"END">> /\ Before = payload
    BY <1>14
  <2>2. in_packet
    BY <1>8, <1>11, <2>1 DEF ChainInv
  <2>3. events' = <<"END">>
    BY <1>8, <1>11, <2>1
  <2>4. event' = "END"
    BY <2>3 DEF event
  <2> QED
    BY <2>1, <2>2, <2>4 DEF Before, Finished
<1> QED
  BY <1>1, <1>9, <1>10, <1>13, <1>15, <1>16, <1>17 DEF Inv

\* After a word without an edge the line is that much quieter.
LEMMA SilenceStep ==
  ASSUME TypeOK, still \in 0..2, Quiet(Registers, 4 * still), NEW act \in BOOLEAN,
         still = 0 => act, NEW m \in 1..2, m <= still + 1,
         Decode([i \in 1..4 |-> last_level], act)
  PROVE  Inv' /\ Quiet(Registers', 4 * m)
<1>1. PICK word : word = [i \in 1..4 |-> last_level]
  OBVIOUS
<1>2. PICK j \in Nat : j = 4 * still /\ 4 * m <= j + 4 /\ 4 * m # 0 /\ (still # 0 => j >= 4)
  OBVIOUS
<1>3. word \in Word /\ Quiet(Chain(word), j + 4) /\ ChainInv(Chain(word), 5)
  BY <1>1, <1>2, SilentWord
<1>4. PICK c \in ChainState : c = Chain(word)
  BY <1>3 DEF ChainInv
<1>5. Decode(word, act)
  BY <1>1
<1>6. TypeOK' /\ NothingOverwritten'
  BY <1>3, <1>5, DecodeStep
<1>7. /\ zero_run' = c.zero /\ ones_run' = c.ones /\ in_packet' = (c.open /\ ~Lost(c, act))
  BY <1>4, <1>5, Zenon DEF Decode
<1>8. ~(c.open /\ Lost(c, act))
  <2> SUFFICES ASSUME c.open, Lost(c, act) PROVE FALSE
    OBVIOUS
  <2>1. ~act
    BY DEF Lost
  <2>2. still # 0
    BY <2>1
  <2>3. c.ones >= j + 4
    BY <1>3, <1>4 DEF Quiet
  <2>4. c.ones \in 0..6
    BY <1>4 DEF ChainState, STUFF_RUN
  <2> QED
    BY <1>2, <2>2, <2>3, <2>4
<1>9. PICK e : e = Registers'
  OBVIOUS
<1>10. e.open = in_packet' /\ e.ones = ones_run' /\ e.zero = zero_run'
  BY <1>9 DEF Registers
<1>11. c.open \in BOOLEAN /\ c.ones \in Nat
  BY <1>4 DEF ChainState, STUFF_RUN
<1>12. CASE c.open
  <2>1. in_packet' = TRUE
    BY <1>7, <1>8, <1>12, Zenon
  <2>2. c.ones >= j + 4
    BY <1>3, <1>4, <1>12 DEF Quiet
  <2>3. c.ones >= 4 * m
    BY <1>2, <1>11, <2>2
  <2>4. Quiet(e, 4 * m)
    BY <1>7, <1>10, <2>1, <2>3 DEF Quiet
  <2> QED
    BY <1>6, <1>9, <2>4 DEF Inv
<1>13. CASE ~c.open
  <2>1. in_packet' = FALSE
    BY <1>7, <1>13, Zenon
  <2>2. j + 4 # 0
    BY <1>2
  <2>3. c.zero = 0
    BY <1>3, <1>4, <1>13, <2>2 DEF Quiet
  <2>4. Quiet(e, 4 * m)
    BY <1>7, <1>10, <2>1, <2>3 DEF Quiet
  <2> QED
    BY <1>6, <1>9, <2>4 DEF Inv
<1> QED
  BY <1>12, <1>13

\* A line at rest: nothing of a packet has been seen.
LEMMA MCInitInv == MCInit => MCInv
<1> SUFFICES ASSUME MCInit PROVE MCInv
  OBVIOUS
<1>1. Inv
  BY InitInv DEF MCInit
<1>2. line = <<>> /\ still = 2 /\ trusted = FALSE /\ got = NoData /\ in_packet = FALSE /\ zero_run = 0
  BY DEF MCInit, Init
<1>3. Quiet(Registers, 4 * still)
  BY <1>2 DEF Quiet, Registers
<1>4. line \in Seq(Bit) /\ still \in 0..2 /\ trusted \in BOOLEAN
  <2>1. <<>> \in Seq(Bit)
    OBVIOUS
  <2>2. trusted \in BOOLEAN
    BY <1>2, Zenon
  <2>3. still \in 0..2
    BY <1>2
  <2>4. line = <<>>
    BY <1>2
  <2> QED
    BY <2>1, <2>2, <2>3, <2>4
<1> QED
  BY <1>1, <1>2, <1>3, <1>4 DEF MCInv, GotInv

\* Noise leaves the chain anywhere a chain can be, and trusts nothing.
LEMMA MCNoise == MCInv /\ Noise => MCInv'
<1> SUFFICES ASSUME MCInv, Noise PROVE MCInv'
  OBVIOUS
<1>1. PICK word \in Words : Decode(word, TRUE)
  BY DEF Noise
<1>2. word \in Word /\ TypeOK /\ TRUE \in BOOLEAN
  BY WordsAssumption DEF MCInv, Inv
<1>3. TypeOK' /\ NothingOverwritten'
  BY <1>1, <1>2, DecodeStep
<1>4. line' = <<>> /\ still' = 0 /\ trusted' = FALSE /\ Collect
  BY DEF Noise
<1>5. GotInv'
  BY <1>4, CollectNothing
<1>6. Quiet(Registers', 0)
  <2>1. PICK e : e = Registers'
    OBVIOUS
  <2>2. e.ones = ones_run' /\ ones_run' \in 0..6
    BY <1>3, <2>1 DEF Registers, TypeOK, STUFF_RUN
  <2>3. e.ones >= 0
    BY <2>2
  <2>4. Quiet(e, 0)
    BY <2>3 DEF Quiet
  <2> QED
    BY <2>1, <2>4
<1>7. 4 * still' = 0 /\ line' \in Seq(Bit) /\ still' \in 0..2 /\ trusted' \in BOOLEAN
  <2>1. <<>> \in Seq(Bit)
    OBVIOUS
  <2>2. trusted' \in BOOLEAN
    BY <1>4, Zenon
  <2>3. 4 * still' = 0 /\ still' \in 0..2
    BY <1>4
  <2>4. line' = <<>>
    BY <1>4
  <2> QED
    BY <2>1, <2>2, <2>3, <2>4
<1> QED
  BY <1>3, <1>4, <1>5, <1>6, <1>7 DEF MCInv, Inv

\* Words without an edge bring the chain to rest; a packet starts behind them.
LEMMA MCSilence == MCInv /\ Silence => MCInv'
<1> SUFFICES ASSUME MCInv, Silence PROVE MCInv'
  OBVIOUS
<1>1. TypeOK /\ still \in 0..2 /\ Quiet(Registers, 4 * still)
  BY DEF MCInv, Inv
<1>2. PICK act \in BOOLEAN : act = (still < 1)
  <2>1. CASE still < 1
    <3>1. TRUE = (still < 1)
      BY <2>1
    <3> QED
      BY <3>1, Zenon
  <2>2. CASE ~(still < 1)
    <3>1. FALSE = (still < 1)
      BY <2>2
    <3> QED
      BY <3>1, Zenon
  <2> QED
    BY <2>1, <2>2
<1>3. Decode([i \in 1..4 |-> last_level], still < 1)
  BY DEF Silence
<1>4. Decode([i \in 1..4 |-> last_level], act)
  BY <1>2, <1>3, Zenon
<1>5. still = 0 => act
  <2>1. still = 0 => still < 1
    OBVIOUS
  <2> QED
    BY <1>2, <2>1, Zenon
<1>6. line' = <<>> /\ still' = (IF still = 2 THEN 2 ELSE still + 1) /\ trusted' = FALSE /\ Collect
  BY DEF Silence
<1>7. PICK m \in 1..2 : m = still' /\ m <= still + 1
  BY <1>1, <1>6
<1>8. Inv' /\ Quiet(Registers', 4 * m)
  BY <1>1, <1>2, <1>4, <1>5, <1>7, SilenceStep
<1>9. GotInv'
  BY <1>6, CollectNothing
<1>10. line' \in Seq(Bit) /\ still' \in 0..2 /\ trusted' \in BOOLEAN
  <2>1. <<>> \in Seq(Bit)
    OBVIOUS
  <2>2. trusted' \in BOOLEAN
    BY <1>6, <1>7, Zenon
  <2>3. still' \in 0..2
    BY <1>6, <1>7
  <2>4. line' = <<>>
    BY <1>6, <1>7
  <2> QED
    BY <2>1, <2>2, <2>3, <2>4
<1> QED
  BY <1>6, <1>7, <1>8, <1>9, <1>10 DEF MCInv

\* A packet cut anywhere is no longer trusted, nor is what the chain holds of it.
LEMMA MCCut == MCInv /\ Cut => MCInv'
<1> SUFFICES ASSUME MCInv, Cut PROVE MCInv'
  OBVIOUS
<1>1. TypeOK /\ still \in 0..2 /\ Quiet(Registers, 4 * still) /\ still = 0
  BY DEF MCInv, Inv, Cut
<1>2. line' = <<>> /\ still' = 1 /\ trusted' = FALSE /\ Collect
      /\ Decode([i \in 1..4 |-> last_level], TRUE)
  BY DEF Cut
<1>3. PICK act \in BOOLEAN : act = TRUE
  OBVIOUS
<1>4. PICK m \in 1..2 : m = 1 /\ m <= still + 1
  BY <1>1
<1>5. Inv' /\ Quiet(Registers', 4 * m)
  BY <1>1, <1>2, <1>3, <1>4, SilenceStep
<1>6. GotInv'
  BY <1>2, CollectNothing
<1>7. line' \in Seq(Bit) /\ still' \in 0..2 /\ trusted' \in BOOLEAN
  <2>1. <<>> \in Seq(Bit)
    OBVIOUS
  <2>2. trusted' \in BOOLEAN
    BY <1>2, Zenon
  <2>3. still' \in 0..2
    BY <1>2
  <2>4. line' = <<>>
    BY <1>2
  <2> QED
    BY <2>1, <2>2, <2>3, <2>4
<1> QED
  BY <1>2, <1>4, <1>5, <1>6, <1>7 DEF MCInv

(* A line at rest: no packet is open and no zeros are counted, so the SYNC that
   follows is read from its first bit. *)
LEMMA MCSendPacket == MCInv /\ SendPacket => MCInv'
<1> SUFFICES ASSUME MCInv, SendPacket PROVE MCInv'
  OBVIOUS
<1>1. /\ line = <<>> /\ still = 2 /\ trusted' = TRUE /\ still' = 0 /\ ref' = RefStart
      /\ vars' = vars /\ got' = got
  BY DEF SendPacket
<1>2. TypeOK /\ Inv /\ GotInv /\ Quiet(Registers, 4 * still)
  BY DEF MCInv, Inv
<1>3. in_packet = FALSE /\ zero_run = 0
  <2>1. PICK e : e = Registers
    OBVIOUS
  <2>2. e.open = in_packet /\ e.ones = ones_run /\ e.zero = zero_run /\ ones_run \in 0..6
        /\ in_packet \in BOOLEAN
    BY <1>2, <2>1 DEF Registers, TypeOK, STUFF_RUN
  <2>3. Quiet(e, 8)
    BY <1>1, <1>2, <2>1
  <2> QED
    BY <2>2, <2>3 DEF Quiet
<1>4. PICK p \in Payloads, n \in Syncs : line' = PacketLineBits(p, n, last_level) /\ payload' = p
  BY DEF SendPacket
<1>5. p \in Seq(Byte) /\ n \in Nat /\ n > MIN_SYNC_ZEROS /\ last_level \in Bit
  <2>1. PICK m \in 0..MaxLen : p \in [1..m -> PayloadBytes]
    BY DEF Payloads
  <2>2. m \in Nat /\ p \in [1..m -> Byte]
    BY <2>1, PayloadAssumption
  <2>3. p \in Seq(Byte)
    BY <2>2, SeqDef
  <2> QED
    BY <1>2, <2>3, SyncsAssumption DEF TypeOK
<1>6. line' \in Seq(Bit) /\ Midway(RefStart, p, NrziDecode(line', last_level))
  BY <1>4, <1>5, PacketStarts
<1>7. last_level' = last_level /\ zero_run' = 0 /\ in_packet' = FALSE
  BY <1>1, <1>3 DEF vars, chainVars
<1>8. Inv'
  BY <1>1, <1>2 DEF vars, chainVars, Inv, TypeOK, NothingOverwritten
<1>9. PICK e : e = Registers'
  OBVIOUS
<1>10. e.open = FALSE /\ e.zero = 0 /\ e.level = last_level
  BY <1>7, <1>9 DEF Registers
<1>11. RefStart \in RefStates /\ RefStart.inPacket = FALSE /\ RefStart.zeros = 0
  BY DEF RefStart, RefStates, STUFF_RUN
<1>12. Follows(e, RefStart, Before')
  <2>1. (IF RefStart.zeros < SYNC_ZEROS THEN RefStart.zeros ELSE SYNC_ZEROS) = 0
    BY <1>11 DEF SYNC_ZEROS
  <2> QED
    BY <1>10, <1>11, <2>1 DEF Follows
<1>13. Going(Registers', ref', line', payload', Before')
  <2>1. Going(e, RefStart, line', p, Before')
    BY <1>5, <1>6, <1>10, <1>12 DEF Going
  <2> QED
    BY <1>1, <1>4, <1>9, <2>1
<1>14. GotInv'
  BY <1>1, <1>2, <1>3, <1>7 DEF GotInv
<1>15. Quiet(Registers', 4 * still')
  <2>1. Quiet(e, 0)
    BY <1>10 DEF Quiet
  <2> QED
    BY <1>1, <1>9, <2>1
<1>16. still' \in 0..2 /\ trusted' \in BOOLEAN /\ payload' \in Seq(Byte)
  BY <1>1, <1>4, <1>5
<1> QED
  BY <1>1, <1>6, <1>8, <1>13, <1>14, <1>15, <1>16 DEF MCInv

\* A word of a packet takes the chain as far as the ideal decoder.
LEMMA MCPacketWord == MCInv /\ PacketWord => MCInv'
<1> SUFFICES ASSUME MCInv, PacketWord PROVE MCInv'
  OBVIOUS
<1>1. /\ Inv' /\ GotInv' /\ line' \in Seq(Bit) /\ still' = 0 /\ trusted' = TRUE
      /\ payload' = payload /\ payload \in Seq(Byte)
      /\ line' # <<>> => Going(Registers', ref', line', payload, Before')
  BY PacketWordStep
<1>2. Quiet(Registers', 4 * still')
  <2>1. PICK e : e = Registers'
    OBVIOUS
  <2>2. e.ones = ones_run' /\ ones_run' \in 0..6
    BY <1>1, <2>1 DEF Inv, Registers, TypeOK, STUFF_RUN
  <2>3. e.ones >= 0
    BY <2>2
  <2>4. Quiet(e, 0)
    BY <2>3 DEF Quiet
  <2> QED
    BY <1>1, <2>1, <2>4
<1>3. still' \in 0..2 /\ trusted' \in BOOLEAN
  BY <1>1
<1> QED
  BY <1>1, <1>2, <1>3 DEF MCInv

\* The invariant is inductive,
LEMMA MCNextInv == MCInv /\ [MCNext]_mcvars => MCInv'
<1> SUFFICES ASSUME MCInv, [MCNext]_mcvars PROVE MCInv'
  OBVIOUS
<1>1. CASE UNCHANGED mcvars
  BY <1>1 DEF mcvars, vars, chainVars, MCInv, Inv, TypeOK, NothingOverwritten, GotInv, Before,
              Registers
<1>2. CASE MCNext
  BY <1>2, MCNoise, MCSilence, MCSendPacket, MCPacketWord, MCCut DEF MCNext
<1> QED
  BY <1>1, <1>2

\* and so holds always.
LEMMA MCInvariant == MCSpec => []MCInv
  BY MCInitInv, MCNextInv, PTL DEF MCSpec

\* Only the last word of a packet empties the line and leaves it trusted.
LEMMA LastWord ==
  ASSUME MCInv, [MCNext]_mcvars, trusted, line # <<>>, line' = <<>>, trusted'
  PROVE  event' = "END" /\ got = payload /\ ref.packets = <<>> /\ ref'.packets = <<payload>>
         /\ payload \in Seq(Byte)
<1>1. PacketWord
  BY DEF MCNext, Noise, Silence, SendPacket, Cut, mcvars
<1> QED
  BY <1>1, PacketWordStep

(* Whatever came before it, and for every set of noise words and every set of bytes:
   a packet that follows a silence is closed with END at its last bit, however it was
   cut into words of three to five bits, and exactly its bytes have been reported. *)
THEOREM PacketsDelivered == MCSpec => PacketDelivered
<1>1. MCInv /\ [MCNext]_mcvars =>
        [trusted /\ line # <<>> /\ line' = <<>> /\ trusted' => event' = "END" /\ got = payload]_mcvars
  BY LastWord
<1> QED
  BY <1>1, MCInvariant, PTL DEF MCSpec, PacketDelivered

(* The wire code inverts, for every payload: the ideal decoder recovers the packet
   from its EOP and not before; unstuffing undoes stuffing, and the EOP behind the
   stuffed bits is the first violation. *)
THEOREM WireCodeRight == MCSpec => WireCodeInverts
<1>1. MCInv /\ [MCNext]_mcvars =>
        [trusted /\ line # <<>> /\ line' = <<>> /\ trusted' =>
          LET data_bits == SyncDataBits(MIN_SYNC_ZEROS) \o PayloadDataBits(payload)
              upto_eop == BitUnstuff(BitStuff(data_bits) \o <<0, 1, 1, 1, 1, 1, 1, 1>>)
          IN  /\ ref.packets = <<>> /\ ref'.packets = <<payload>>
              /\ BitUnstuff(BitStuff(data_bits)).bits = data_bits
              /\ upto_eop.violation /\ upto_eop.bits = data_bits \o <<0, 1, 1, 1, 1, 1, 1>>]_mcvars
  <2> SUFFICES ASSUME MCInv, [MCNext]_mcvars, trusted, line # <<>>, line' = <<>>, trusted'
               PROVE  LET data_bits == SyncDataBits(MIN_SYNC_ZEROS) \o PayloadDataBits(payload)
                          upto_eop == BitUnstuff(BitStuff(data_bits) \o <<0, 1, 1, 1, 1, 1, 1, 1>>)
                      IN  /\ ref.packets = <<>> /\ ref'.packets = <<payload>>
                          /\ BitUnstuff(BitStuff(data_bits)).bits = data_bits
                          /\ upto_eop.violation
                          /\ upto_eop.bits = data_bits \o <<0, 1, 1, 1, 1, 1, 1>>
    OBVIOUS
  <2>1. ref.packets = <<>> /\ ref'.packets = <<payload>> /\ payload \in Seq(Byte)
    BY LastWord
  <2>2. PICK x \in Seq(Bit) : x = SyncDataBits(MIN_SYNC_ZEROS) \o PayloadDataBits(payload)
    <3>1. PICK n \in Nat \ {0} : n = MIN_SYNC_ZEROS
      BY DEF MIN_SYNC_ZEROS
    <3>2. SyncDataBits(n) \in Seq(Bit)
      BY StufferSync
    <3>3. PayloadDataBits(payload) \in Seq(Bit)
      BY <2>1, PayloadLength
    <3> QED
      BY <3>1, <3>2, <3>3, ConcatProperties
  <2>3. /\ BitUnstuff(BitStuff(x)).bits = x
        /\ BitUnstuff(BitStuff(x) \o EopData).violation
        /\ BitUnstuff(BitStuff(x) \o EopData).bits = x \o EopTaken(7)
    BY StuffingInverts
  <2>4. EopTaken(7) = <<0, 1, 1, 1, 1, 1, 1>>
    BY DEF EopTaken
  <2> QED
    BY <2>1, <2>2, <2>3, <2>4 DEF EopData
<1> QED
  BY <1>1, MCInvariant, PTL DEF MCSpec, WireCodeInverts
=============================================================================
