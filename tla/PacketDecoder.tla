---------------------------- MODULE PacketDecoder ----------------------------
(***************************************************************************)
(* The word-parallel packet decoder of usb2soft/rx/decoder.py.             *)
(*                                                                         *)
(* A step is one cycle of the CDR clock: a word of up to MAX_BITS line     *)
(* bits goes through a chain of bit steps (BitStep), the registers keep    *)
(* what the chain leaves.  acc holds the data bits since the last byte     *)
(* boundary, so the register acc_n is Len(acc).  events and bytes list all *)
(* that the chain produced in the word, in order; the code's outputs keep  *)
(* only the last of each, because its last assignment wins.                *)
(***************************************************************************)
EXTENDS HSWire

CONSTANTS Words,  \* the words of line bits that may arrive
          NoData  \* data_valid low

\* Mutant of SYNC_ZEROS: a SYNC so short that one word holds an ERROR and a START.
SYNC_ZEROS_Short == 3
SYNC_ZEROS == 8
EOP_BITS == 7
MAX_BITS == 5

Word == UNION {[1..n -> Bit] : n \in 0..MAX_BITS}

ASSUME WordsAssumption == Words \subseteq Word
ASSUME NoDataAssumption == NoData \notin Byte

VARIABLES last_level, zero_run, ones_run, acc, in_packet, events, bytes

chainVars == <<last_level, zero_run, ones_run, acc>>
vars == <<chainVars, in_packet, events, bytes>>

\* The decoder's registered outputs.
event == IF events = <<>> THEN "NONE" ELSE events[Len(events)]
data == IF bytes = <<>> THEN NoData ELSE bytes[Len(bytes)]

TypeOK ==
  /\ last_level \in Bit
  /\ zero_run \in 0..SYNC_ZEROS
  /\ ones_run \in 0..STUFF_RUN
  /\ acc \in Seq(Bit) /\ Len(acc) < 8
  /\ in_packet \in BOOLEAN
  /\ events \in Seq({"START", "END", "ERROR"})
  /\ bytes \in Seq(Byte)

Init ==
  /\ last_level = 1 /\ zero_run = 0 /\ ones_run = 0 /\ acc = <<>>
  /\ in_packet = FALSE /\ events = <<>> /\ bytes = <<>>

\* The registers at the head of the chain, with nothing produced yet.
Registers ==
  [level |-> last_level, zero |-> zero_run, ones |-> ones_run, acc |-> acc,
   open |-> in_packet, events |-> <<>>, bytes |-> <<>>]

Hunt(c, d) ==
  IF d = 1 /\ c.zero >= SYNC_ZEROS
    THEN [c EXCEPT !.zero = 0, !.ones = 1, !.acc = <<>>, !.open = TRUE,
                   !.events = Append(@, "START")]
    ELSE [c EXCEPT !.zero = IF d = 1 THEN 0 ELSE IF @ = SYNC_ZEROS THEN @ ELSE @ + 1]

\* The seventh one in a row closes the packet: an EOP only if seven bits are pending.
Violate(c) ==
  [c EXCEPT !.zero = 0, !.ones = 0, !.acc = <<>>, !.open = FALSE,
            !.events = Append(@, IF Len(c.acc) = EOP_BITS THEN "END" ELSE "ERROR")]

\* Mutant of Take: the run of ones goes on across a byte boundary but not past it.
TakeRunReset(c, d) ==
  LET bits == Append(c.acc, d)
      done == Len(bits) = 8
  IN  [c EXCEPT !.zero = 0, !.ones = IF d = 1 /\ ~done THEN @ + 1 ELSE 0,
                !.acc = IF done THEN <<>> ELSE bits,
                !.bytes = IF done THEN Append(@, bits) ELSE @]

\* A data bit is packed; the eighth completes a byte.
Take(c, d) ==
  LET bits == Append(c.acc, d)
      done == Len(bits) = 8
  IN  [c EXCEPT !.zero = 0, !.ones = IF d = 1 THEN @ + 1 ELSE 0,
                !.acc = IF done THEN <<>> ELSE bits,
                !.bytes = IF done THEN Append(@, bits) ELSE @]

\* One line bit through the chain: NRZI, then unstuffing and framing.
BitStep(c, raw) ==
  LET d == IF raw = c.level THEN 1 ELSE 0
      n == [c EXCEPT !.level = raw]
  IN  IF ~c.open THEN Hunt(n, d)
      ELSE IF c.ones < STUFF_RUN THEN Take(n, d)
      ELSE IF d = 1 THEN Violate(n)
      ELSE [n EXCEPT !.zero = 0, !.ones = 0]

Chain(word) ==
  LET bit(c, i) == IF i <= Len(word) THEN BitStep(c, word[i]) ELSE c
  IN  bit(bit(bit(bit(bit(Registers, 1), 2), 3), 4), 5)

\* Mutant of Lost: an idle line reports errors outside packets too.
LostOutside(c, activity) == ~activity /\ c.events = <<>>

\* Loss of activity inside a packet ends it, unless the word has an event of its own.
Lost(c, activity) == in_packet /\ ~activity /\ c.events = <<>>

Decode(word, activity) ==
  LET c == Chain(word)
      lost == Lost(c, activity)
  IN  /\ last_level' = c.level /\ zero_run' = c.zero /\ ones_run' = c.ones
      /\ acc' = c.acc /\ bytes' = c.bytes
      /\ in_packet' = (c.open /\ ~lost)
      /\ events' = IF lost THEN <<"ERROR">> ELSE c.events

Next == \E word \in Words, activity \in BOOLEAN : Decode(word, activity)

Spec == Init /\ [][Next]_vars

-----------------------------------------------------------------------------

(* No word produces two events or two bytes: the code's chain assigns one
   register for all its bits, and a second assignment would overwrite the
   first unseen. *)
NothingOverwritten == Len(events) <= 1 /\ Len(bytes) <= 1

(* The decoder keeps the promises the UTMI bridge relies on (DecoderEvents):
   alternating START and END/ERROR, bytes only inside, none beside a START or
   an END. *)
Promise == INSTANCE DecoderEvents WITH Bytes <- Byte
KeepsPromise == Promise!DecSpec
=============================================================================
