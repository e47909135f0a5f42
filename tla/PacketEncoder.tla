---------------------------- MODULE PacketEncoder ----------------------------
(***************************************************************************)
(* The high-speed packet encoder of usb2soft/tx/encoder.py.                *)
(*                                                                         *)
(* A step is one cycle of the 120 MHz transmit clock.  The queue holds     *)
(* data bits in wire order, so the register fill is Len(queue); line holds *)
(* the bits the registered output drives in this cycle, so the four output *)
(* enables are the first Len(line) ones and an undriven cycle is <<>>.     *)
(* head is the entry the FIFO in front of the encoder offers: it stays     *)
(* until byte_ready takes it (Consume).                                    *)
(***************************************************************************)
EXTENDS HSWire

CONSTANTS Bytes,   \* the byte values a source may send
          NoEntry, \* byte_valid low
          EndMark  \* an entry with byte_end set

ASSUME BytesAssumption == Bytes \subseteq Byte
ASSUME EntryAssumption == NoEntry \notin Byte /\ EndMark \notin Byte /\ NoEntry # EndMark

VARIABLES head,     \* the entry offered to the encoder
          state,    \* IDLE or DATA
          queue,    \* data bits not yet on the line
          ones_run, \* ones sent since the last zero, for the stuffer
          level,    \* line level after the last driven bit
          ending,   \* the EOP is in the queue
          line,     \* line bits driven in this cycle
          underrun  \* sticky: the source starved inside a packet

encRegs == <<state, queue, ones_run, level, ending, line, underrun>>
vars == <<head, encRegs>>

SYNC_BITS == 32
QUEUE_BITS == 44

\* Mutant of REFILL_AT: room for a byte's data bits only, none for its stuffed bits.
REFILL_AT_Tight == QUEUE_BITS - 8
REFILL_AT == QUEUE_BITS - 10

\* Mutant of CLOSE_BELOW: a starved packet is closed when a word is left half empty.
CLOSE_BELOW_Late == 4
CLOSE_BELOW == 8
EOP_DATA == <<0, 1, 1, 1, 1, 1, 1, 1>>

Entries == Bytes \cup {EndMark, NoEntry}

TypeOK ==
  /\ head \in Entries
  /\ state \in {"IDLE", "DATA"}
  /\ queue \in Seq(Bit)
  /\ ones_run \in 0..(STUFF_RUN - 1)
  /\ level \in Bit
  /\ ending \in BOOLEAN
  /\ line \in Seq(Bit) /\ Len(line) <= 4
  /\ underrun \in BOOLEAN

Init ==
  /\ head \in Entries
  /\ state = "IDLE" /\ queue = <<>> /\ ones_run = 0 /\ level = 1
  /\ ending = FALSE /\ line = <<>> /\ underrun = FALSE

\* byte_ready takes the entry and the FIFO may show the next one.
Consume == head' \in Entries

\* The entry stays; a FIFO that was empty may show one.
Keep == head' \in (IF head = NoEntry THEN Entries ELSE {head})

\* The stuffing chain of one byte, from the run of ones before it.
StuffByte(run, byte) ==
  LET bit(s, i) == StuffBit(s, byte[i])
      start == [bits |-> <<>>, run |-> run]
  IN  bit(bit(bit(bit(bit(bit(bit(bit(start, 1), 2), 3), 4), 5), 6), 7), 8)

drain == IF Len(queue) >= 4 THEN 4 ELSE Len(queue)

\* Up to four bits leave through NRZI; add is appended behind those that stay.
Shift(add) ==
  /\ queue' = SubSeq(queue \o add, drain + 1, Len(queue) + Len(add))
  /\ line' = NrziEncode(SubSeq(queue, 1, drain), level)
  /\ level' = IF drain = 0 THEN level ELSE line'[drain]

Undriven == line' = <<>> /\ level' = 1

\* Mutant of IdleStart: the run of ones does not count the SYNC's last bit.
IdleStartUnseeded ==
  /\ state = "IDLE" /\ head \in Bytes
  /\ state' = "DATA" /\ queue' = SyncDataBits(SYNC_BITS) /\ ones_run' = 0
  /\ ending' = FALSE
  /\ Undriven /\ Keep /\ UNCHANGED underrun

\* A byte shows up: preload the SYNC, whose last one starts the run.  The byte waits.
IdleStart ==
  /\ state = "IDLE" /\ head \in Bytes
  /\ state' = "DATA" /\ queue' = SyncDataBits(SYNC_BITS) /\ ones_run' = 1
  /\ ending' = FALSE
  /\ Undriven /\ Keep /\ UNCHANGED underrun

\* A stray end marker is swallowed; with nothing offered the registers are cleared.
IdleClear ==
  /\ state = "IDLE" /\ head \notin Bytes
  /\ queue' = <<>> /\ ones_run' = 0 /\ ending' = FALSE
  /\ Undriven /\ UNCHANGED <<state, underrun>>
  /\ IF head = EndMark THEN Consume ELSE Keep

\* Mutant of MayRefill: the comparison with the threshold is turned round.
MayRefill_Above == state = "DATA" /\ ~ending /\ Len(queue) > REFILL_AT
MayRefill == state = "DATA" /\ ~ending /\ Len(queue) <= REFILL_AT

TakeByte ==
  /\ MayRefill /\ head \in Bytes
  /\ LET s == StuffByte(ones_run, head)
     IN  Shift(s.bits) /\ ones_run' = s.run
  /\ Consume /\ UNCHANGED <<state, ending, underrun>>

AppendEop == Shift(EOP_DATA) /\ ending' = TRUE /\ UNCHANGED <<state, ones_run>>

TakeEnd ==
  /\ MayRefill /\ head = EndMark
  /\ AppendEop /\ Consume /\ UNCHANGED underrun

\* Nothing offered and less than two words left: close as if tx_valid had dropped.
Starve ==
  /\ MayRefill /\ head = NoEntry /\ Len(queue) < CLOSE_BELOW
  /\ AppendEop /\ Keep /\ underrun' = TRUE

Drained == ending /\ Len(queue) <= 4

\* No bits come in: too full, nothing offered yet, or draining behind the EOP.
Coast ==
  /\ state = "DATA"
  /\ ending \/ Len(queue) > REFILL_AT \/ (head = NoEntry /\ Len(queue) >= CLOSE_BELOW)
  /\ Shift(<<>>)
  /\ state' = IF Drained THEN "IDLE" ELSE "DATA"
  /\ Keep /\ UNCHANGED <<ones_run, ending, underrun>>

Next == IdleStart \/ IdleClear \/ TakeByte \/ TakeEnd \/ Starve \/ Coast

Spec == Init /\ [][Next]_vars

-----------------------------------------------------------------------------

(* The queue register never loses a bit: with the four bits that leave in the
   same cycle, the appended vector has never held more than its 44.  REFILL_AT
   leaves room for the longest stuffed byte, ten bits. *)
QueueFits == Len(queue) <= QUEUE_BITS - 4

(* An open packet always has a whole word queued, so closing it, at the end
   marker or on starvation, leaves no hole in the output enable. *)
NoHole == state = "DATA" => Len(queue) > 0 /\ (~ending => Len(queue) >= 4)

(* The output enable of a packet is contiguous: every DATA cycle drives bits,
   and a word that is not full is the packet's last. *)
OeContiguous ==
  [][state = "DATA" => /\ line' # <<>>
                       /\ Len(line') < 4 => state' = "IDLE"]_encRegs
=============================================================================
