---------------------------- MODULE RxUTMIBridge ----------------------------
(***************************************************************************)
(* The receive bridge of usb2soft/rx/bridge.py: any decoder that keeps the *)
(* promises of DecoderEvents in the CDR's clock domain, the FIFO, and the  *)
(* UTMI receive signals in the usb domain.  A step is an edge of one of    *)
(* the two clocks, in any order, or a FIFO pointer crossing.               *)
(***************************************************************************)
EXTENDS DecoderEvents, AsyncFifo

VARIABLES overflow,  \* sticky: an entry found the FIFO full and was lost
          rx_active, \* a packet is being received
          rx_valid,  \* rx_data in a cycle with rx_valid high, else NoData
          rx_error   \* pulse: the packet was bad

utmiVars == <<rx_active, rx_valid, rx_error>>
vars == <<decVars, fifoVars, overflow, utmiVars>>

Entry == [event : {"NONE", "START", "END", "ERROR"}, data : Bytes \cup {NoData}]

TypeOK ==
  /\ in_packet \in BOOLEAN /\ event \in {"NONE", "START", "END", "ERROR"}
  /\ data \in Bytes \cup {NoData}
  /\ flying \in Seq(Entry) /\ visible \in Seq(Entry) /\ unseen \in Nat
  /\ Len(flying) + Len(visible) + unseen <= Depth
  /\ overflow \in BOOLEAN
  /\ rx_active \in BOOLEAN /\ rx_valid \in Bytes \cup {NoData} /\ rx_error \in BOOLEAN

Init ==
  /\ DecInit /\ FifoInit
  /\ overflow = FALSE /\ rx_active = FALSE /\ rx_valid = NoData /\ rx_error = FALSE

\* Mutant of w_en: only events are queued in the word of an event or a byte.
w_en_EventOnly == event # "NONE"
w_en == event # "NONE" \/ data # NoData
w_data == [event |-> event, data |-> data]

\* The decoder's registered outputs go in as its next word is decoded.
WriteEntry == w_en /\ Write(w_data) /\ UNCHANGED overflow
LoseEntry == w_en /\ ~WRdy /\ overflow' = TRUE /\ UNCHANGED fifoVars
NoEntry == ~w_en /\ UNCHANGED <<fifoVars, overflow>>

CdrEdge == (WriteEntry \/ LoseEntry \/ NoEntry) /\ DecNext /\ UNCHANGED utmiVars

\* Mutant of ValidOf: the byte of a word that ends in an error is emitted too.
ValidOf_WithError(entry) == entry.data

\* A byte that completed in the word of an ERROR is dropped.
ValidOf(entry) == IF entry.event = "ERROR" THEN NoData ELSE entry.data

\* Mutant of ActiveOf: only an END lowers rx_active.
ActiveOf_EndOnly(entry) ==
  CASE entry.event = "START" -> TRUE [] entry.event = "END" -> FALSE [] OTHER -> rx_active

ActiveOf(entry) ==
  CASE entry.event = "START" -> TRUE
    [] entry.event \in {"END", "ERROR"} -> FALSE
    [] entry.event = "NONE" -> rx_active

TakeEntry ==
  /\ Read
  /\ rx_valid' = ValidOf(Head(visible)) /\ rx_active' = ActiveOf(Head(visible))
  /\ rx_error' = (Head(visible).event = "ERROR")

NothingVisible ==
  ~RRdy /\ rx_valid' = NoData /\ rx_error' = FALSE /\ UNCHANGED <<fifoVars, rx_active>>

UsbEdge == (TakeEntry \/ NothingVisible) /\ UNCHANGED <<decVars, overflow>>

CrossEntry == ShowEntry /\ UNCHANGED <<decVars, overflow, utmiVars>>
CrossSlot == ShowSlot /\ UNCHANGED <<decVars, overflow, utmiVars>>

Next == CdrEdge \/ UsbEdge \/ CrossEntry \/ CrossSlot

Spec == Init /\ [][Next]_vars

\* Both clocks run, and pointers cross in bounded time.
FairSpec ==
  Spec /\ WF_vars(CdrEdge) /\ WF_vars(UsbEdge) /\ WF_vars(CrossEntry) /\ WF_vars(CrossSlot)

-----------------------------------------------------------------------------

\* Whether a packet is open before and after an entry, on a line that loses none.
OpensBefore(entry) == entry.event # "START"
OpensAfter(entry) == entry.event \in {"START", "NONE"}

\* What the decoder has produced and the UTMI side has not taken yet.
Pending == Contents \o (IF w_en THEN <<w_data>> ELSE <<>>)

(* While no entry has been lost, the two clock domains agree on every packet:
   rx_active is what the oldest entry in flight expects, each entry leaves what
   the next expects, and with nothing in flight rx_active is in_packet. *)
DomainsAgree ==
  ~overflow =>
    /\ Pending = <<>> => rx_active = in_packet
    /\ Pending # <<>> => /\ rx_active = OpensBefore(Pending[1])
                         /\ in_packet = OpensAfter(Pending[Len(Pending)])
    /\ \A k \in 1..(Len(Pending) - 1) : OpensAfter(Pending[k]) = OpensBefore(Pending[k + 1])

(* Unless an entry was lost, the receive signals follow UTMIReceive, which the
   host and the applets behind them rely on and the docstring promises:
   rx_active is high before and in the cycle of a byte, an error is reported in
   the very cycle in which rx_active falls, never with a byte and never for a
   packet the UTMI side did not see open. *)
Utmi == INSTANCE UTMIReceive
FollowsUtmi == [][~overflow => Utmi!UtmiNext]_utmiVars

(* A packet the decoder closes is closed at the UTMI, unless its entry is lost. *)
PacketCloses == event \in {"END", "ERROR"} ~> (~rx_active \/ overflow)
=============================================================================
