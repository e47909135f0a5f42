-------------------------------- MODULE RxPath --------------------------------
(***************************************************************************)
(* The receive path as usb2soft/rx/__init__.py wires it, from samples to   *)
(* the UTMI receive signals.  The CDR's registered word and activity are   *)
(* the decoder's inputs, the decoder's in_packet is the CDR's, and the     *)
(* bridge queues what the decoder reports.  A step is a cycle of the CDR   *)
(* clock, an edge of the usb clock, or a FIFO pointer crossing.            *)
(***************************************************************************)
EXTENDS OversamplingCDR

CONSTANTS NoData, \* data_valid low, rx_valid low
          Depth   \* as in AsyncFifo

VARIABLES last_level, zero_run, ones_run, dec_acc, in_packet, events, bytes, \* PacketDecoder's
          flying, visible, unseen, overflow, rx_active, rx_valid, rx_error   \* RxUTMIBridge's

Dec == INSTANCE PacketDecoder WITH Words <- {}, acc <- dec_acc
Bridge == INSTANCE RxUTMIBridge WITH Bytes <- Dec!Byte, event <- Dec!event, data <- Dec!data

\* max_bits of the decoder is one more than the CDR's bits per word.
ASSUME WidthAssumption == B + 1 = Dec!MAX_BITS
ASSUME DepthAssumption == Depth \in Nat \ {0}
ASSUME NoDataAssumption == NoData \notin Dec!Byte /\ NoData \notin Seq(Dec!Byte)

decVars == <<last_level, zero_run, ones_run, dec_acc, in_packet, events, bytes>>
fifoVars == <<flying, visible, unseen>>
utmiVars == <<rx_active, rx_valid, rx_error>>
rxVars == <<vars, decVars, fifoVars, overflow, utmiVars>>

RxInit == Init /\ Dec!Init /\ Bridge!Init

\* What the decoder reported of the last word goes into the FIFO, or is lost.
Push == Bridge!WriteEntry \/ Bridge!LoseEntry \/ Bridge!NoEntry

Cycle(word) ==
  Recover(word, in_packet) /\ Dec!Decode(bits, activity) /\ Push /\ UNCHANGED utmiVars

UsbEdge == (Bridge!TakeEntry \/ Bridge!NothingVisible) /\ UNCHANGED <<vars, decVars, overflow>>

Crossing ==
  (Bridge!ShowEntry \/ Bridge!ShowSlot) /\ UNCHANGED <<vars, decVars, overflow, utmiVars>>

\* Behind a line that shows any samples at all.
RxNext == (\E word \in [1..W -> Level] : Cycle(word)) \/ UsbEdge \/ Crossing

RxSpec == RxInit /\ [][RxNext]_rxVars
=============================================================================
