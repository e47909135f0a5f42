---------------------------- MODULE DecoderEvents ----------------------------
(***************************************************************************)
(* What the packet decoder promises the UTMI bridge (usb2soft/rx/bridge.py *)
(* relies on it): per word at most one event and one byte; START and END   *)
(* or ERROR alternate and say when a packet is open; bytes only inside a   *)
(* packet, never in the word of a START or an END, at most in the word of  *)
(* an ERROR.                                                               *)
(***************************************************************************)
CONSTANTS Bytes, NoData

VARIABLES in_packet, \* a packet is open
          event,     \* NONE, START, END or ERROR: this word's event
          data       \* this word's byte, or NoData

decVars == <<in_packet, event, data>>

DecInit == in_packet = FALSE /\ event = "NONE" /\ data = NoData

\* A word without an event; inside a packet it may complete a byte.
Quiet ==
  /\ event' = "NONE"
  /\ data' \in (IF in_packet THEN Bytes \cup {NoData} ELSE {NoData})
  /\ UNCHANGED in_packet

Start == ~in_packet /\ event' = "START" /\ data' = NoData /\ in_packet' = TRUE
End == in_packet /\ event' = "END" /\ data' = NoData /\ in_packet' = FALSE
Error ==
  in_packet /\ event' = "ERROR" /\ data' \in Bytes \cup {NoData} /\ in_packet' = FALSE

DecNext == Quiet \/ Start \/ End \/ Error

DecSpec == DecInit /\ [][DecNext]_decVars
=============================================================================
