------------------------------ MODULE PHYTransmit ------------------------------
(***************************************************************************)
(* The transmit half of usb2soft/phy/utmi.py: TxPath, and SoftUTMIPHY for  *)
(* what the same op_mode and tx_valid do through the synchroniser to the   *)
(* multiplexer in front of the pins, and to the line-state synthesiser.    *)
(* LUNA sends packets (offer) in any mode and, in its reset sequence,      *)
(* holds tx_valid (utmi_valid) for a chirp.                                *)
(***************************************************************************)
EXTENDS TxPath, SoftUTMIPHY

\* History: the packets to be sent that the mode may have got in the way of.
VARIABLE cut

allVars == <<txVars, phyVars, cut>>

PHYTransmitInit == TxInit /\ PhyInit /\ cut = {}

\* Tx_valid is high for a packet, or for a chirp while nothing is sent.
Tone ==
  utmi_valid' \in IF offer' # <<>> THEN {TRUE} ELSE IF op_mode' = OP_CHIRP THEN BOOLEAN ELSE {FALSE}

\* Packets accepted whose last line bits have not been driven yet.
unsent == (IF state = "IDLE" /\ line = <<>> THEN Len(onWire) + 1 ELSE Len(onWire))..Len(accepted)

\* A packet is cut when the mode changes after its first byte, or so short before
\* it that not one edge of the transmit clock lies between.
UsbClockEdge ==
  /\ UsbClock /\ Tone /\ PhyUsbEdge
  /\ cut' = IF steady' = 0 THEN unsent' ELSE cut
TxClockEdge ==
  /\ TxEdge /\ PhyTxEdge
  /\ cut' = cut \cap unsent'
Crossing == (ShowEntry \/ ShowSlot) /\ UNCHANGED <<phyVars, cut>>

PHYTransmitNext == UsbClockEdge \/ TxClockEdge \/ Crossing

PHYTransmitSpec == PHYTransmitInit /\ [][PHYTransmitNext]_allVars

-----------------------------------------------------------------------------

(* A packet that starts in normal mode, however soon after a chirp or a
   released line, leaves through the pins whole: the control bits get to the
   multiplexer before the packet's first bit does, though one edge of the
   transmit clock is all they have in advance, and no time in the FIFO is
   counted on. *)
PacketReachesPins ==
  ~underrun /\ line # <<>> /\ Len(onWire) \notin cut => wire = "tx"
=============================================================================
