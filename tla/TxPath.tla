------------------------------- MODULE TxPath -------------------------------
(***************************************************************************)
(* The transmit path: a UTMI source in the 60 MHz usb domain whose op_mode *)
(* decides whether its bytes get through (usb2soft/phy/utmi.py), the       *)
(* TxUTMIBridge (usb2soft/tx/bridge.py), the FIFO and the encoder in the   *)
(* 120 MHz domain.  A step is an edge of one of the two clocks, in any     *)
(* order, or a FIFO pointer crossing; every signal the bridge drives is    *)
(* combinational, so an edge reads the registers as the last one left it.  *)
(***************************************************************************)
EXTENDS PacketEncoder, SequencesExt, UTMIMode

CONSTANTS Depth,             \* as in AsyncFifo
          Payload(_, _),     \* Payload(k, n): the k-th packet, n bytes long
          MaxLen, MaxPackets \* bounds on the source

\* A shorter k-th packet has no other bytes than the longest.
ASSUME PayloadAssumption ==
  /\ MaxLen \in Nat \ {0} /\ MaxPackets \in Nat
  /\ \A k \in 1..MaxPackets, n \in 1..MaxLen :
       /\ Payload(k, n) \in Seq(Bytes) \ {<<>>}
       /\ Range(Payload(k, n)) \subseteq Range(Payload(k, MaxLen))

VARIABLES offer,       \* bytes of the current packet the source has still to hand over
          npackets,    \* packets the source has started
          prev_valid, pending_end,
          flying, visible, unseen, \* as in AsyncFifo
          accepted,    \* history: the packets handed over, the last possibly in part
          begun,       \* history: the packet being offered is the last of them
          onWire,      \* history: the packets the encoder started, the last in part
          sent         \* history: line bits driven of the last of them

srcVars == <<op_mode, offer, npackets, accepted, begun>>
bridgeVars == <<prev_valid, pending_end>>
fifoVars == <<flying, visible, unseen>>
wireVars == <<onWire, sent>>
txVars == <<srcVars, bridgeVars, vars, fifoVars, wireVars>>

Fifo == INSTANCE AsyncFifo

\* What the FIFO offers to the encoder.
Shown(entries) == IF entries = <<>> THEN NoEntry ELSE Head(entries)

\* Mutant of normal: a released line does not hold packets back.
normal_Released == op_mode # OP_CHIRP
normal == op_mode \notin {OP_NON_DRIVING, OP_CHIRP}

\* What the bridge is shown of the source's tx_valid.
tx_valid == offer # <<>> /\ normal
ended == (prev_valid /\ ~tx_valid) \/ pending_end

\* Mutant of tx_ready: the source may advance while an end marker goes in.
tx_ready_Early == tx_valid /\ Fifo!WRdy
tx_ready == ~ended /\ tx_valid /\ Fifo!WRdy

\* What the source sees: a chirp's bytes are taken and thrown away.
utmi_ready == IF normal THEN tx_ready ELSE op_mode = OP_CHIRP

TxInit ==
  /\ op_mode = 0 /\ begun = FALSE
  /\ offer = <<>> /\ npackets = 0 /\ accepted = <<>> /\ onWire = <<>> /\ sent = <<>>
  /\ prev_valid = FALSE /\ pending_end = FALSE
  /\ Fifo!FifoInit /\ Init /\ head = NoEntry

\* The source hands over the byte it holds, and drops tx_valid after the last.
HandOver ==
  /\ offer # <<>> /\ utmi_ready
  /\ offer' = Tail(offer) /\ UNCHANGED npackets
  /\ accepted' = CASE ~normal -> accepted
                   [] normal /\ ~begun -> Append(accepted, <<Head(offer)>>)
                   [] OTHER -> [accepted EXCEPT ![Len(accepted)] = Append(@, Head(offer))]

\* It holds tx_valid until tx_ready; between packets it may start the next one.
NoHandOver ==
  /\ offer # <<>> => ~utmi_ready
  /\ accepted' = accepted
  /\ \/ UNCHANGED <<offer, npackets>>
     \/ /\ offer = <<>> /\ npackets < MaxPackets
        /\ \E n \in 1..MaxLen : offer' = Payload(npackets + 1, n)
        /\ npackets' = npackets + 1

UsbEdge ==
  /\ HandOver \/ NoHandOver
  /\ op_mode' \in 0..3
  /\ begun' = (tx_valid /\ (begun \/ utmi_ready))
  /\ prev_valid' = tx_valid
  /\ UNCHANGED <<vars, wireVars>>

\* The packet is over: the end marker goes in, ahead of any new data.
WriteEnd == ended /\ Fifo!Write(EndMark) /\ pending_end' = FALSE /\ UsbEdge

\* Mutant of HoldEnd: a marker that finds the FIFO full is dropped.
HoldEndDropped ==
  ended /\ ~Fifo!WRdy /\ pending_end' = FALSE /\ UNCHANGED fifoVars /\ UsbEdge

\* No room for the marker: keep it pending; tx_ready stays low.
HoldEnd ==
  ended /\ ~Fifo!WRdy /\ pending_end' = TRUE /\ UNCHANGED fifoVars /\ UsbEdge

WriteByte ==
  ~ended /\ tx_valid /\ Fifo!Write(Head(offer)) /\ UNCHANGED pending_end /\ UsbEdge

\* The FIFO is full, or there is nothing to send.
WriteNothing ==
  /\ ~ended /\ (tx_valid => ~Fifo!WRdy)
  /\ UNCHANGED <<pending_end, fifoVars>> /\ UsbEdge

byte_ready ==
  /\ head # NoEntry
  /\ MayRefill \/ (state = "IDLE" /\ head = EndMark)

\* A transmit clock edge; the encoder's byte_ready is the FIFO's r_en.
TxEdge ==
  /\ IF byte_ready THEN Fifo!Read ELSE UNCHANGED fifoVars
  /\ head' = Shown(visible') /\ Next
  /\ onWire' = CASE state = "IDLE" /\ state' = "DATA" -> Append(onWire, <<>>)
                 [] byte_ready /\ head # EndMark ->
                      [onWire EXCEPT ![Len(onWire)] = Append(@, head)]
                 [] OTHER -> onWire
  /\ sent' = IF state = "IDLE" THEN <<>> ELSE sent \o line'
  /\ UNCHANGED <<srcVars, bridgeVars>>

ShowEntry ==
  /\ Fifo!ShowEntry /\ head' = Shown(visible')
  /\ UNCHANGED <<srcVars, bridgeVars, encRegs, wireVars>>
ShowSlot == Fifo!ShowSlot /\ UNCHANGED <<srcVars, bridgeVars, vars, wireVars>>

UsbClock == WriteEnd \/ HoldEnd \/ WriteByte \/ WriteNothing

TxNext == UsbClock \/ TxEdge \/ ShowEntry \/ ShowSlot

\* Both clocks run, and pointers cross in bounded time.
TxSpec ==
  /\ TxInit /\ [][TxNext]_txVars
  /\ WF_txVars(UsbClock) /\ WF_txVars(TxEdge) /\ WF_txVars(ShowEntry) /\ WF_txVars(ShowSlot)

-----------------------------------------------------------------------------

Prefix(s, t) == Len(s) <= Len(t) /\ s = SubSeq(t, 1, Len(s))
OnlyData(entries) ==
  FlattenSeq([k \in DOMAIN entries |-> IF entries[k] = EndMark THEN <<>> ELSE <<entries[k]>>])

(* The bits driven and queued are, at every cycle, those of usbhs.py's packet:
   SYNC, the bytes taken, stuffed, and the EOP once the packet is being
   closed; when the encoder goes idle the line has carried exactly that
   packet, wherever a starved source or a change of mode made it end. *)
WireIsPacket ==
  LET taken == onWire[Len(onWire)]
  IN  /\ state = "DATA" =>
           NrziDecode(sent, 1) \o queue =
             BitStuff(SyncDataBits(HS_SYNC_BITS) \o PayloadDataBits(taken))
               \o (IF ending THEN EOP_DATA ELSE <<>>)
      /\ state = "IDLE" /\ sent # <<>> => sent = PacketLineBits(taken, HS_SYNC_BITS, 1)

(* As long as the encoder has never starved, the packets it sends are the
   source's: same bytes, same boundaries, same order, even when a packet ends
   on a full FIFO and the next one starts at once (pending_end), and even when
   the mode changes in mid-packet: the packet is closed there. *)
WireFollowsSource ==
  ~underrun =>
    \A k \in DOMAIN onWire :
      /\ k \in DOMAIN accepted /\ Prefix(onWire[k], accepted[k])
      /\ (k < Len(onWire) \/ ending) => onWire[k] = accepted[k]

(* Starved or not, every byte the source handed over in normal mode, and none
   that was a chirp, is on the wire or in the FIFO, once and in order, and two
   packets of the source never share one on the wire: a packet split by a
   starved encoder or a mode change loses and merges nothing (the payloads of
   different packets are made of different bytes). *)
NothingLostOrMerged ==
  /\ FlattenSeq(onWire) \o OnlyData(Fifo!Contents) = FlattenSeq(accepted)
  /\ \A k \in DOMAIN onWire : \E p \in 1..npackets : onWire[k] \in Seq(Range(Payload(p, MaxLen)))

(* Whatever was handed over is eventually sent and its packet closed, also
   when the source is held back in the middle of it by a released line: no end
   marker or byte is left behind that an idle encoder would not take. *)
AllSent ==
  accepted # <<>> ~> (~tx_valid /\ Fifo!Contents = <<>> /\ state = "IDLE")
=============================================================================
