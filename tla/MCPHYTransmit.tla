---------------------------- MODULE MCPHYTransmit ----------------------------
(***************************************************************************)
(* Bounded instance of the PHY's transmit half.  First LUNA changes its    *)
(* mode and chirps as it likes, with a chirp so short that one can end in  *)
(* the replay of another; once the synthesiser is done, packets come too,  *)
(* and the mode changes a few times more.  The packets of the source are  *)
(* made of different byte values, so that they can be told apart.          *)
(***************************************************************************)
EXTENDS PHYTransmit

CONSTANT MaxSwitches \* changes of the mode since the first packet, if it is the only one

VARIABLE switches \* history: changes of the mode since the first packet

\* Runs of ones across byte boundaries, behind the SYNC and up to the EOP.
MCValues == <<<<240, 255, 252>>, <<63, 0, 63>>>>
ByteOf(v) == [i \in 1..8 |-> (v \div 2^(i - 1)) % 2]
MCBytes == {ByteOf(v) : v \in {0, 63, 240, 252, 255}}
MCPayload(k, n) == [i \in 1..n |-> ByteOf(MCValues[k][i])]

mcvars == <<allVars, switches>>

synthRegs == <<prev, length, synth, timer, pair>>

MCInit == PHYTransmitInit /\ lvl = act /\ switches = 0

\* Modes 0 and 3 are the same; of the squelch-derived states, SE0 and J are enough.
MCLuna ==
  /\ op_mode' \in 0..2 /\ lvl' = act'
  /\ npackets' > 0 => ~act' /\ (offer' = <<>> => ~utmi_valid')
  /\ npackets' > 0 /\ npackets = 0 => op_mode' # OP_CHIRP /\ synth = "PASS" /\ pair = pairs /\ burst = 1
  /\ IF npackets > 0 /\ op_mode' # op_mode
     THEN Len(offer) < MaxLen - 1 /\ switches' = switches + 1
     ELSE UNCHANGED switches
  /\ switches' <= IF npackets' > 1 THEN 0 ELSE MaxSwitches

MCUsbEdge == UsbClockEdge /\ MCLuna
MCTxEdge == TxClockEdge /\ UNCHANGED switches
MCShowEntry == ShowEntry /\ UNCHANGED <<phyVars, cut, switches>>
MCShowSlot == ShowSlot /\ UNCHANGED <<phyVars, cut, switches>>

MCNext == MCUsbEdge \/ MCTxEdge \/ MCShowEntry \/ MCShowSlot

bridging == tx_valid \/ prev_valid \/ pending_end
takes == MayRefill /\ head \in Bytes
sending == state = "DATA" \/ head # NoEntry

\* Both clocks run: what an edge would do in the bridge, the synthesiser or the encoder
\* is done, a byte that waits is taken.  And pointers cross in bounded time.
MCSpec ==
  /\ MCInit /\ [][MCNext]_mcvars
  /\ WF_<<bridgeVars, flying>>(bridging /\ UsbClock) /\ WF_synthRegs(SynthCycle)
  /\ WF_<<encRegs, visible>>(sending /\ ~takes /\ TxEdge) /\ WF_fifoVars(takes /\ Fifo!Read)
  /\ WF_fifoVars(Fifo!ShowEntry) /\ WF_fifoVars(Fifo!ShowSlot)
=============================================================================
