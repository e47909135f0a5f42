# A TLA+ model of crazy-fpga-usb2

USB 2.0 high-speed (480 Mbit/s) signalling on plain FPGA pins, behind a virtual
UTMI PHY for the LUNA device stack. This directory holds TLA+ modules translated
from the gateware (`usb2soft/`) and from the script that runs bitstreams on the
lab's Pi (`host/netv2_run.py`), the TLC configurations that model-check them, and
proofs that TLAPS checks.

    tlc -workers 2 -config MCPHYTransmit.cfg MCPHYTransmit   # any of the runs below
    tlapm PHYTransmitProofs.tla                              # any of the *Proofs modules

## 1. The system

    op_mode, tx_valid --> SoftUTMIPHY: wire multiplexer, LineStateSynthesiser
                              |
    LUNA / HostLite --UTMI--> TxUTMIBridge =FIFO=> PacketEncoder --4 bits--> pins
      (60 MHz usb)            (60 MHz)             (120 MHz tx)               |
                                                                             wire
    LUNA / HostLite <-UTMI--  RxUTMIBridge <=FIFO= PacketDecoder <- CDR <----'
      (60 MHz usb)                                 (120 MHz cdr)  16 samples

| part (source) | state it keeps | operations | talks to | what makes it correct |
|---|---|---|---|---|
| Wire code (`sim/usbhs.py`) | none | NRZI, stuffing, SYNC, EOP, packet, reference decoder | what the gateware is built and tested against | decoding inverts encoding; the EOP is the first violation |
| Packet encoder (`tx/encoder.py`) | 44-bit queue, ones run, level, IDLE/DATA, ending, underrun | append a stuffed byte, close with an EOP, shift four bits out | bytes and end marks from the FIFO; bits and output enables to the pins | no bit is lost from the queue, the output enable has no hole, the wire carries the packet |
| Transmit bridge (`tx/bridge.py`) | prev_valid, pending_end | hand a byte on, turn the fall of tx_valid into an end mark | UTMI source, FIFO | packet boundaries survive a full FIFO; all that is accepted is sent |
| CDR (`rx/cdr.py`) | pick phase, vote accumulator, idle count, registers between words | pick bits, vote on edges, slip, squelch | samples in; bits and activity to the decoder, `in_packet` back | a step has its word's votes behind it; picks neither double nor skip a bit |
| Packet decoder (`rx/decoder.py`) | level, zero run, ones run, packer, in_packet | five bits through a chain in one cycle | CDR; events and bytes to the bridge | one event and one byte a word; packets reported whole after any noise |
| Receive bridge (`rx/bridge.py`) | FIFO, rx_active, sticky overflow | push event/byte entries, rebuild the UTMI signals | decoder, UTMI user | no byte is lost, made up or moved to another packet unless overflow tells so |
| Line state (`phy/linestate.py`) | burst length, replay state, timer, pair | measure a chirp, answer with SE0/K/J | op_mode, tx_valid; line_state to LUNA | every chirp is answered by a whole replay, nothing else is |
| UTMI face (`phy/utmi.py`) | two-stage synchroniser of two control bits | gate the transmit bridge by op_mode, choose who drives the wire | both clock domains | the wire follows the mode; a packet in normal mode reaches the pins whole, one a mode change cuts is closed |
| HostLite (`hostlite.py`) | FSM of nine states, step, timer, faults, sof_due | play a script: token, data, reply, retry, restart, SOFs | a UTMI PHY | transactions stay whole, gaps and silences are kept, a match is a match |
| Resampler (`sim/expander.py`) | crossing FIFO, buffer, fill, drop/dup, holdoff | prime, drop or repeat one sample | two clocks with an offset | no overrun, never dry, steps like a steady offset |
| Link test (`applets/link_test.py`) | generator and checker FSMs, sequence numbers, LFSR, Fletcher sums, counters | send, check, count | transmit and receive path | the counters tell what happened |
| Bitstream runner (`host/netv2_run.py`) | its steps; services, files, FPGA on the Pi | refuse, upload, probe, stop, load, capture, restore | ssh to a host it shares with other runs | services come back; a run captures its own bitstream |
| HDMI discovery (`applets/hdmi_discovery.py`) | per lane two matchers, last peer, timeout; a report sequencer; the beacon's console and the reports' console | match frames in either polarity, accept on agreement, time out, report every lane | one listener a lane, one console line | what is seen was heard, what is there stays seen, the consoles take turns |
| Text reports (`debug/report.py`, `debug/console.py`) | byte index, transmitter | accept a trigger, send a line byte by byte | fields latched by their owner; the console line | a line is of one moment |
| UART receiver (`io/uart.py`) | FSM, timer, shift register | find a start bit, sample the bits at their middle | a lane; bytes to the matcher | in step with a sender that pauses |
| Clock generation (`clock/`) | LOCKED pins, a reset synchroniser per domain | solve for settings, lock in a chain, reset domains | every domain | domains leave reset together; the ratios the rest counts on |
| Device test, LUNA glue, DNA, pin I/O, build, CRC and simulated host, report parsers | see `PROJECT.json` | | | not modelled, section 6 |

The hard behaviours are of four kinds. *Two clocks*: both bridges and the PHY's
control bits cross from one clock to another through FIFOs that fill, run empty
and show their entries late, and the resampler lives between two clocks by
design. *One cycle, several things*: the decoder's chain, the replay that a
chirp restarts in the cycle in which it ends, an SOF tick in the cycle that
serves one, registers that take effect one cycle late. *Streams cut anywhere*: a
starved encoder, a cut packet, noise that looks like a SYNC, a squelch that falls
right behind the EOP. *An unreliable partner*: a device that is silent, late,
NAKs or answers rubbish; an ssh connection that fails before or after its
command took effect; another run on the same Pi. `PROJECT.json` lists the hazards
at their lines, each with the properties aimed at it.

## 2. Modules

| module | models | how |
|---|---|---|
| `HSWire` | `sim/usbhs.py` | Bit sequences; NRZI by counting toggles, stuffing and the reference decoder as folds over bits (recursive functions). The packet the transmit path must produce and the receive path must recover. |
| `PacketEncoder` | `tx/encoder.py` | A step is a cycle of the transmit clock. `queue` is the register's content in wire order, so its fill is its length; `line` the bits driven in the cycle. `head` is what the FIFO offers. |
| `AsyncFifo` | amaranth's `AsyncFIFOBuffered` (external) | Order, capacity, and that each side learns late of the other's work. How late is open. |
| `TxPath` | `tx/bridge.py`, `tx/__init__.py`, the op_mode gate of `phy/utmi.py` | UTMI source, gate, bridge, `AsyncFifo` and `PacketEncoder`; a step is an edge of either clock or a pointer that crosses. |
| `OversamplingCDR` | `rx/cdr.py` | A step is a word of samples; votes, filter, picks, slips and squelch for S = 3 or 4 samples a bit. |
| `PacketDecoder` | `rx/decoder.py` | A step is a word of 0 to 5 bits through the chain of `BitStep`; `events` and `bytes` keep everything the chain produced, where the code keeps the last assignment. |
| `DecoderEvents` | what the decoder promises | Abstract: at most one event and byte a word; START, bytes, END or ERROR in that order, a byte only inside a packet. |
| `RxUTMIBridge` | `rx/bridge.py` | Behind any decoder that keeps `DecoderEvents`, not behind one particular decoder. The FIFO loses an entry when it is full and says so. |
| `UTMIReceive` | the receive half of UTMI | Abstract: rx_active encloses bytes, no byte while it falls, an error ends a packet. Proved of the bridge, assumed by `HostLite` and `LinkTest`. |
| `RxPath` | `rx/__init__.py` | CDR and decoder in their loop (bits and activity one way, `in_packet` back) and the bridge behind them: from samples to UTMI. |
| `JitteredLine` | `LineSampler` of `sim/usbhs.py`, in front of `RxPath` | A line of any bits whose edges lie on the samples' grid or one sample beside it, each as it likes; what the picks of the CDR are bits of. Only for proofs: its bits and displacements are functions on all numbers. |
| `UTMIMode` | `OP_*` of `phy/utmi.py` | The register op_mode, which `TxPath` and `LineStateSynthesiser` both read. |
| `LineStateSynthesiser`, `SoftUTMIPHY` | `phy/linestate.py`, `phy/utmi.py` | One action per clock edge; `synth` is the FSM's state, `utmi_valid` LUNA's tx_valid; `ctl1`, `ctl` are the synchroniser, whose two bits may resolve in different cycles. |
| `PHYTransmit` | the transmit half of `phy/utmi.py` | `TxPath` and `SoftUTMIPHY` on the same edges, with one op_mode and one tx_valid: packets, chirps and mode changes mixed. |
| `HostLite` | `hostlite.py` | One action per FSM state; packets as lengths, the script as records of its steps. `outcome` is the counter counted up in the cycle. The SOF timer is free-running, so its tick may come in any cycle. |
| `ClockPlan` | `clock/params.py`, the plan of `clock/netv2.py` | The solver as a choice over the settings that fit; no state. Gives `Rates` of `AsyncResampler` and `Cycles` of `MCRxPath` their values. |
| `PhyClocks` | `NeTV2PhyClocks` of `clock/netv2.py` | LOCKED pins that rise and fall as they like within the chain, and one reset synchroniser a domain. |
| `AsyncResampler` | `AsyncResampler` of `sim/expander.py` | On top of `PhyClocks`. Counts samples: they enter and leave in order, and what can go wrong is their number. |
| `AsyncLoopback` | the async wiring of `applets/link_test.py` | Clocks, resampler and the transmit FIFO at start-up, where entries a reader in reset moves to its cleared output register are lost, as `docs/clocking.md` found on hardware. |
| `LinkTest` | generator and checker of `applets/link_test.py` | Bytes, LFSR and sums in full width; the link between them delivers, loses, damages, cuts or makes up. |
| `NetV2Run` | `main` of `host/netv2_run.py` | One action per ssh step, each with its failure and its interruption, for a set of runs that share services, files, FPGA. |
| `UARTReceiver` | `io/uart.py` | One receiver as a function from its registers and the line's level to its next registers, so that several run side by side. |
| `LaneListener` | frame matcher and lane listener of `applets/hdmi_discovery.py` | Two receivers (the lane and its inverse), two windows, agreement and timeout, again as functions. |
| `Discovery` | the applet's core, `debug/report.py`, `debug/console.py` | A step is a cycle of both boards' clock; other boards that send, stop and come back; the report sequencer and the two consoles on one line. |
| `MC*` | | Bounded instances, with the history a property needs. |
| `*Proofs` | | Theorems, section 5. |

The modules compose as the gateware does. `TxPath` extends `PacketEncoder` and
instantiates `AsyncFifo`; `SoftUTMIPHY` extends `LineStateSynthesiser`;
`PHYTransmit` extends both. `RxPath` instantiates `OversamplingCDR`,
`PacketDecoder` and `RxUTMIBridge`. `AsyncResampler` extends `PhyClocks`,
`AsyncLoopback` adds a FIFO of the transmit path; `Discovery` runs one `LaneListener` per lane,
which runs two `UARTReceiver`s. Two interfaces are also
crossed by refinement, so that either side is checked alone:
`PacketDecoder` implements `DecoderEvents`, on which `RxUTMIBridge` stands when it
is checked with an overflowing FIFO, and `RxUTMIBridge` implements `UTMIReceive`,
on which `HostLite` and `LinkTest` stand.

Variables marked *history* in the modules are not in the code. Each definition
named `X_Something` or marked "Mutant of" stands beside the definition `X` it
would replace, as a plausible mistake in the code; no specification uses it. It
shows that a property can fail: with the mutant in place TLC finds the property
violated.

## 3. What the runs check

| run | question | distinct states | bounds, and why they are enough |
|---|---|---|---|
| `phy_transmit` | Does the wire carry exactly the packets the source handed over, for all interleavings of the clocks and changes of the mode, and is every chirp, and nothing else, answered? | 275 862 | FIFO of two entries, two packets of up to three bytes: the FIFO is full and empty in mid-packet, tx_valid falls while it is full, the encoder starves at every byte. The values put runs of ones behind the SYNC, over byte boundaries and up to the EOP. One packet with two changes of the mode anywhere, or two packets; before them any modes and chirps, with times of 2 and 3 cycles, two K/J pairs and a shortest chirp of four cycles, so that a chirp ends in every cycle of a replay. |
| `packet_decoder` | Does the chain equal the ideal decoder, whatever noise came before, however the bits are cut into words? | 7 751 | Noise of up to six words, two of which can pass for a SYNC; packets of up to two bytes in words of 3 to 5 bits; a full and a shortened SYNC; packets cut anywhere. |
| `rx_bridge` | Is what UTMI shows what the decoder saw, unless `overflow` says otherwise? | 546 985 | A FIFO of three entries overflows in all positions; two different bytes; entries cross at any time. The decoder is any that keeps `DecoderEvents`. |
| `rx_path` | Does every packet come out at the UTMI once, whole and in time, although the CDR slips, the squelch falls and the next packet is on the line? | 778 426 | Four offsets in a word of 16 samples, one of each phase of a bit, on top of any phase left by an earlier packet; four cycles between packets, when the last one's END is still on its way; one edge displaced by a sample, alone or with all that follow, at bits that make the word gain or lose a pick. Payloads of one byte, 0x00, 0xFC, 0xFF: most edges, fewest edges, and ones up to the EOP; none; and five bytes, more entries than are on their way at a time. The FIFO has the code's sixteen entries; the usb clock is in phase at the ratio the clock plan gives; an entry is seen three or four of its edges late (two synchroniser stages and the output register), a freed slot one. |
| `host_lite` | Do transactions stay whole against any device? | 466 469 | SET_ADDRESS and a looping GET_DESCRIPTOR of the default script; timeouts, retries and restarts of 3 and 12 cycles, two faults; `idx` counts modulo four so that a long reply wraps it as it does at 128. The PHY delivers any bytes at any time. |
| `host_lite_error` | Does a reply that ends in rx_error count as bad? (finding) | | as above |
| `async_loopback` | Do FIFO and buffer of the resampler hold at the real clock ratios, and is nothing lost when the clocks come up or lose lock? | 921 151 | W = 16, BUF, TARGET, HYST and HOLDOFF as in the code; 265/264 and 215/216, which the solver's plan makes of 50 MHz; every phase of the three clocks at a start, any generator may lose its lock at any time; entries seen 3 or 4 cycles late, two freed slots unseen. The size of every buffer is the code's; only sample values are abstracted. Three bytes are sent as soon as the usb domain is out of reset, when they are in danger. |
| `link_test` | Do the counters tell exactly what the link did? | 330 455 | Payloads of 1 to 3 bytes, four packets from reset and over the wrap of the 16-bit number; each packet whole, lost, with one byte anywhere off by 1 or 128, cut anywhere, or made up. The theorem `LinkLedger` has no such bounds. |
| `netv2_run` | Do services come back and captures belong to their run? | 1 063 597 | Two runs with both services, each any number of times, any failure and interruption of any step. The two runs are symmetric and no property is temporal, so symmetry is sound. |
| `netv2_run_restart` | Does a single run restart what it stopped? (finding) | | One run. |
| `discovery` | Is what a lane shows what was sent to it, does it stay shown, and do the reports come out whole? | 1 872 522 | Two lanes of two ports, one pair swapped, a bit time of 4 and so a frame of 240 cycles; a timeout of 300, longer than a frame, and a pause of 161 between reports, no part of one, so that listeners change in every part of a report. The other board is found at six places in its frame, leaves once, in the middle of a byte, and comes back once, 60 or 200 cycles later: the timeout runs out behind its return or does not, cabled as before or with the ports and polarities exchanged. |
| `discovery_lock` | Is a board that sends steadily heard? (finding) | | The same instance, without a departure. |

What the properties say is in the comments in front of them. The ones that carry most:

- `PacketReachesPins`: a packet's bits and the control bits that open the pins for it
  take two different ways from one clock to the other; the control bits are first.
- `WireIsPacket`, `WireFollowsSource`, `NothingLostOrMerged`: what leaves the pins
  is the wire code's packet of the bytes accepted, at every cycle, and every
  packet on the wire is one of the source, or a beginning of one where
  the source starved or the mode changed, never two run together. `AllSent` is their liveness half.
- `KeepsPromise` (`DecoderEvents` as a PROPERTY), `PacketDelivered`, `RxDelivers`:
  the decoder and the whole path around it, from samples to UTMI.
- `BytesDelivered`, `FollowsUtmi`, `PacketCloses`: the bridge, with and without an overflow.
- `DataFollowsToken`, `SilentRestart`, `OkMeansMatch`, `SofFlows`: the host.
- `Ledger`: an action property over both ends of the link test: each counter moves
  exactly when what it counts happened; of packets lost in a row only a multiple of 65536 does not show.
- `NothingLeftDown`: a service that is down is owed by some run, or met one of two
  gaps the tool has (a probe that did not say it ran; a restart command that did
  not get through). What is left of the promise without the gaps is what
  `netv2_run_restart` refutes.

- `StartUpLosesNothing`, `KeepsValidSamples`: bytes and samples on their way between
  domains that come up, and lose their clocks, at different times. With each domain reset
  from its own generator, as the code once did, TLC finds the loss seen on hardware.
- `SeenIsHeard`, `HeardFromQuiet`, `StaysSeen`, `OneTalker`, `ReportIsWhole`: the
  discovery applet from the level on a lane to the bytes of a report. `SeenIsHeard` has two
  parts: a lane is reported only for what is or was at its end, and its matchers match
  nothing but that (`NoChanceMatch`), which is what `QuietIsHeard` assumes.

### Findings

1. `HostLite` counts a reply as matched although it ended in `rx_error`
   (`host_lite_error`, `usb2soft/hostlite.py:239`). The bridge raises rx_error in
   the cycle in which rx_active falls (`rx/bridge.py:50-58`); `rx_end` judges by
   `mismatch` as it was before that cycle. It matters only when every byte was
   right and the error came behind them.
2. `netv2_run.py` stops services and does not restart them when the probe before it
   was not answered (`netv2_run_restart`, `host/netv2_run.py:186`), against its
   docstring, lines 4-6.
3. A lane that comes up while another board sends may take a bit inside a byte for a start
   bit, and the same one in every frame, so that the board is never seen
   (`discovery_lock`, `usb2soft/io/uart.py:41`): beacons follow each other without a pause
   in which the receiver could get into step.

Noted beside them, without a run: `solve` refuses a phase that any setting in reach cannot
give although another could (`clock/params.py:112`; its docstring, line 82, says "not
representable"), and prefers few input divisions to the highest VCO that line 79 promises;
the clock plans, which pin the VCO, are not touched by either. The docstring of
`netv2_run.py` speaks of refusing while another session is logged in, the code (lines 168-178) refuses on recently
changed files only and prints the sessions; a device that NAKs for ever keeps the
host in one transaction without a fault, as its docstring intends. A board with a byte 0xA5 in its
identifier, port and lane, or checksum is never seen: the bytes of a frame have the exclusive or
0xA5, so a window that starts at that byte is a valid frame too (`hdmi_discovery.py:69-73`), and
what is matched never agrees twice in a row (line 115). With such a board in `MCCablings` TLC
finds `NoChanceMatch` and `HeardFromQuiet` violated. The CDR's `prev_last` comes out of reset
low (`usb2soft/rx/cdr.py:44`), so a line that idles high shows it an edge in the first cycle; a packet in
the next few cycles that has an edge displaced in the first six bits of a SYNC of twelve can then be lost.
In `rx_path` a packet comes no sooner after the reset than after another packet: with that, TLC
finds none lost.

## 4. Fairness

Safety holds under `Init /\ [][Next]_vars` alone. Liveness assumes:

- `AllSent` (phy_transmit): both clocks run and FIFO pointers cross. The weak fairness is
  of what an edge does (a bridge or an encoder that has something to do, a byte that is
  taken) because an edge at which nothing changes is a stutter. Clocks come from a PLL; gray-coded
  pointers cross in a few cycles. Nothing is assumed of the source, nor of op_mode.
- `PacketCloses` (rx_bridge): the same of its clocks and pointers. Nothing is
  assumed of the decoder: the property says that a close it reported comes out.
- `SofFlows` (host_lite): the clock runs, the PHY takes a byte again and again
  (`SendByte`: the encoder drains its FIFO, which `phy_transmit` shows), and a packet
  being received ends (`Close`: the decoder ends each packet with END or, when
  activity falls, with ERROR, and `PacketCloses` carries that over unless an entry was
  lost). RECEIVE and SEND have no timeout in the code, so without the last two the
  property is false of the code, not only of the model.
- `ChirpIsAnswered` (phy_transmit): the usb clock runs, so the synthesiser does, with no
  assumption on LUNA; the property speaks of bursts that end.
- `SteadyIsHeard` (discovery_lock): the clock runs. Its counterexample is a loop of steps
  in which every frame arrives.

## 5. What is proved

All for every value of the constants that meets the named assumptions, which are
those of the modules' ASSUMEs.

| module | theorems | argument |
|---|---|---|
| `WireCodeProofs` | lemmas only | What the wire code computes over whole packets. Induction is over sets of lengths and sequences (lemmas `SetInduction`, `SeqInduction`, of a set instead of a predicate), loops are folds that add one element at a time. Stuffing is undone by unstuffing, NRZI by the ideal decoder, and a packet behind an idle line is read up to the first violation, which is its EOP. |
| `PHYTransmitProofs` | `EncoderTypeCorrect`, `QueueNeverOverflows`, `OpenPacketHasAWord`, `OutputEnableContiguous`, `WireCarriesPackets`, `WireFollows`, `NothingIsLost`, `PacketsReachPins`, `PhyTypeCorrect`, `ModeReachesWire`, `ReplaysAreWhole`, `ShortBurstsIgnored`, `TransmitHalfKeepsAll` | Encoder: `EncoderInv == TypeOK /\ QueueFits /\ NoHole`; eight bits through the stuffer from a run of less than six come out as at most ten, by eight uses of the one-bit lemma; `NoHole` rests on the order in which close and refill look at the fill. `WireBits`: what is on the line and in the queue together is the packet of the bytes the encoder took, a step appends to both. `TxInv`: `Promise` and `NothingLost` say what each entry in flight will become at the encoder, which an end mark or a byte behind it cannot change. `Counted` ties timer and pair to what was shown; `Measured` ties the length register to the burst, which is only true with the cycle's order of assignments. `Crossed` says how many of the synchroniser's stages hold the present control bits after so many quiet edges; `PathInv` and `Ahead` that an entry of a packet in normal mode is never seen before its control bits. |
| `PacketDecoderProofs` | `TypeCorrect`, `OneEventOneByte`, `DecoderKeepsPromise`, `PacketsDelivered`, `WireCodeRight` | `ChainInv` says what the chain holds after i bits of a word, a lemma about one bit applied at most five times: an event leaves its run (of ones, of zeros) and a byte its packer shorter than the bits read since, and five bits are too few to fill any of them again. From it the step simulation: every decoder step is a `DecoderEvents` step. `PacketsDelivered` is of the run's own specification: `MCInv` says that the chain, whose state noise may have left anywhere, follows the ideal decoder bit by bit (`Follows`) once the silence is over (`Quiet`) and the SYNC has been seen (`Going`); what the ideal decoder makes of a packet is `WireCodeProofs`' matter. |
| `RxUTMIBridgeProofs` | `TypeCorrect`, `ReaderAgreesWithDecoder`, `ReceiveSignalsFollowUtmi`, `EveryByteArrives` | `Inv`: while nothing was lost, the entries in flight are *chained*: each leaves the packet open or closed as the next expects it, from rx_active at the reading end to in_packet at the writing end. Append and Tail keep the chain. The agreement at the reading end is what makes each read a `UTMIReceive` step. `EveryByteArrives`: bytes shown, bytes in flight and bytes reported are one sequence in three parts. |
| `HostLiteProofs` | `TypeCorrect`, `TokenBeforeData`, `MatchedReplyIsExact`, `GapsKept`, `RestartsAreSilent` | `Phase` says for each FSM state which step may go next and what was sent last; `Matching`: while nothing has mismatched, idx counts the bytes heard and they are the first of those expected, so idx has not wrapped. For every script that starts with a token, puts each data packet behind a token and jumps only to tokens. `GapsKept` and `RestartsAreSilent` tie the timer to the cycles since the last packet, per state: the latched gap, or the restart's, is what the timer counts to; gaps need a script whose packets without a reply carry a gap of eight or more. |
| `OversamplingCDRProofs` | `TypeCorrect`, `NoSpuriousStep`, `PicksKeepTheirSpacing` | `Inv`: outside a packet no votes are banked, the accumulator is below the threshold, and the distance since the last pick is given by the phase. For S = 3 and 4 and every word width; acc fits its eight bits because T + B <= 127. |
| `OversamplingCDRProofs` (receive path) | `PathImplementsBridge`, `PathFollowsUtmi`, `PathKeepsPicks`, `PacketsAreSamples`, `PacketsPickedOnce` | CDR and decoder are each other's inputs, so neither's theorem holds of the loop as it stands. `PathInv` is the two invariants side by side: a cycle keeps each for any input of the other's type (`RecoverStep` of any `in_packet`, `WordStep` of any word of up to five bits), and the registers between them have those types. With it, every cycle of the loop is a step of `DecoderEvents`, so the path is an `RxUTMIBridge` behind some decoder, and the bridge's theorems (instance `BrP`) are true of it. On any samples; `PacketsAreSamples` says that those of the run are among them. |
| `OversamplingCDRProofs` (displaced edges) | `JitterIsTolerated`, `FirstEdgeLocks` | `LineInv` puts sample i of a word at place i + shift on the grid of bits, the same in every word (`Grid`), and prev_last at the place before. With four samples a bit, samples 1 and 2 of it show it whatever its edges do (`Shows`), so an edge lies at 3, 0 or 1 (`EdgePlaces`); its vote is a function of that and of where the CDR picks (`VoteOf`). Picking at 1 no edge votes down, at 2 none up: this is what the dead zone of the code is for, and why T and the banked votes do not matter (`StepsInward`). A slip changes the number of picks and the word in which the next one lies, but not the bit it is of (`PickPlaces`, `AimsOn`). Outside a packet the edges of a word, all in place, vote the same way, and one vote is enough (`EdgeSteps`). |
| `AppletProofs` (discovery) | `TypeCorrect`, `ConsolesTakeTurns`, `ReportsAreWhole` | `Turns`: the consoles and their transmitters are in one of a few joint phases; the sequencer starts a console only when the transmitter of the other has stopped as well. `Report` and `UnderWay`: the lines heard so far are those of the lanes before the sequencer's, each of one latched moment, and the transmitter holds the next byte of the line under way. For any number of lanes, byte time and report period. |
| `AppletProofs` (what lanes hear) | `FramesAreMatched`, `QuietIsHeard` | `Settling`: a receiver whose line came to rest is at rest itself nine bits and two cycles later, whatever it was reading (`ReturnsAssumption`: the board is away longer than a character). `InStep`: then its place in the frame is the beacon's, four cycles and half a bit earlier, and its registers are those of that place; one step keeps that (`StaysInStep`), since a sample half a bit into the bit is that bit's level for every divisor of 4 or more. `InFrame` adds the matcher: the last bytes of the window are the frame's first, so the sixth completes it. `Known`: the candidate, and a frame later the report, is as old as the last match. Under `NoChanceMatch` nothing comes between two matches, and the timeout is a frame or more (`MemoryAssumption`). |
| `AppletProofs` (loopback) | `DomainsRunLocked`, `NothingLostAtStartUp`, `FifoNeverOverruns`, `BufferHoldsAWord`, `StepsGoOneWay` | `Locks`: a domain out of reset has every lock in front of it. `Paced`: three cycles of the writer hold two edges of the reader because 3n >= 2d (`OffsetAssumption`), so the reader's two-stage reset ends before the first entry is written; `BytesInOrder` counts what was written, is in flight and was read. The resampler: `Resampled` counts samples in 1/d of a sample, d times the backlog plus 16 times the phase, a sum in which an edge changes nothing but the drift of 16(n - d) a cycle and a step of d; `Upper` and `Lower` bound it, `Slow` and `Fast` say which way the next step goes. A step in eight cycles, seen one cycle late, is enough up to a drift of one in 144 (`CloseRates`), far more than the ratios used; for ratios like 127/128 TLC finds the holdoff too long. `AsBuilt` are the sizes of the code, with any depth of the FIFO that has room for what the reader does not see. |
| `AppletProofs` (link test) | `LinkTypesCorrect`, `LinkLedger` | `GenInv`: a packet is traced byte by byte through the registers that make it, two sums and the shift register (`Traced`), and the packet on the link has the number of the packets sent (`OnLink`). `ChkInv`: what the checker has heard is a part of such a packet, off by an error from one byte on (`OffBy`, `Summed`, `Reception`). Its registers follow the same trace two bytes late; behind the damaged byte the first sum is off by the error, so the checksum byte disagrees, and an error in a checksum byte disagrees with the sum itself. `Expecting`: expect_seq is the number behind the last good packet's. For any lengths of 1 to 1023 bytes, any error of one byte, any made-up packet of less than four bytes, and any number of packets over the wrap of the 16 bits. |
| `NetV2RunProofs` | `TypeCorrect`, `ServicesAccountedFor`, `OwnBitstreamCaptured` | For any set of runs and services: the invariant is inductive with the types; lemma `StillCovered` reduces it to the run that takes the step. `OwnInv`: the file, then the FPGA's configuration, then the capture belong to the run that met no other since its check. |

The specifications the theorems speak of are the components' own `Spec`, for the resampler
and the start-up `LoopbackSpec` of `AsyncLoopback`, for the link test `LinkSpec`, for the receive path `RxSpec` of
`RxPath`, for the displaced edges `JSpec` of `JitteredLine`, and for `PacketsDelivered`, `WireCodeRight`, `PacketsPickedOnce`, `FramesAreMatched`
and `QuietIsHeard` the run's own (`MCPacketDecoder`, `MCRxPath` and `MCDiscovery`, with any
payload, noise, SYNC, offset and displaced edge, any boards and times of leaving and coming back);
a bounded instance has the same actions with fewer inputs and some history. TLC checks the
inductive invariants' consequences, and the proofs use no fact that is not proved
or assumed by name. Assumptions on constants are those of the code: bytes have eight bits
and the marks beside them in the FIFO's ninth bit are none (`BytesAssumption`,
`EntryAssumption`, `NoBytesAssumption`); payloads are sequences of bytes (`PayloadAssumption`
of `TxPath` and of `MCPacketDecoder`); a SYNC reaches the decoder with more zeros than it asks
for (`SyncsAssumption`, the reading of `MIN_SYNC_ZEROS`); payload lengths of the link test fit the byte counter
(`LengthsAssumption`), and a packet its receiver makes up is shorter than any of the generator's (`LinkAssumption`); the two clocks are offset, not of another kind
(`OffsetAssumption`, a ratio from 2/3 to 2); what a board sends are bytes, and the marks for no
byte and no peer are none (`CablingsAssumption`, `SyncAssumption`, `NoByteAssumption`,
`NoPeerAssumption`); the timeout of the lanes, a tenth of a second, is longer than a frame of 60 bits at
1 Mbaud (`MemoryAssumption`).

Model-checked only:

- Liveness (`AllSent`, `ChirpIsAnswered`, `PacketCloses`, `SofFlows`), which the prover does
  not handle.
- `RxDelivers`: the path from samples to UTMI. Its parts are proved and put together on any
  samples (`PathFollowsUtmi`, `PathKeepsPicks`), so are the decoder's packets on any words, and
  that a CDR in lock hands it the line's bits, each once, whatever edges come a sample early or
  late (`JitterIsTolerated`). What is between these is not: that the first bits of a packet, read
  before lock, cost the SYNC no more than it has to spare, that the squelch falls in no packet,
  and that the entries come out in time, a matter of the two clocks' ratio. They are left to TLC.
- `SeenIsHeard`, `StaysSeen`: that receivers out of step, or of the other polarity, make up no
  frame is arithmetic of the bytes sent, and not true of all bytes (see the notes to the
  findings). So it is the hypothesis of `QuietIsHeard`, a condition on the behaviour and not on
  the constants; TLC shows that every behaviour of `discovery` meets it. What the receivers
  in step do with the frames (`FramesAreMatched`) needs no such hypothesis.

Type invariants that are proved are not checked by the runs a second time.

## 6. What is left out, and why

In modelled parts:

- Metastability beyond a bit that resolves in one cycle or the next.
- Gaussian jitter, ppm ramps and idle noise of `sim/usbhs.py`: statistics. The
  receive path is checked with single displaced edges and single gained or lost samples;
  that bits are read in lock is proved for any number of edges displaced by one sample, which
  includes one sample gained or lost. A line that drifts by more than a sample in all is in
  neither: there the loop must follow faster than the line drifts. With three samples
  a bit the code has no dead zone and only edges in place are covered.
- The resampler's entries jitter by one cycle. A two-stage synchroniser resolves in one
  cycle or the next; with two cycles `StepsLikeAnOffset` would not hold.
- CRC and frame number of SOFs; statistics counters; report lines.
- `netv2_run.py`: an ssh command that goes on on the Pi after the local end was
  interrupted (its effect is at once or never); `extra_pre`; printed text.

- In `rx_path` the CDR's and the usb clock keep exactly the plan's ratio, as they do on one
  board; in `discovery` both boards' clocks are equal.
- The fine phase shift of the MMCM (unused until a later phase of the project) and the
  bring-up clocks, a single PLL. A generator that loses its lock resets its domains at once.
- In `async_loopback` the transmit FIFO is watched by numbered bytes at start-up; what else the path
  does with bytes is `phy_transmit`'s matter, which starts out of reset.

Not modelled: vendor primitives (pins, DNA, the ports of the PLLs), the build, pure codecs and
the test benches' host (`sim/usb_crc.py`, `sim/host.py`), which only tests use, the LUNA device,
which is not in the repository, the device test that wires it to the modelled parts, and report
parsers.

## 7. Plan

Done, in this order: wire code and encoder, transmit path, decoder, receive bridge,
host, CDR and receive loop, resampler, PHY control plane, link test, bitstream
runner; then the op_mode gate and the whole transmit half of the PHY, the receive path on samples
up to the UTMI, discovery with its receivers and reports, the clock plan with locks and resets;
proofs of these components, up to the packets on the wire and in the decoder, the start-up and the
resampler for any two clocks close to each other, the ledger of the link test, the receive
path on any samples as an implementation of the bridge it ends in, the CDR on a line with
displaced edges, and the beacons of the discovery applet from the line to the report.

Next, by importance:

1. The device test: two PHYs, `HostLite` and resamplers both ways, over an abstract LUNA device.
2. The reports of the link test through the text reporter, with the counters that cross domains.
