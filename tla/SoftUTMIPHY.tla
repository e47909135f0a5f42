----------------------------- MODULE SoftUTMIPHY -----------------------------
(***************************************************************************)
(* The control plane of usb2soft/phy/utmi.py: what LUNA's op_mode and      *)
(* tx_valid do to the wire in the transmit clock's domain, and through the *)
(* synthesiser to line_state.  PhyUsbEdge and PhyTxEdge are edges of the   *)
(* two clocks.  The transmit path is TxPath's; here "tx" stands for what   *)
(* it puts on the wire.                                                    *)
(***************************************************************************)
EXTENDS LineStateSynthesiser

VARIABLES ctl1, ctl, \* the two stages of the synchroniser, as records of its bits
          moved,     \* its inputs changed since the last edge of the transmit clock
          steady     \* history: such edges since they changed last, up to Settled

ctlVars == <<ctl1, ctl, moved, steady>>
phyVars == <<inputVars, synthVars, ctlVars>>

\* An edge to resolve a changed bit, one to sample it, one to pass it on.
Settled == 3

chirp == op_mode = OP_CHIRP

\* Mutant of ctl_in: K is driven in chirp mode whether or not there is a burst.
ctl_in_Always == [drive_k |-> chirp, non_driving |-> op_mode = OP_NON_DRIVING]
ctl_in == [drive_k |-> chirp /\ utmi_valid, non_driving |-> op_mode = OP_NON_DRIVING]

\* Who drives the four bits of a word; the control bits may both be on in passing.
wire ==
  CASE ctl.drive_k -> "K"
    [] ~ctl.drive_k /\ ctl.non_driving -> "off"
    [] OTHER -> "tx"

PhyTypeOK ==
  /\ SynthTypeOK
  /\ {ctl1, ctl} \subseteq [drive_k : BOOLEAN, non_driving : BOOLEAN]
  /\ moved \in BOOLEAN /\ steady \in 0..Settled

PhyInit ==
  /\ op_mode = 0 /\ utmi_valid = FALSE /\ act = FALSE /\ lvl \in BOOLEAN
  /\ SynthInit
  /\ ctl1 = [drive_k |-> FALSE, non_driving |-> FALSE] /\ ctl = ctl1
  /\ moved = FALSE /\ steady = Settled

\* LUNA's registers and the receiver's synchroniser change with the usb clock.
PhyUsbEdge ==
  /\ SynthCycle
  /\ op_mode' \in 0..3 /\ utmi_valid' \in BOOLEAN
  /\ act' \in BOOLEAN /\ lvl' \in BOOLEAN
  /\ moved' = (moved \/ ctl_in' # ctl_in)
  /\ steady' = IF ctl_in' = ctl_in THEN steady ELSE 0
  /\ UNCHANGED <<ctl1, ctl>>

\* A bit that changed since the last edge may be sampled old or new, by itself.
Sampled(new, old) == IF moved THEN {new, old} ELSE {new}

PhyTxEdge ==
  /\ ctl1' \in [drive_k : Sampled(ctl_in.drive_k, ctl1.drive_k),
                non_driving : Sampled(ctl_in.non_driving, ctl1.non_driving)]
  /\ ctl' = ctl1
  /\ moved' = FALSE /\ steady' = IF steady < Settled THEN steady + 1 ELSE steady
  /\ UNCHANGED <<inputVars, synthVars>>

PhyNext == PhyUsbEdge \/ PhyTxEdge

PhySpec == PhyInit /\ [][PhyNext]_phyVars

-----------------------------------------------------------------------------

(* A replay that reaches its end has shown all of its K and J levels, each for
   exactly the time LUNA needs, whatever chirp cut an earlier one short. *)
ReplayIsWhole ==
  [][/\ synth \in {"K", "J"} /\ synth' \notin {synth, "GAP"} => held = hold_cycles - 1
     /\ synth = "J" /\ synth' = "PASS" => shown' = 2 * pairs]_phyVars

(* Only a burst that lasted for min_chirp_cycles starts or restarts a replay:
   packets that LUNA answers while op_mode is still 2 do not. *)
OnlyChirpsReplay ==
  [][synth' = "GAP" /\ (synth # "GAP" \/ held' = 0) =>
       burst = min_chirp_cycles /\ prev /\ ~chirping]_synthVars

(* Every device chirp is answered: LUNA sees the K it waits for. *)
ChirpIsAnswered ==
  (burst = min_chirp_cycles /\ prev /\ ~chirping) ~> (line_state = "K" /\ active)

(* Once the control bits have settled in the transmit domain, the wire is
   driven to K exactly during a burst in chirp mode, released exactly in
   non-driving mode, and the encoder's otherwise. *)
WireFollowsMode ==
  steady = Settled =>
    wire = CASE chirp /\ utmi_valid -> "K" [] op_mode = OP_NON_DRIVING -> "off" [] OTHER -> "tx"
=============================================================================
