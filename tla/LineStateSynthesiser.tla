------------------------ MODULE LineStateSynthesiser ------------------------
(***************************************************************************)
(* The line-state synthesiser of usb2soft/phy/linestate.py, which plays    *)
(* the host's half of reset and chirp towards LUNA.  SynthCycle is a cycle *)
(* of the usb clock; op_mode and utmi_valid, its tx_valid, are LUNA's, act *)
(* and lvl what squelch and level of the receiver have become in this      *)
(* domain.                                                                 *)
(***************************************************************************)
EXTENDS Integers, UTMIMode

CONSTANTS se0_cycles, gap_cycles, hold_cycles, pairs, min_chirp_cycles

ASSUME SynthAssumption ==
  /\ {se0_cycles, gap_cycles, hold_cycles, pairs} \subseteq Nat \ {0}
  /\ min_chirp_cycles \in Nat \ {0}

VARIABLES utmi_valid, act, lvl, \* inputs, with op_mode
          prev,   \* chirping in the last cycle
          length, \* cycles it has lasted, saturating
          synth,  \* state
          timer, pair,
          burst,  \* history: cycles the last chirp has lasted, up to min_chirp_cycles
          shown,  \* history: the levels shown in full since the last GAP
          held    \* history: cycles the present level has been shown

inputVars == <<op_mode, utmi_valid, act, lvl>>
synthVars == <<prev, length, synth, timer, pair, burst, shown, held>>

SynthTypeOK ==
  /\ op_mode \in 0..3 /\ {utmi_valid, act, lvl, prev} \subseteq BOOLEAN
  /\ length \in 0..min_chirp_cycles /\ burst \in 0..min_chirp_cycles
  /\ synth \in {"SE0", "PASS", "GAP", "K", "J"}
  /\ timer \in Nat /\ pair \in 0..pairs
  /\ held \in Nat /\ shown \in Nat

SynthInit ==
  /\ prev = FALSE /\ length = 0 /\ synth = "SE0" /\ timer = 0 /\ pair = 0
  /\ burst = 0 /\ shown = 0 /\ held = 0

chirping == op_mode = OP_CHIRP /\ utmi_valid

\* Mutant of chirp_end: any burst counts, a packet's too.
chirp_end_Any == prev /\ ~chirping
\* Mutant of chirp_end: longer than the saturated counter can tell.
chirp_end_Longer == prev /\ ~chirping /\ length > min_chirp_cycles
chirp_end == prev /\ ~chirping /\ length = min_chirp_cycles

\* What HSLineState reports: the level while there is activity, else SE0.
squelch_line_state == CASE ~act -> "SE0" [] act /\ lvl -> "J" [] act /\ ~lvl -> "K"
line_state == IF synth \in {"SE0", "K", "J"} THEN synth ELSE squelch_line_state
active == synth # "PASS"

cycles ==
  CASE synth = "SE0" -> se0_cycles [] synth = "GAP" -> gap_cycles [] OTHER -> hold_cycles
expired == timer = cycles - 1

\* A level's time is over; a device chirp that ends then overrides what follows.
Then(next) == synth' = IF chirp_end THEN "GAP" ELSE next

SE0 == synth = "SE0" /\ Then(IF expired THEN "PASS" ELSE "SE0") /\ UNCHANGED pair
PASS == synth = "PASS" /\ Then("PASS") /\ UNCHANGED pair

\* Mutant of first_pair: the replay goes on with the count of one that was cut.
first_pair_Kept == pair
first_pair == 0
GAP ==
  /\ synth = "GAP" /\ Then(IF expired THEN "K" ELSE "GAP")
  /\ pair' = IF expired THEN first_pair ELSE pair
K == synth = "K" /\ Then(IF expired THEN "J" ELSE "K") /\ UNCHANGED pair
J ==
  /\ synth = "J"
  /\ Then(IF ~expired THEN "J" ELSE IF pair = pairs - 1 THEN "PASS" ELSE "K")
  /\ pair' = IF expired THEN pair + 1 ELSE pair

next_timer ==
  CASE chirp_end -> 0
    [] ~chirp_end /\ synth = "PASS" -> timer
    [] OTHER -> IF expired THEN 0 ELSE timer + 1

SynthCycle ==
  /\ SE0 \/ PASS \/ GAP \/ K \/ J
  /\ prev' = chirping /\ timer' = next_timer
  /\ length' = CASE ~chirping -> 0
                 [] chirping /\ length # min_chirp_cycles -> length + 1
                 [] OTHER -> length
  /\ burst' = CASE chirping /\ ~prev -> 1
                [] chirping /\ prev /\ burst < min_chirp_cycles -> burst + 1
                [] OTHER -> burst
  /\ held' = IF synth' # synth \/ chirp_end THEN 0 ELSE held + (IF synth = "PASS" THEN 0 ELSE 1)
  /\ shown' = CASE synth' = "GAP" -> 0
                [] synth' \in {"J", "K", "PASS"} /\ synth \in {"K", "J"} /\ held + 1 = hold_cycles -> shown + 1
                [] OTHER -> shown
=============================================================================
