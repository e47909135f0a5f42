--------------------------- MODULE OversamplingCDR ---------------------------
(***************************************************************************)
(* The blind-oversampling clock and data recovery of usb2soft/rx/cdr.py.   *)
(* A step is a cycle of the CDR clock: a word of W samples comes in, about *)
(* one bit in S of them is picked, and the edges vote on the pick phase.   *)
(*                                                                         *)
(* bits is the output word with its count as its length; a slip shows in   *)
(* that length (B + 1 for slip_down, B - 1 for slip_up).                   *)
(***************************************************************************)
EXTENDS Integers, Sequences, FiniteSets

CONSTANTS S,       \* samples per unit interval
          B,       \* unit intervals per word
          T,       \* track_threshold
          idle_ui, \* unit intervals without an edge that end the activity
          Samples  \* the words of samples that may arrive

Level == {0, 1} \* of the line, 1 is J
W == S * B

\* A word of one unit interval (B = 1) has no pick in it after a slip; acc has 8 bits.
ASSUME GeometryAssumption == S \in {3, 4} /\ B \in Nat \ {0, 1}
ASSUME ThresholdAssumption == T \in Nat \ {0} /\ T + B <= 127
ASSUME IdleAssumption == idle_ui \in Nat \ {0}
ASSUME SamplesAssumption == Samples \subseteq [1..W -> Level]

VARIABLES phase,          \* sample of a unit interval that is picked
          acc,            \* votes banked
          prev_in_packet, \* in_packet of the last cycle
          prev_last,      \* last sample of the last word
          idle,           \* samples without an edge, saturating
          bits,           \* recovered line bits, earliest first
          lead,           \* history: votes for up minus votes for down in the last word
          since           \* history: samples since the last pick, at the end of the word

cdrVars == <<phase, acc, prev_in_packet, prev_last, idle, bits>>
vars == <<cdrVars, lead, since>>

\* Mutant of limit: counted in samples where unit intervals were meant.
limit_Unscaled == idle_ui
limit == idle_ui * S
activity == idle < limit

TypeOK ==
  /\ phase \in 0..(S - 1)
  /\ acc \in (1 - T)..(T - 1)
  /\ prev_in_packet \in BOOLEAN /\ prev_last \in Level
  /\ idle \in 0..(limit + W)
  /\ bits \in Seq(Level) /\ Len(bits) <= B + 1
  /\ lead \in Int /\ since \in 0..(S - 1)

Init ==
  /\ phase = 0 /\ acc = 0 /\ prev_in_packet = FALSE /\ prev_last = 0 /\ idle = 0
  /\ bits = <<>> /\ lead = 0 /\ since = S - 1

\* Sample k of the word with the last one of the word before as sample 0.
ext(word, k) == IF k = 0 THEN prev_last ELSE word[k]
Edges(word) == {i \in 0..(W - 1) : ext(word, i) # ext(word, i + 1)}

\* How far the pick is behind where the bit that starts at sample i + 1 wants it.
PhaseError(i) == (i + (S \div 2) - phase) % S

\* An error of one is a dead zone when S is 4.
UpErrors == IF S = 4 THEN {2} ELSE {1}
up(word) == Cardinality({i \in Edges(word) : PhaseError(i) \in UpErrors})
down(word) == Cardinality({i \in Edges(word) : PhaseError(i) = S - 1})
acc_next(word) == acc + up(word) - down(word)

thr(in_packet) == IF in_packet THEN T ELSE 1

\* Mutant of packet_ended: the votes banked in a packet outlive it.
packet_ended_Never(in_packet) == FALSE
packet_ended(in_packet) == prev_in_packet /\ ~in_packet

\* One step at most, in the direction the banked votes reach the threshold.
Step(word, in_packet) ==
  CASE packet_ended(in_packet) -> 0
    [] ~packet_ended(in_packet) /\ acc_next(word) >= thr(in_packet) -> 1
    [] ~packet_ended(in_packet) /\ acc_next(word) <= -thr(in_packet) -> -1
    [] OTHER -> 0

keep_acc(word, in_packet) == Step(word, in_packet) = 0 /\ ~packet_ended(in_packet)

\* The first pick, as an index of ext: 0 is in the word before, S + 1 is a slip up.
sel(word, in_packet) == phase + 1 + Step(word, in_packet)

\* Mutant of Count: a slip down does not give the extra pick.
Count_NoExtra(first) == IF first = S + 1 THEN B - 1 ELSE B
Count(first) == CASE first = 0 -> B + 1 [] first = S + 1 -> B - 1 [] OTHER -> B

Picks(word, first) == [j \in 1..Count(first) |-> ext(word, first + (j - 1) * S)]

NextPhase(first) == CASE first = 0 -> S - 1 [] first = S + 1 -> 0 [] OTHER -> first - 1

Recover(word, in_packet) ==
  LET first == sel(word, in_packet)
  IN  /\ bits' = Picks(word, first)
      /\ phase' = NextPhase(first)
      /\ since' = W - (first + (Count(first) - 1) * S)
      /\ acc' = IF keep_acc(word, in_packet) THEN acc_next(word) ELSE 0
      /\ prev_in_packet' = in_packet /\ prev_last' = word[W]
      /\ idle' = IF Edges(word) # {} THEN 0 ELSE IF idle < limit THEN idle + W ELSE idle
      /\ lead' = up(word) - down(word)

Next == \E word \in Samples, in_packet \in BOOLEAN : Recover(word, in_packet)

Spec == Init /\ [][Next]_vars

-----------------------------------------------------------------------------

(* The phase moves only with the majority of the edges of that very word
   behind it; nothing banked earlier, in a packet that has ended, moves it. *)
StepHasVotes ==
  [][/\ (phase' - phase) % S = 1 => lead' > 0
     /\ (phase' - phase) % S = S - 1 => lead' < 0]_vars

(* Whatever slips from word to word, consecutive picks are S - 1 to S + 1
   samples apart: no unit interval is skipped or picked twice for a slip, and
   the picks of a word all lie in it but for one in the word before. *)
PicksSpaced ==
  [][LET first == CASE Len(bits') = B + 1 -> 0
                    [] Len(bits') = B - 1 -> S + 1
                    [] OTHER -> phase' + 1
     IN  /\ since + first \in (S - 1)..(S + 1)
         /\ first + (Len(bits') - 1) * S <= W
         /\ first + Len(bits') * S > W]_vars
=============================================================================
