------------------------ MODULE OversamplingCDRProofs ------------------------
(***************************************************************************)
(* For every word length, threshold and stream of samples, with three or   *)
(* four samples per unit interval: the accumulator stays below the         *)
(* threshold, the phase moves only with the edges of the word, and         *)
(* picks are never more than one sample off their spacing.  Then the       *)
(* receive path, where CDR and decoder are each other's inputs: on any     *)
(* line it is a bridge behind a decoder that keeps its promises, so that   *)
(* what is proved of the bridge is true of the path.  Last, the CDR behind *)
(* a line of bits whose edges come a sample early or late.                 *)
(***************************************************************************)
EXTENDS MCRxPath, JitteredLine, WireCodeProofs

(* Outside a packet nothing is banked, which is what lets the threshold drop
   to one; the distance to the last pick follows from the phase. *)
Inv ==
  /\ TypeOK
  /\ ~prev_in_packet => acc = 0
  /\ since = S - 1 - phase

\* The numbers of the geometry.
LEMMA Geometry == /\ S \in {3, 4} /\ S \in Nat /\ B \in Nat /\ B >= 2
                  /\ W \in Nat /\ W = S * B /\ W >= 2 * S
<1>1. S \in {3, 4} /\ B \in Nat /\ B >= 2
  BY GeometryAssumption
<1>2. CASE S = 3
  BY <1>1, <1>2 DEF W
<1>3. CASE S = 4
  BY <1>1, <1>3 DEF W
<1> QED
  BY <1>1, <1>2, <1>3

\* Votes are counted in numbers.
LEMMA Votes ==
  ASSUME NEW word \in [1..W -> Level]
  PROVE  up(word) \in Nat /\ down(word) \in Nat
<1> DEFINE U == {i \in Edges(word) : PhaseError(i) \in UpErrors}
           D == {i \in Edges(word) : PhaseError(i) = S - 1}
<1>1. IsFiniteSet(0..(W - 1))
  BY Geometry, FS_Interval
<1>2. U \subseteq 0..(W - 1) /\ D \subseteq 0..(W - 1)
  BY DEF Edges
<1>3. IsFiniteSet(U) /\ IsFiniteSet(D)
  BY <1>1, <1>2, FS_Subset
<1>4. Cardinality(U) \in Nat /\ Cardinality(D) \in Nat
  BY <1>3, FS_CardinalityType
<1> QED
  BY <1>4 DEF up, down

(* What a cycle does to the loop filter: a step needs a majority of votes of
   its own direction, and less than a threshold stays banked. *)
LEMMA LoopFilter ==
  ASSUME Inv, NEW word \in [1..W -> Level], NEW inside \in BOOLEAN
  PROVE  /\ Step(word, inside) \in {-1, 0, 1}
         /\ Step(word, inside) = 1 => up(word) - down(word) > 0
         /\ Step(word, inside) = -1 => up(word) - down(word) < 0
         /\ keep_acc(word, inside) =>
              /\ acc_next(word) \in (1 - T)..(T - 1)
              /\ ~inside => acc_next(word) = 0
<1> DEFINE v == up(word) - down(word)
           a == acc_next(word)
           t == thr(inside)
           ended == packet_ended(inside)
<1>1. v \in Int /\ T \in Nat /\ T >= 1
  BY Votes, ThresholdAssumption
<1>2. acc \in Int /\ 1 - T <= acc /\ acc <= T - 1
  BY <1>1 DEF Inv, TypeOK
<1>3. a = acc + v
  BY <1>2, Votes DEF acc_next
<1>4. t = IF inside THEN T ELSE 1
  BY DEF thr
<1>5. ~inside /\ ~ended => acc = 0
  BY DEF Inv, packet_ended
<1>6. Step(word, inside) =
        IF ended THEN 0 ELSE IF a >= t THEN 1 ELSE IF a <= -t THEN -1 ELSE 0
  <2>1. ~(a >= t /\ a <= -t)
    BY <1>1, <1>2, <1>3, <1>4
  <2> QED
    BY <2>1, Zenon DEF Step
<1>7. keep_acc(word, inside) <=> Step(word, inside) = 0 /\ ~ended
  BY DEF keep_acc
<1> HIDE DEF v, a, t, ended
<1>8. Step(word, inside) = 1 => v > 0
  BY <1>1, <1>2, <1>3, <1>4, <1>5, <1>6
<1>9. Step(word, inside) = -1 => v < 0
  BY <1>1, <1>2, <1>3, <1>4, <1>5, <1>6
<1>10. keep_acc(word, inside) => ~ended /\ a < t /\ a > -t
  BY <1>1, <1>2, <1>3, <1>4, <1>6, <1>7
<1>11. keep_acc(word, inside) => a \in (1 - T)..(T - 1) /\ (~inside => a = 0)
  BY <1>1, <1>2, <1>3, <1>4, <1>5, <1>10
<1>12. Step(word, inside) \in {-1, 0, 1}
  BY <1>6
<1> QED
  BY <1>8, <1>9, <1>11, <1>12 DEF v, a

(* What a first pick leaves: so many picks that all lie in the word but one,
   and a phase that says how far the last one is from the end of the word. *)
LEMMA PicksOfWord ==
  ASSUME NEW p \in 0..(S - 1), NEW s \in {-1, 0, 1}
  PROVE  LET first == p + 1 + s
             last == first + (Count(first) - 1) * S
         IN  /\ first \in 0..(S + 1)
             /\ Count(first) \in (B - 1)..(B + 1) /\ Count(first) >= 1
             /\ NextPhase(first) \in 0..(S - 1)
             /\ W - last = S - 1 - NextPhase(first)
             /\ last <= W /\ last + S > W
             /\ first = CASE Count(first) = B + 1 -> 0
                          [] Count(first) = B - 1 -> S + 1
                          [] OTHER -> NextPhase(first) + 1
<1> DEFINE first == p + 1 + s
           last == first + (Count(first) - 1) * S
<1>1. first \in 0..(S + 1) /\ S \in {3, 4} /\ B \in Nat /\ B >= 2
  BY Geometry
<1>2. CASE first = 0
  <2>1. Count(first) = B + 1 /\ NextPhase(first) = S - 1
    BY <1>1, <1>2 DEF Count, NextPhase
  <2>2. W - (first + B * S) = 0
    <3>1. CASE S = 3
      BY <1>1, <1>2, <3>1 DEF W
    <3>2. CASE S = 4
      BY <1>1, <1>2, <3>2 DEF W
    <3> QED
      BY <1>1, <3>1, <3>2
  <2>3. last = W /\ W \in Nat
    BY <1>1, <1>2, <2>1, <2>2, Geometry
  <2> HIDE DEF last
  <2>4. W - last = S - 1 - NextPhase(first) /\ last <= W /\ last + S > W
    BY <1>1, <2>1, <2>3
  <2>5. /\ Count(first) \in (B - 1)..(B + 1) /\ Count(first) >= 1
        /\ NextPhase(first) \in 0..(S - 1)
    BY <1>1, <2>1
  <2>6. Count(first) # B - 1
    BY <1>1, <2>1
  <2> QED
    BY <1>1, <1>2, <2>1, <2>4, <2>5, <2>6 DEF last
<1>3. CASE first = S + 1
  <2>1. Count(first) = B - 1 /\ NextPhase(first) = 0
    BY <1>1, <1>3 DEF Count, NextPhase
  <2>2. W - (first + (B - 2) * S) = S - 1
    <3>1. CASE S = 3
      BY <1>1, <1>3, <3>1 DEF W
    <3>2. CASE S = 4
      BY <1>1, <1>3, <3>2 DEF W
    <3> QED
      BY <1>1, <3>1, <3>2
  <2> QED
    BY <1>1, <1>3, <2>1, <2>2, Geometry
<1>4. CASE first \in 1..S
  <2>1. Count(first) = B /\ NextPhase(first) = first - 1
    BY <1>1, <1>4 DEF Count, NextPhase
  <2>2. W - (first + (B - 1) * S) = S - first
    <3>1. CASE S = 3
      BY <1>1, <1>4, <3>1 DEF W
    <3>2. CASE S = 4
      BY <1>1, <1>4, <3>2 DEF W
    <3> QED
      BY <1>1, <3>1, <3>2
  <2> QED
    BY <1>1, <1>4, <2>1, <2>2, Geometry
<1> QED
  BY <1>1, <1>2, <1>3, <1>4

\* The invariant holds at reset,
LEMMA InitInv == Init => Inv
<1> SUFFICES ASSUME Init PROVE Inv
  OBVIOUS
<1>1. S \in {3, 4} /\ B \in Nat /\ B >= 2 /\ W \in Nat /\ T \in Nat /\ T >= 1
  BY Geometry, ThresholdAssumption
<1>2. limit \in Nat
  <2>1. CASE S = 3
    BY <2>1, IdleAssumption DEF limit
  <2>2. CASE S = 4
    BY <2>2, IdleAssumption DEF limit
  <2> QED
    BY <1>1, <2>1, <2>2
<1>3. 0 \in 0..(limit + W) /\ 0 \in (1 - T)..(T - 1) /\ 0 \in 0..(S - 1) /\ S - 1 \in 0..(S - 1)
  BY <1>1, <1>2
<1>4. <<>> \in Seq(Level) /\ Len(<<>>) <= B + 1
  BY <1>1
<1>5. 0 \in Level /\ 0 \in Int
  BY DEF Level
<1>6. TypeOK
  BY <1>3, <1>4, <1>5 DEF Init, TypeOK
<1>7. since = S - 1 - phase
  BY <1>1 DEF Init
<1> QED
  BY <1>6, <1>7 DEF Init, Inv

(* One cycle: what it does to each register. *)
LEMMA RecoverStep ==
  ASSUME Inv, NEW word \in [1..W -> Level], NEW inside \in BOOLEAN, Recover(word, inside)
  PROVE  /\ Inv'
         /\ Step(word, inside) \in {-1, 0, 1}
         /\ phase' = NextPhase(sel(word, inside))
         /\ Len(bits') = Count(sel(word, inside))
<1> DEFINE first == sel(word, inside)
           step == Step(word, inside)
<1>1. /\ S \in {3, 4} /\ B \in Nat /\ B >= 2 /\ W \in Nat /\ W >= 2 * S
      /\ T \in Nat /\ T >= 1
  BY Geometry, ThresholdAssumption
<1>2. step \in {-1, 0, 1} /\ phase \in 0..(S - 1)
  BY LoopFilter DEF Inv, TypeOK
<1>3. first = phase + 1 + step
  BY DEF sel
<1> HIDE DEF step
<1>4. /\ first \in 0..(S + 1)
      /\ Count(first) \in (B - 1)..(B + 1) /\ Count(first) >= 1
      /\ NextPhase(first) \in 0..(S - 1)
      /\ W - (first + (Count(first) - 1) * S) = S - 1 - NextPhase(first)
      /\ first + (Count(first) - 1) * S <= W
  BY <1>2, <1>3, PicksOfWord
<1> HIDE DEF first
<1>5. phase' = NextPhase(first) /\ since' = S - 1 - phase'
  BY <1>4 DEF Recover, first
<1>6. since' \in 0..(S - 1)
  BY <1>1, <1>4, <1>5
<1>7. acc' \in (1 - T)..(T - 1) /\ (~inside => acc' = 0)
  <2>1. CASE keep_acc(word, inside)
    BY <2>1, LoopFilter DEF Recover
  <2>2. CASE ~keep_acc(word, inside)
    BY <1>1, <2>2 DEF Recover
  <2> QED
    BY <2>1, <2>2
<1>8. prev_in_packet' = inside
  BY DEF Recover
<1>9. prev_last' \in Level
  BY <1>1 DEF Recover
<1>10. idle' \in 0..(limit + W)
  <2>1. limit \in Nat
    <3>1. CASE S = 3
      BY <3>1, IdleAssumption DEF limit
    <3>2. CASE S = 4
      BY <3>2, IdleAssumption DEF limit
    <3> QED
      BY <1>1, <3>1, <3>2
  <2>2. idle \in 0..(limit + W)
    BY DEF Inv, TypeOK
  <2>3. idle' \in {0, idle} \/ (idle < limit /\ idle' = idle + W)
    BY DEF Recover
  <2> QED
    BY <1>1, <2>1, <2>2, <2>3
<1>11. bits' \in Seq(Level) /\ Len(bits') = Count(first)
  <2>1. Count(first) \in Nat
    BY <1>1, <1>4
  <2>2. \A j \in 1..Count(first) : first + (j - 1) * S \in 0..W
    <3> SUFFICES ASSUME NEW j \in 1..Count(first) PROVE first + (j - 1) * S \in 0..W
      OBVIOUS
    <3>1. CASE S = 3
      BY <1>1, <1>4, <2>1, <3>1
    <3>2. CASE S = 4
      BY <1>1, <1>4, <2>1, <3>2
    <3> QED
      BY <1>1, <3>1, <3>2
  <2>3. \A k \in 0..W : ext(word, k) \in Level
    BY <1>1 DEF ext, Inv, TypeOK
  <2>4. bits' = [j \in 1..Count(first) |-> ext(word, first + (j - 1) * S)]
    BY DEF Recover, Picks, first
  <2>5. bits' \in [1..Count(first) -> Level]
    BY <2>2, <2>3, <2>4
  <2> QED
    BY <2>1, <2>5
<1>12. Len(bits') <= B + 1
  BY <1>1, <1>4, <1>11
<1>13. lead' \in Int
  BY Votes DEF Recover
<1>14. TypeOK'
  BY <1>4, <1>5, <1>6, <1>7, <1>8, <1>9, <1>10, <1>11, <1>12, <1>13 DEF TypeOK
<1> QED
  BY <1>2, <1>5, <1>7, <1>8, <1>11, <1>14 DEF Inv, first, step

\* is kept by every word,
LEMMA NextInv == Inv /\ [Next]_vars => Inv'
<1> SUFFICES ASSUME Inv, [Next]_vars PROVE Inv'
  OBVIOUS
<1>1. CASE Next
  BY <1>1, RecoverStep, SamplesAssumption DEF Next
<1>2. CASE UNCHANGED vars
  BY <1>2 DEF Inv, TypeOK, vars, cdrVars
<1> QED
  BY <1>1, <1>2

\* and so holds always.
THEOREM Invariant == Spec => []Inv
  BY InitInv, NextInv, PTL DEF Spec

(* Registers keep their types, and never more than T - 1 votes are banked. *)
THEOREM TypeCorrect == Spec => []TypeOK
<1>1. Inv => TypeOK
  BY DEF Inv
<1> QED
  BY <1>1, Invariant, PTL

\* The phase of a cycle moves only with votes of its own word behind it.
LEMMA StepVotes ==
  ASSUME Inv, NEW word \in [1..W -> Level], NEW inside \in BOOLEAN, Recover(word, inside)
  PROVE  /\ (phase' - phase) % S = 1 => lead' > 0
         /\ (phase' - phase) % S = S - 1 => lead' < 0
<1> DEFINE step == Step(word, inside)
<1>1. S \in {3, 4} /\ phase \in 0..(S - 1)
  BY Geometry DEF Inv, TypeOK
<1>2. /\ step \in {-1, 0, 1} /\ phase' = NextPhase(phase + 1 + step)
      /\ step = 1 => lead' > 0
      /\ step = -1 => lead' < 0
  BY RecoverStep, LoopFilter DEF Recover, sel
<1> HIDE DEF step
<1>3. /\ (phase' - phase) % S = 1 => step = 1
      /\ (phase' - phase) % S = S - 1 => step = -1
  <2>1. CASE S = 3
    BY <1>1, <1>2, <2>1 DEF NextPhase
  <2>2. CASE S = 4
    BY <1>1, <1>2, <2>2 DEF NextPhase
  <2> QED
    BY <1>1, <2>1, <2>2
<1> QED
  BY <1>2, <1>3

\* The picks of a cycle keep their spacing.
LEMMA PicksStep ==
  ASSUME Inv, NEW word \in [1..W -> Level], NEW inside \in BOOLEAN, Recover(word, inside)
  PROVE  LET first == CASE Len(bits') = B + 1 -> 0
                        [] Len(bits') = B - 1 -> S + 1
                        [] OTHER -> phase' + 1
         IN  /\ since + first \in (S - 1)..(S + 1)
             /\ first + (Len(bits') - 1) * S <= W
             /\ first + Len(bits') * S > W
<1> DEFINE F == CASE Len(bits') = B + 1 -> 0
                  [] Len(bits') = B - 1 -> S + 1
                  [] OTHER -> phase' + 1
           step == Step(word, inside)
           first == phase + 1 + step
           last == first + (Count(first) - 1) * S
<1>1. S \in {3, 4} /\ phase \in 0..(S - 1) /\ since = S - 1 - phase /\ B \in Nat
  BY Geometry DEF Inv, TypeOK
<1>2. /\ step \in {-1, 0, 1} /\ phase' = NextPhase(first) /\ Len(bits') = Count(first)
  BY RecoverStep DEF sel
<1> HIDE DEF step
<1>3. /\ Count(first) \in (B - 1)..(B + 1)
      /\ last <= W /\ last + S > W
      /\ first = CASE Count(first) = B + 1 -> 0
                   [] Count(first) = B - 1 -> S + 1
                   [] OTHER -> NextPhase(first) + 1
  BY <1>1, <1>2, PicksOfWord
<1>4. F = first
  BY <1>2, <1>3
<1>5. since + first \in (S - 1)..(S + 1)
  BY <1>1, <1>2
<1>6. first + Len(bits') * S = last + S
  <2>1. CASE S = 3
    BY <1>1, <1>2, <1>3, <2>1
  <2>2. CASE S = 4
    BY <1>1, <1>2, <1>3, <2>2
  <2> QED
    BY <1>1, <2>1, <2>2
<1> HIDE DEF F
<1> QED
  BY <1>2, <1>3, <1>4, <1>5, <1>6

(* The phase moves only with votes of the same word behind it. *)
THEOREM NoSpuriousStep == Spec => StepHasVotes
<1> DEFINE A == /\ (phase' - phase) % S = 1 => lead' > 0
                /\ (phase' - phase) % S = S - 1 => lead' < 0
<1>1. Inv /\ [Next]_vars => [A]_vars
  BY StepVotes, SamplesAssumption DEF Next
<1> QED
  BY <1>1, Invariant, PTL DEF Spec, StepHasVotes

(* No unit interval is skipped or picked twice for a slip. *)
THEOREM PicksKeepTheirSpacing == Spec => PicksSpaced
<1> DEFINE A == LET first == CASE Len(bits') = B + 1 -> 0
                               [] Len(bits') = B - 1 -> S + 1
                               [] OTHER -> phase' + 1
                IN  /\ since + first \in (S - 1)..(S + 1)
                    /\ first + (Len(bits') - 1) * S <= W
                    /\ first + Len(bits') * S > W
<1>1. Inv /\ [Next]_vars => [A]_vars
  BY PicksStep, SamplesAssumption DEF Next
<1> QED
  BY <1>1, Invariant, PTL DEF Spec, PicksSpaced

-----------------------------------------------------------------------------
(* The receive path: CDR and decoder in their loop, the bridge behind them.    *)

\* What is proved of any decoder of this code, and of a bridge behind any decoder.
DecP == INSTANCE PacketDecoderProofs
  WITH Words <- {}, acc <- dec_acc, PayloadBytes <- {}, MaxLen <- 0, MaxNoise <- 0, Syncs <- {},
       line <- <<>>, noise <- 0, still <- 0, trusted <- FALSE, payload <- <<>>, ref <- 0, got <- 0
BrP == INSTANCE RxUTMIBridgeProofs
  WITH Bytes <- Dec!Byte, event <- Dec!event, data <- Dec!data,
       MaxBytes <- 0, said <- <<>>, heard <- <<>>

\* The decoder of the path is one of those.
LEMMA SameDecoder ==
  ASSUME NEW word, NEW active
  PROVE  Dec!Decode(word, active) <=> DecP!Decode(word, active)
<1>1. \A c, d : Dec!Hunt(c, d) = DecP!Hunt(c, d)
  BY DEF Dec!Hunt, DecP!Hunt, Dec!SYNC_ZEROS, DecP!SYNC_ZEROS
<1>2. \A c : Dec!Violate(c) = DecP!Violate(c)
  BY DEF Dec!Violate, DecP!Violate, Dec!EOP_BITS, DecP!EOP_BITS
<1>3. \A c, d : Dec!Take(c, d) = DecP!Take(c, d)
  BY DEF Dec!Take, DecP!Take
<1>4. \A c, d : Dec!BitStep(c, d) = DecP!BitStep(c, d)
  BY <1>1, <1>2, <1>3, Zenon DEF Dec!BitStep, DecP!BitStep, Dec!STUFF_RUN, DecP!STUFF_RUN
<1>5. Dec!Chain(word) = DecP!Chain(word)
  BY <1>4, Zenon DEF Dec!Chain, DecP!Chain, Dec!Registers, DecP!Registers
<1> QED
  BY <1>5, Zenon DEF Dec!Decode, DecP!Decode, Dec!Lost, DecP!Lost

\* The assumptions of the decoder, and of the bridge, hold of the path's.
LEMMA DecoderAssumptions ==
  /\ {} \subseteq DecP!Word /\ {} \subseteq DecP!Byte /\ 0 \in Nat
  /\ \A n \in {} : n \in Nat /\ n > DecP!MIN_SYNC_ZEROS
  /\ NoData \notin DecP!Byte /\ NoData \notin Seq(DecP!Byte)
<1>1. Dec!Byte = DecP!Byte
  BY DEF Dec!Byte, DecP!Byte, Dec!Bit, DecP!Bit
<1> QED
  BY <1>1, NoDataAssumption

\* The words the CDR hands over are words the decoder takes.
LEMMA WordsFit == ASSUME TypeOK PROVE bits \in DecP!Word
<1>1. bits \in Seq(Level) /\ Len(bits) <= B + 1
  BY DEF TypeOK
<1>2. B + 1 = 5 /\ Len(bits) \in Nat
  BY <1>1, WidthAssumption DEF Dec!MAX_BITS
<1>3. Len(bits) <= 5
  BY <1>1, <1>2, Zenon
<1>4. bits \in [1..Len(bits) -> Level]
  BY <1>1
<1> QED
  BY <1>2, <1>3, <1>4 DEF DecP!Word, DecP!MAX_BITS, DecP!Bit, Level

\* The loop's invariant is what holds of either alone.
PathInv == Inv /\ DecP!Inv

\* It holds at reset,
LEMMA PathInit == RxInit => PathInv
<1>1. Init => Inv
  BY InitInv
<1>2. Dec!Init => DecP!Init
  BY DEF Dec!Init, DecP!Init
<1>3. DecP!Init => DecP!Inv
  BY DecP!InitInv, DecoderAssumptions
<1> QED
  BY <1>1, <1>2, <1>3 DEF RxInit, PathInv

\* and a cycle keeps it, each part the other's inputs: the decoder promises what the bridge needs.
LEMMA PathCycle ==
  ASSUME PathInv, NEW word \in [1..W -> Level], Cycle(word)
  PROVE  PathInv' /\ DecP!Promise!DecNext
<1>1. in_packet \in BOOLEAN
  BY DEF PathInv, DecP!Inv, DecP!TypeOK
<1>2. Inv'
  BY <1>1, RecoverStep DEF PathInv, Cycle
<1>3. bits \in DecP!Word /\ activity \in BOOLEAN
  BY WordsFit DEF PathInv, Inv, activity
<1>4. DecP!Decode(bits, activity)
  BY SameDecoder DEF Cycle
<1>5. DecP!Inv' /\ DecP!Promise!DecNext
  BY <1>3, <1>4, DecP!WordStep, DecoderAssumptions DEF PathInv
<1> QED
  BY <1>2, <1>5 DEF PathInv

\* The other steps leave both alone.
LEMMA PathRests ==
  ASSUME PathInv, UNCHANGED <<vars, decVars>>
  PROVE  PathInv'
<1>1. Inv'
  BY DEF PathInv, Inv, TypeOK, vars, cdrVars
<1>2. DecP!Inv'
  BY DEF PathInv, DecP!Inv, DecP!TypeOK, DecP!NothingOverwritten, decVars
<1> QED
  BY <1>1, <1>2 DEF PathInv

\* and so it holds always.
LEMMA PathInvariant == RxSpec => []PathInv
<1>1. PathInv /\ [RxNext]_rxVars => PathInv'
  BY PathCycle, PathRests DEF RxNext, UsbEdge, Crossing, rxVars
<1> QED
  BY <1>1, PathInit, PTL DEF RxSpec

(* The receive path from samples to the FIFO's far end, its decoder in a loop with the
   CDR, is a bridge behind a decoder that keeps its promises, on any line whatever. *)
THEOREM PathImplementsBridge == RxSpec => Bridge!Spec
<1>1. RxInit => Bridge!Init
  BY DEF RxInit
<1>2. ASSUME PathInv, [RxNext]_rxVars PROVE [Bridge!Next]_(Bridge!vars)
  <2>1. ASSUME NEW word \in [1..W -> Level], Cycle(word) PROVE Bridge!Next
    <3>1. Bridge!DecNext
      BY <1>2, <2>1, PathCycle DEF DecP!Promise!DecNext, DecP!Promise!Quiet, DecP!Promise!Start,
         DecP!Promise!End, DecP!Promise!Error, Bridge!DecNext, Bridge!Quiet, Bridge!Start,
         Bridge!End, Bridge!Error, Dec!event, DecP!event, Dec!data, DecP!data,
         Dec!Byte, DecP!Byte, Dec!Bit, DecP!Bit
    <3> QED
      BY <2>1, <3>1 DEF Cycle, Push, Bridge!CdrEdge, Bridge!Next, utmiVars, Bridge!utmiVars
  <2>2. UNCHANGED decVars => UNCHANGED Bridge!decVars
    BY DEF decVars, Bridge!decVars, Dec!event, Dec!data
  <2>3. CASE UsbEdge
    BY <2>2, <2>3 DEF UsbEdge, Bridge!UsbEdge, Bridge!Next
  <2>4. CASE Crossing
    BY <2>2, <2>4 DEF Crossing, Bridge!CrossEntry, Bridge!CrossSlot, Bridge!Next, utmiVars,
       Bridge!utmiVars
  <2>5. CASE UNCHANGED rxVars
    BY <2>2, <2>5 DEF rxVars, fifoVars, utmiVars, Bridge!vars, Bridge!fifoVars, Bridge!utmiVars
  <2> QED
    BY <1>2, <2>1, <2>3, <2>4, <2>5 DEF RxNext
<1> QED
  BY <1>1, <1>2, PathInvariant, PTL DEF RxSpec, Bridge!Spec

\* What is proved of the bridge behind any decoder is true of the path's.
LEMMA BridgeIsProved == Bridge!Spec => BrP!Spec
<1>1. Bridge!Init => BrP!Init
  BY DEF Bridge!Init, BrP!Init, Bridge!DecInit, BrP!DecInit, Bridge!FifoInit, BrP!FifoInit
<1>2. [Bridge!Next]_(Bridge!vars) => [BrP!Next]_(BrP!vars)
  <2>1. Bridge!CdrEdge <=> BrP!CdrEdge
    BY DEF Bridge!CdrEdge, BrP!CdrEdge, Bridge!WriteEntry, BrP!WriteEntry, Bridge!LoseEntry,
       BrP!LoseEntry, Bridge!NoEntry, BrP!NoEntry, Bridge!w_en, BrP!w_en, Bridge!w_data,
       BrP!w_data, Bridge!Write, BrP!Write, Bridge!WRdy, BrP!WRdy, Bridge!DecNext, BrP!DecNext,
       Bridge!Quiet, BrP!Quiet, Bridge!Start, BrP!Start, Bridge!End, BrP!End, Bridge!Error,
       BrP!Error, Bridge!fifoVars, BrP!fifoVars, Bridge!utmiVars, BrP!utmiVars
  <2>2. Bridge!UsbEdge <=> BrP!UsbEdge
    BY DEF Bridge!UsbEdge, BrP!UsbEdge, Bridge!TakeEntry, BrP!TakeEntry, Bridge!NothingVisible,
       BrP!NothingVisible, Bridge!Read, BrP!Read, Bridge!RRdy, BrP!RRdy, Bridge!ValidOf,
       BrP!ValidOf, Bridge!ActiveOf, BrP!ActiveOf, Bridge!fifoVars, BrP!fifoVars,
       Bridge!decVars, BrP!decVars
  <2>3. /\ Bridge!CrossEntry <=> BrP!CrossEntry
        /\ Bridge!CrossSlot <=> BrP!CrossSlot
    BY DEF Bridge!CrossEntry, BrP!CrossEntry, Bridge!CrossSlot, BrP!CrossSlot,
       Bridge!ShowEntry, BrP!ShowEntry, Bridge!ShowSlot, BrP!ShowSlot,
       Bridge!decVars, BrP!decVars, Bridge!utmiVars, BrP!utmiVars
  <2>4. Bridge!vars = BrP!vars /\ (UNCHANGED Bridge!vars <=> UNCHANGED BrP!vars)
    BY DEF Bridge!vars, BrP!vars, Bridge!decVars, BrP!decVars, Bridge!fifoVars, BrP!fifoVars,
       Bridge!utmiVars, BrP!utmiVars
  <2> QED
    BY <2>1, <2>2, <2>3, <2>4 DEF Bridge!Next, BrP!Next
<1> QED
  BY <1>1, <1>2, PTL DEF Bridge!Spec, BrP!Spec

(* From any samples, what the path shows at the UTMI follows the protocol unless an
   entry was lost, and both clock domains agree on the packets. *)
THEOREM PathFollowsUtmi == RxSpec => Bridge!FollowsUtmi /\ []Bridge!DomainsAgree
<1>1. BrP!Spec => BrP!FollowsUtmi
  BY BrP!ReceiveSignalsFollowUtmi, DepthAssumption
<1>2. BrP!Spec => []BrP!DomainsAgree
  BY BrP!ReaderAgreesWithDecoder, DepthAssumption
<1>3. [~overflow => BrP!Utmi!UtmiNext]_(BrP!utmiVars)
        => [~overflow => Bridge!Utmi!UtmiNext]_(Bridge!utmiVars)
  BY DEF BrP!utmiVars, Bridge!utmiVars, BrP!Utmi!UtmiNext, Bridge!Utmi!UtmiNext,
     BrP!Utmi!Quiescent, Bridge!Utmi!Quiescent, BrP!Utmi!Open, Bridge!Utmi!Open,
     BrP!Utmi!Receive, Bridge!Utmi!Receive, BrP!Utmi!Close, Bridge!Utmi!Close
<1>4. BrP!DomainsAgree => Bridge!DomainsAgree
  BY DEF BrP!DomainsAgree, Bridge!DomainsAgree, BrP!Pending, Bridge!Pending, BrP!Contents,
     Bridge!Contents, BrP!w_en, Bridge!w_en, BrP!w_data, Bridge!w_data,
     BrP!OpensBefore, Bridge!OpensBefore, BrP!OpensAfter, Bridge!OpensAfter
<1> QED
  BY <1>1, <1>2, <1>3, <1>4, PathImplementsBridge, BridgeIsProved, PTL
     DEF BrP!FollowsUtmi, Bridge!FollowsUtmi

(* On the receive path, too, the phase moves only with the votes of the same word, and
   picks keep their spacing, whatever samples and in whatever state of the decoder. *)
THEOREM PathKeepsPicks == RxSpec => StepHasVotes /\ PicksSpaced
<1> DEFINE V == /\ (phase' - phase) % S = 1 => lead' > 0
                /\ (phase' - phase) % S = S - 1 => lead' < 0
           P == LET first == CASE Len(bits') = B + 1 -> 0
                               [] Len(bits') = B - 1 -> S + 1
                               [] OTHER -> phase' + 1
                IN  /\ since + first \in (S - 1)..(S + 1)
                    /\ first + (Len(bits') - 1) * S <= W
                    /\ first + Len(bits') * S > W
<1>1. ASSUME PathInv, NEW word \in [1..W -> Level], Cycle(word) PROVE V /\ P
  <2>1. in_packet \in BOOLEAN /\ Inv
    BY <1>1 DEF PathInv, DecP!Inv, DecP!TypeOK
  <2> QED
    BY <1>1, <2>1, StepVotes, PicksStep DEF Cycle
<1>2. PathInv /\ [RxNext]_rxVars => [V]_vars /\ [P]_vars
  <2> HIDE DEF V, P
  <2> QED
    BY <1>1 DEF RxNext, UsbEdge, Crossing, rxVars
<1> QED
  BY <1>2, PathInvariant, PTL DEF RxSpec, StepHasVotes, PicksSpaced

\* A packet has a bit in front of its eight of EOP.
LEMMA PacketBits ==
  ASSUME NEW p \in Payloads, NEW n \in Syncs, NEW l \in Level
  PROVE  PacketLineBits(p, n, l) \in Seq(Level) /\ Len(PacketLineBits(p, n, l)) >= 2
<1>1. p \in Seq(Byte) /\ n \in Nat /\ n > MIN_SYNC_ZEROS
  BY PacketAssumption
<1>2. l \in Bit /\ Level = Bit
  BY DEF Level, Bit
<1>3. PacketLineBits(p, n, l) \in Seq(Bit)
  BY <1>1, <1>2, PacketStarts
<1> DEFINE line0 == NrziEncode(BitStuff(SyncDataBits(n) \o PayloadDataBits(p)), l)
           eop == EopLineBits(line0[Len(line0)])
<1>4. PacketLineBits(p, n, l) = line0 \o eop
  BY DEF PacketLineBits
<1>5. line0 = [i \in 1..Len(line0) |-> line0[i]] /\ Len(line0) \in Nat
  BY DEF NrziEncode
<1>6. eop = [i \in 1..8 |-> eop[1]]
  BY DEF EopLineBits
<1> HIDE DEF line0, eop
<1>7. Len(line0 \o eop) >= 2
  <2> DEFINE Values == {line0[i] : i \in 1..Len(line0)} \cup {eop[1]}
  <2>1. line0 \in Seq(Values) /\ eop \in Seq(Values) /\ Len(eop) = 8
    BY <1>5, <1>6
  <2> HIDE DEF Values
  <2>2. Len(line0 \o eop) = Len(line0) + Len(eop)
    BY <2>1, ConcatProperties
  <2> QED
    BY <1>5, <2>1, <2>2
<1> QED
  BY <1>2, <1>3, <1>4, <1>7

\* Every sample of a packet, an edge of it displaced or not, is of one of its bits.
LEMMA SampledBits ==
  ASSUME NEW n \in Nat, n >= 2, NEW w \in Warps(n), NEW j \in 1..(S * n + w.later)
  PROVE  BitAt(j, w) \in 1..n
<1>1. /\ w.at \in 1..(n - 1) /\ w.edge \in {-1, 0, 1} /\ w.later \in {-1, 0, 1}
  <2>1. CASE w = NoWarp
    BY <2>1 DEF NoWarp
  <2>2. CASE w # NoWarp
    <3>1. /\ w.at \in {n - x : x \in WarpedBits} /\ w.at > 0
          /\ w.edge \in {-1, 1} /\ w.later \in {-1, 0, 1}
      BY <2>2 DEF Warps
    <3>2. PICK x \in WarpedBits : w.at = n - x
      BY <3>1
    <3>3. x \in Nat /\ x > 0
      BY SamplingAssumption
    <3> QED
      BY <3>1, <3>2, <3>3
  <2> QED
    BY <2>1, <2>2
<1>2. PICK at \in 1..(n - 1) : at = w.at
  BY <1>1
<1>3. PICK later \in {-1, 0, 1} : later = w.later
  BY <1>1
<1>4. PICK edge \in {-1, 0, 1} : edge = w.edge
  BY <1>1
<1>5. BitAt(j, w) =
        IF j <= S * at + edge
          THEN IF (j + S - 1) \div S < at THEN (j + S - 1) \div S ELSE at
          ELSE IF (j - later + S - 1) \div S > at THEN (j - later + S - 1) \div S ELSE at + 1
  BY <1>2, <1>3, <1>4 DEF BitAt
<1>6. j \in Nat /\ j >= 1 /\ j - later <= S * n
  <2>1. j \in 1..(S * n + later)
    BY <1>3
  <2>2. S * n \in Nat
    BY Geometry
  <2> QED
    BY <1>3, <2>1, <2>2
<1>7. /\ (j + S - 1) \div S \in Int /\ (j + S - 1) \div S >= 1
      /\ (j - later + S - 1) \div S \in Int /\ (j - later + S - 1) \div S <= n
  <2>1. CASE S = 3
    BY <1>3, <1>6, <2>1
  <2>2. CASE S = 4
    BY <1>3, <1>6, <2>2
  <2> QED
    BY <2>1, <2>2, Geometry
<1> QED
  BY <1>2, <1>5, <1>7

\* The line shows levels.
OnLine == line \in Seq(Level) /\ rest \in Level

\* A packet's samples are such a line, and the rest behind them,
LEMMA OnLineSends == ASSUME OnLine, SendPacket PROVE OnLine'
<1>1. PICK p \in Payloads, n \in Syncs, offset \in Offsets :
        LET lineBits == PacketLineBits(p, n, rest)
        IN  \E w \in Warps(Len(lineBits)), level \in {1, lineBits[Len(lineBits)]} :
              Send(p, n, offset, w, level)
  BY DEF SendPacket
<1>2. PICK lineBits \in Seq(Level) : lineBits = PacketLineBits(p, n, rest) /\ Len(lineBits) >= 2
  BY PacketBits DEF OnLine
<1>3. PICK w \in Warps(Len(lineBits)), level \in {1, lineBits[Len(lineBits)]} :
        Send(p, n, offset, w, level)
  BY <1>1, <1>2, Zenon
<1>4. rest' \in Level
  BY <1>2, <1>3 DEF Send, Level
<1> DEFINE m == S * Len(lineBits) + w.later
           before == [j \in 1..offset |-> rest]
           samples == SamplesOf(lineBits, w)
<1>5. m \in Nat
  <2>1. w.later \in {-1, 0, 1}
    BY DEF Warps, NoWarp
  <2> QED
    BY <1>2, <2>1, Geometry
<1>6. samples \in Seq(Level)
  <2>1. \A j \in 1..m : lineBits[BitAt(j, w)] \in Level
    BY <1>2, SampledBits
  <2>2. samples = [j \in 1..m |-> lineBits[BitAt(j, w)]]
    BY DEF SamplesOf
  <2> HIDE DEF m, samples
  <2> QED
    BY <1>5, <2>1, <2>2
<1>7. before \in Seq(Level)
  BY SamplingAssumption DEF OnLine
<1>8. line' = before \o samples
  BY <1>2, <1>3 DEF Send
<1> HIDE DEF before, samples
<1> QED
  BY <1>4, <1>6, <1>7, <1>8, ConcatProperties DEF OnLine

\* and a word of them is one the path may see.
LEMMA OnLineWord == ASSUME OnLine, Word PROVE OnLine' /\ \E word \in [1..W -> Level] : Cycle(word)
<1>1. NextWord \in [1..W -> Level]
  <2>1. \A k \in 1..W : k <= Len(line) => line[k] \in Level
    BY Geometry DEF OnLine
  <2> QED
    BY <2>1 DEF NextWord, OnLine, W
<1>2. Cycle(NextWord)
  BY DEF Word
<1>3. line' = SubSeq(line, S * B + 1, Len(line)) /\ rest' = rest
  BY DEF Word
<1>4. line' \in Seq(Level)
  BY <1>3, Geometry DEF OnLine
<1> QED
  BY <1>1, <1>2, <1>3, <1>4 DEF OnLine

(* The run's line of packets is one of the lines that are proved about. *)
THEOREM PacketsAreSamples == MCSpec => RxSpec
<1>1. MCInit => RxInit /\ OnLine
  BY DEF MCInit, OnLine, Level
<1>2. OnLine /\ [MCNext]_mcvars => OnLine'
  <2>1. UNCHANGED <<line, rest>> /\ OnLine => OnLine'
    BY DEF OnLine
  <2> QED
    BY <2>1, OnLineSends, OnLineWord DEF MCNext, Utmi, Cross, mcvars
<1>3. OnLine /\ [MCNext]_mcvars => [RxNext]_rxVars
  <2>1. SendPacket => UNCHANGED rxVars
    BY DEF SendPacket, Send
  <2> QED
    BY <2>1, OnLineWord DEF MCNext, Utmi, Cross, mcvars, RxNext
<1> QED
  BY <1>1, <1>2, <1>3, PTL DEF MCSpec, RxSpec

(* What is proved on any samples is so on packets at any offset, warped anywhere: no bit is
   picked twice or skipped for a slip, and the UTMI side follows its protocol. *)
THEOREM PacketsPickedOnce == MCSpec => StepHasVotes /\ PicksSpaced /\ Bridge!FollowsUtmi
  BY PacketsAreSamples, PathKeepsPicks, PathFollowsUtmi

-----------------------------------------------------------------------------
(* A line of bits: what the CDR makes of edges out of their place.             *)

\* The line, and the CDR behind it from the second word on.
LineInv ==
  /\ PathInv
  /\ tx \in [Nat -> Level] /\ moved \in [Nat -> Displacements] /\ shift \in 0..(S - 1)
  /\ now \in Nat
  /\ now > 0 => prev_last = tx[BitOn(W * now - 1)]

\* The grid of bits lies the same in every word.
LEMMA Grid ==
  ASSUME shift \in 0..(S - 1), now \in Nat, NEW x \in Int, x >= -1
  PROVE  /\ B * now \in Nat
         /\ Place(W * now + x) = S * (B * now + 1) + (x + shift)
         /\ Place(W * now + x) \div S = B * now + 1 + (x + shift) \div S
         /\ Place(W * now + x) % S = (x + shift) % S
         /\ (x + shift) \div S \in Int /\ (x + shift) \div S >= -1
<1>1. B \in Nat /\ B * now \in Nat /\ W = S * B
  BY Geometry
<1>2. PICK n \in Nat : n = B * now
  BY <1>1
<1>3. CASE S = 3
  <2>1. W * now = 3 * n
    BY <1>1, <1>2, <1>3
  <2>2. Place(W * now + x) = 3 * (n + 1) + (x + shift)
    BY <1>2, <1>3, <2>1 DEF Place
  <2>3. /\ (3 * (n + 1) + (x + shift)) \div 3 = n + 1 + (x + shift) \div 3
        /\ (3 * (n + 1) + (x + shift)) % 3 = (x + shift) % 3
        /\ (x + shift) \div 3 \in Int /\ (x + shift) \div 3 >= -1
    BY <1>3
  <2> QED
    BY <1>1, <1>2, <1>3, <2>2, <2>3
<1>4. CASE S = 4
  <2>1. W * now = 4 * n
    BY <1>1, <1>2, <1>4
  <2>2. Place(W * now + x) = 4 * (n + 1) + (x + shift)
    BY <1>2, <1>4, <2>1 DEF Place
  <2>3. /\ (4 * (n + 1) + (x + shift)) \div 4 = n + 1 + (x + shift) \div 4
        /\ (4 * (n + 1) + (x + shift)) % 4 = (x + shift) % 4
        /\ (x + shift) \div 4 \in Int /\ (x + shift) \div 4 >= -1
    BY <1>4
  <2> QED
    BY <1>1, <1>2, <1>4, <2>2, <2>3
<1> QED
  BY <1>3, <1>4, Geometry

\* What a sample shows: its own bit, unless it is an outer one of it.
LEMMA Shows ==
  ASSUME LineInv, NEW x \in Int, x >= -1
  PROVE  LET k == B * now + 1 + (x + shift) \div S
             r == (x + shift) % S
         IN  /\ k \in Nat /\ BitOn(W * now + x) \in Nat
             /\ (S = 4 /\ r \in {1, 2}) \/ Steady \/ S = 3 => BitOn(W * now + x) = k
<1> DEFINE t == W * now + x
           k == B * now + 1 + (x + shift) \div S
           r == (x + shift) % S
<1>1. /\ shift \in 0..(S - 1) /\ now \in Nat /\ moved \in [Nat -> Displacements]
  BY DEF LineInv
<1>2. /\ B * now \in Nat /\ Place(t) = S * (B * now + 1) + (x + shift)
      /\ Place(t) \div S = k /\ Place(t) % S = r
      /\ (x + shift) \div S \in Int /\ (x + shift) \div S >= -1
  BY <1>1, Grid
<1>3. PICK n \in Nat : n = B * now
  BY <1>2
<1>4. k \in Nat /\ (r = 0 => k >= 1)
  <2>1. CASE S = 3
    BY <1>1, <1>2, <1>3, <2>1
  <2>2. CASE S = 4
    BY <1>1, <1>2, <1>3, <2>2
  <2> QED
    BY <2>1, <2>2, Geometry
<1>5. moved[k] \in {-1, 0, 1} /\ moved[k + 1] \in {-1, 0, 1} /\ (S = 3 => moved[k] = 0 /\ moved[k + 1] = 0)
  <2>1. moved[k] \in Displacements /\ moved[k + 1] \in Displacements
    BY <1>1, <1>4
  <2> QED
    BY <2>1 DEF Displacements
<1>6. PICK p \in Int, a \in {-1, 0, 1}, b \in {-1, 0, 1} :
        p = Place(t) /\ a = moved[k] /\ b = moved[k + 1]
  <2>1. Place(t) \in Int
    <3>1. CASE S = 3
      BY <1>1, <1>2, <1>3, <3>1
    <3>2. CASE S = 4
      BY <1>1, <1>2, <1>3, <3>2
    <3> QED
      BY <3>1, <3>2, Geometry
  <2> QED
    BY <1>5, <2>1
<1>7. PICK j \in Nat : j = k
  BY <1>4
<1>8. BitOn(t) = IF p < S * j + a THEN j - 1 ELSE IF p >= S * (j + 1) + b THEN j + 1 ELSE j
  BY <1>2, <1>6, <1>7 DEF BitOn
<1>9. p \div S = j /\ p % S = r
  BY <1>2, <1>6, <1>7
<1> HIDE DEF t, k, r
<1>10. /\ BitOn(t) \in Nat
       /\ (S = 4 /\ r \in {1, 2}) \/ (a = 0 /\ b = 0) => BitOn(t) = j
  <2>1. CASE S = 3
    BY <1>4, <1>6, <1>7, <1>8, <1>9, <2>1
  <2>2. CASE S = 4
    BY <1>4, <1>6, <1>7, <1>8, <1>9, <2>2
  <2> QED
    BY <2>1, <2>2, Geometry
<1>11. Steady \/ S = 3 => a = 0 /\ b = 0
  BY <1>4, <1>5, <1>6 DEF Steady
<1>12. k \in Nat /\ BitOn(t) \in Nat /\ ((S = 4 /\ r \in {1, 2}) \/ Steady \/ S = 3 => BitOn(t) = k)
  BY <1>4, <1>7, <1>10, <1>11
<1> QED
  BY <1>12 DEF t, k, r

\* The samples of a word with the last one before it.
LEMMA LineSamples ==
  ASSUME LineInv, now > 0
  PROVE  /\ LineWord \in [1..W -> Level]
         /\ \A i \in 0..W : ext(LineWord, i) = tx[BitOn(W * now + (i - 1))]
<1>1. W \in Nat /\ now \in Nat /\ tx \in [Nat -> Level]
  BY Geometry DEF LineInv
<1>2. W * now \in Nat
  BY <1>1
<1>3. ASSUME NEW i \in 1..W PROVE tx[BitOn(W * now + (i - 1))] \in Level
  <2>1. i - 1 \in Int /\ i - 1 >= -1
    BY <1>1
  <2>2. BitOn(W * now + (i - 1)) \in Nat
    BY <2>1, Shows
  <2> QED
    BY <1>1, <2>2
<1>4. ASSUME NEW i \in 1..W PROVE W * now + i - 1 = W * now + (i - 1)
  BY <1>1, <1>2
<1>5. LineWord = [k \in 1..W |-> tx[BitOn(W * now + (k - 1))]]
  BY <1>4 DEF LineWord
<1>6. ASSUME NEW i \in 0..W PROVE ext(LineWord, i) = tx[BitOn(W * now + (i - 1))]
  <2>1. CASE i = 0
    <3>1. W * now - 1 = W * now + (i - 1)
      BY <1>2, <2>1
    <3> QED
      BY <2>1, <3>1 DEF ext, LineInv
  <2>2. CASE i # 0
    BY <1>1, <1>5, <2>2 DEF ext
  <2> QED
    BY <2>1, <2>2
<1> QED
  BY <1>3, <1>5, <1>6

\* Where the edges of a word can be.
LEMMA EdgePlaces ==
  ASSUME LineInv, now > 0, NEW i \in Edges(LineWord)
  PROVE  /\ i \in Nat
         /\ S = 4 => (i + shift) % S # 2
         /\ Steady \/ S = 3 => (i + shift) % S = 0
<1>1. W \in Nat /\ shift \in 0..(S - 1) /\ i \in 0..(W - 1) /\ now \in Nat
  BY Geometry DEF Edges, LineInv
<1>2. BitOn(W * now + (i - 1)) # BitOn(W * now + i)
  <2>1. ext(LineWord, i) # ext(LineWord, i + 1)
    BY DEF Edges
  <2>2. i \in 0..W /\ i + 1 \in 0..W /\ i + 1 - 1 = i
    BY <1>1
  <2> QED
    BY <2>1, <2>2, LineSamples
<1> DEFINE k(x) == B * now + 1 + (x + shift) \div S
           r(x) == (x + shift) % S
           inner(x) == (S = 4 /\ r(x) \in {1, 2}) \/ Steady \/ S = 3
<1>3. /\ inner(i) => BitOn(W * now + i) = k(i)
      /\ inner(i - 1) => BitOn(W * now + (i - 1)) = k(i - 1)
  <2>1. i \in Int /\ i >= -1 /\ i - 1 \in Int /\ i - 1 >= -1
    BY <1>1
  <2> QED
    BY <2>1, Shows
<1>4. B * now \in Nat
  BY <1>1, Geometry
<1>5. r(i) # 0 => r(i - 1) = r(i) - 1 /\ k(i - 1) = k(i)
  <2>1. CASE S = 3
    BY <1>1, <1>4, <2>1
  <2>2. CASE S = 4
    BY <1>1, <1>4, <2>2
  <2> QED
    BY <2>1, <2>2, Geometry
<1> HIDE DEF k
<1>6. r(i) # 0 => ~(inner(i) /\ inner(i - 1))
  BY <1>2, <1>3, <1>5
<1> QED
  BY <1>1, <1>5, <1>6

\* No edge that votes one way, no step that way.
LEMMA NoVotesNoStep ==
  ASSUME Inv, NEW word \in [1..W -> Level], NEW inside \in BOOLEAN
  PROVE  /\ (\A i \in Edges(word) : PhaseError(i) \notin UpErrors) => Step(word, inside) # 1
         /\ (\A i \in Edges(word) : PhaseError(i) # S - 1) => Step(word, inside) # -1
<1>1. up(word) \in Nat /\ down(word) \in Nat
  BY Votes
<1>2. /\ Step(word, inside) = 1 => up(word) - down(word) > 0
      /\ Step(word, inside) = -1 => up(word) - down(word) < 0
  BY LoopFilter
<1>3. ASSUME \A i \in Edges(word) : PhaseError(i) \notin UpErrors PROVE Step(word, inside) # 1
  <2>1. {i \in Edges(word) : PhaseError(i) \in UpErrors} = {}
    BY <1>3
  <2>2. up(word) = 0
    BY <2>1, FS_EmptySet DEF up
  <2> QED
    BY <1>1, <1>2, <2>2
<1>4. ASSUME \A i \in Edges(word) : PhaseError(i) # S - 1 PROVE Step(word, inside) # -1
  <2>1. {i \in Edges(word) : PhaseError(i) = S - 1} = {}
    BY <1>4
  <2>2. down(word) = 0
    BY <2>1, FS_EmptySet DEF down
  <2> QED
    BY <1>1, <1>2, <2>2
<1> QED
  BY <1>3, <1>4

\* An edge votes by where it is in a bit and where the CDR picks.
LEMMA VoteOf ==
  ASSUME LineInv, NEW i \in Nat
  PROVE  PhaseError(i) = (((i + shift) % S) + (S \div 2) - PickedAt) % S /\ PickedAt \in 0..(S - 1)
<1>1. phase \in 0..(S - 1) /\ shift \in 0..(S - 1)
  BY DEF LineInv, PathInv, Inv, TypeOK
<1>2. CASE S = 3
  BY <1>1, <1>2 DEF PhaseError, PickedAt
<1>3. CASE S = 4
  BY <1>1, <1>3 DEF PhaseError, PickedAt
<1> QED
  BY <1>2, <1>3, Geometry

(* Which way the pick can move: in lock between the inner samples only; on a
   steady line towards them. *)
LEMMA StepsInward ==
  ASSUME LineInv, now > 0, NEW inside \in BOOLEAN, Locked \/ Steady
  PROVE  LET s == Step(LineWord, inside)
         IN  /\ s \in {-1, 0, 1} /\ PickedAt + s \in 0..(S - 1)
             /\ Locked => PickedAt + s \in IF S = 4 THEN {1, 2} ELSE {1}
<1> DEFINE s == Step(LineWord, inside)
<1>1. LineWord \in [1..W -> Level] /\ Inv /\ PickedAt \in 0..(S - 1)
  BY LineSamples, VoteOf DEF LineInv, PathInv
<1>2. s \in {-1, 0, 1}
  BY <1>1, LoopFilter
<1>3. /\ (\A i \in Edges(LineWord) : PhaseError(i) \notin UpErrors) => s # 1
      /\ (\A i \in Edges(LineWord) : PhaseError(i) # S - 1) => s # -1
  BY <1>1, NoVotesNoStep
<1> HIDE DEF s
<1>4. CASE S = 4
  <2>1. ASSUME NEW i \in Edges(LineWord)
        PROVE  /\ PhaseError(i) \in UpErrors <=> PhaseError(i) = 2
               /\ PhaseError(i) = (((i + shift) % 4) + 2 - PickedAt) % 4
               /\ (i + shift) % 4 \in {0, 1, 3} /\ (Steady => (i + shift) % 4 = 0)
    <3>1. i \in Nat /\ (i + shift) % 4 # 2 /\ (Steady => (i + shift) % 4 = 0)
      BY <1>4, EdgePlaces
    <3>2. shift \in 0..3
      BY <1>4 DEF LineInv
    <3> QED
      BY <1>4, <3>1, <3>2, VoteOf DEF UpErrors
  <2>2. PickedAt = 1 => s # -1
    BY <1>3, <1>4, <2>1
  <2>3. PickedAt = 2 => s # 1
    BY <1>3, <1>4, <2>1
  <2>4. Steady /\ PickedAt = 0 => s # -1
    BY <1>3, <1>4, <2>1
  <2>5. Steady /\ PickedAt = 3 => s # 1
    BY <1>3, <1>4, <2>1
  <2> QED
    BY <1>1, <1>2, <1>4, <2>2, <2>3, <2>4, <2>5 DEF Locked, s
<1>5. CASE S = 3
  <2>1. ASSUME NEW i \in Edges(LineWord)
        PROVE  /\ PhaseError(i) \in UpErrors <=> PhaseError(i) = 1
               /\ PhaseError(i) = (1 - PickedAt) % 3
    <3>1. i \in Nat /\ (i + shift) % 3 = 0
      BY <1>5, EdgePlaces
    <3> QED
      BY <1>5, <3>1, VoteOf DEF UpErrors
  <2>2. PickedAt \in {0, 1} => s # -1
    BY <1>3, <1>5, <2>1
  <2>3. PickedAt \in {1, 2} => s # 1
    BY <1>3, <1>5, <2>1
  <2> QED
    BY <1>1, <1>2, <1>5, <2>2, <2>3 DEF Locked, s
<1> QED
  BY <1>4, <1>5, Geometry

\* Outside a packet, with nothing banked, a majority of one is enough.
LEMMA OneVoteSteps ==
  ASSUME Inv, NEW word \in [1..W -> Level], ~prev_in_packet, NEW inside \in BOOLEAN, ~inside
  PROVE  /\ up(word) > down(word) => Step(word, inside) = 1
         /\ up(word) < down(word) => Step(word, inside) = -1
<1>1. up(word) \in Nat /\ down(word) \in Nat /\ acc = 0
  BY Votes DEF Inv
<1>2. acc_next(word) = up(word) - down(word) /\ ~packet_ended(inside) /\ thr(inside) = 1
  BY <1>1 DEF acc_next, packet_ended, thr
<1>3. PICK u \in Nat, d \in Nat : u = up(word) /\ d = down(word)
  BY <1>1
<1>4. Step(word, inside) = IF u - d >= 1 THEN 1 ELSE IF u - d <= -1 THEN -1 ELSE 0
  <2>1. u - d >= 1 => ~(u - d <= -1)
    OBVIOUS
  <2>2. acc_next(word) = u - d /\ ~packet_ended(inside) /\ thr(inside) = 1
    BY <1>2, <1>3
  <2> QED
    BY <2>1, <2>2 DEF Step
<1> QED
  BY <1>3, <1>4

\* An edge that votes is counted.
LEMMA VotesCount ==
  ASSUME NEW word \in [1..W -> Level], NEW i \in Edges(word)
  PROVE  /\ PhaseError(i) \in UpErrors => up(word) > 0
         /\ PhaseError(i) = S - 1 => down(word) > 0
<1>1. IsFiniteSet(0..(W - 1)) /\ Edges(word) \subseteq 0..(W - 1)
  <2>1. IsFiniteSet(0..(W - 1))
    BY Geometry, FS_Interval
  <2> QED
    BY <2>1 DEF Edges
<1>2. ASSUME NEW V \in SUBSET Edges(word), i \in V PROVE Cardinality(V) > 0
  <2>1. IsFiniteSet(V)
    BY <1>1, FS_Subset
  <2>2. Cardinality(V) \in Nat /\ Cardinality(V) # 0
    BY <1>2, <2>1, FS_CardinalityType, FS_EmptySet
  <2> QED
    BY <2>2
<1> QED
  BY <1>2 DEF up, down

\* The first word with edges, all in place, moves the pick to the middle.
LEMMA EdgeSteps ==
  ASSUME LineInv, now > 0, ~prev_in_packet, NEW inside \in BOOLEAN, ~inside, Edges(LineWord) # {},
         \A i \in Edges(LineWord) : Place(W * now + i) % S = 0
  PROVE  LET s == Step(LineWord, inside)
         IN  s \in {-1, 0, 1} /\ PickedAt + s \in IF S = 4 THEN {1, 2} ELSE {1}
<1> DEFINE s == Step(LineWord, inside)
<1>1. LineWord \in [1..W -> Level] /\ Inv /\ PickedAt \in 0..(S - 1)
  BY LineSamples, VoteOf DEF LineInv, PathInv
<1>2. s \in {-1, 0, 1}
  BY <1>1, LoopFilter
<1>3. /\ (\A i \in Edges(LineWord) : PhaseError(i) \notin UpErrors) => s # 1 /\ up(LineWord) = 0
      /\ (\A i \in Edges(LineWord) : PhaseError(i) # S - 1) => s # -1 /\ down(LineWord) = 0
  <2>1. ASSUME \A i \in Edges(LineWord) : PhaseError(i) \notin UpErrors PROVE up(LineWord) = 0
    <3>1. {i \in Edges(LineWord) : PhaseError(i) \in UpErrors} = {}
      BY <2>1
    <3> QED
      BY <3>1, FS_EmptySet DEF up
  <2>2. ASSUME \A i \in Edges(LineWord) : PhaseError(i) # S - 1 PROVE down(LineWord) = 0
    <3>1. {i \in Edges(LineWord) : PhaseError(i) = S - 1} = {}
      BY <2>2
    <3> QED
      BY <3>1, FS_EmptySet DEF down
  <2> QED
    BY <1>1, <2>1, <2>2, NoVotesNoStep
<1>4. /\ up(LineWord) > down(LineWord) => s = 1
      /\ up(LineWord) < down(LineWord) => s = -1
      /\ up(LineWord) \in Nat /\ down(LineWord) \in Nat
  BY <1>1, OneVoteSteps, Votes
<1>5. ASSUME NEW i \in Edges(LineWord)
      PROVE  PhaseError(i) = ((S \div 2) - PickedAt) % S
  <2>1. i \in Nat
    BY EdgePlaces
  <2>2. (i + shift) % S = 0
    <3>1. Place(W * now + i) % S = (i + shift) % S
      <4>1. i \in Int /\ i >= -1
        BY <2>1
      <4> QED
        BY <4>1, Grid DEF LineInv
    <3> QED
      BY <3>1
  <2>3. PhaseError(i) = (((i + shift) % S) + (S \div 2) - PickedAt) % S
    BY <2>1, VoteOf
  <2>4. PhaseError(i) = (0 + (S \div 2) - PickedAt) % S
    BY <2>2, <2>3, Zenon
  <2> QED
    BY <1>1, <2>4, Geometry
<1>6. PICK e \in Edges(LineWord) : TRUE
  OBVIOUS
<1>7. /\ PhaseError(e) \in UpErrors => up(LineWord) > 0
      /\ PhaseError(e) = S - 1 => down(LineWord) > 0
  BY <1>1, <1>6, VotesCount
<1> HIDE DEF s
<1>8. ASSUME \A i \in Edges(LineWord) : PhaseError(i) \in UpErrors /\ PhaseError(i) # S - 1
      PROVE  s = 1
  <2>1. up(LineWord) > 0 /\ down(LineWord) = 0
    BY <1>3, <1>6, <1>7, <1>8
  <2> QED
    BY <1>4, <2>1
<1>9. ASSUME \A i \in Edges(LineWord) : PhaseError(i) \notin UpErrors /\ PhaseError(i) = S - 1
      PROVE  s = -1
  <2>1. down(LineWord) > 0 /\ up(LineWord) = 0
    BY <1>3, <1>6, <1>7, <1>9
  <2> QED
    BY <1>4, <2>1
<1>10. PICK d \in 0..(S - 1) : d = PickedAt
  BY <1>1
<1>11. CASE S = 4
  <2>1. UpErrors = {2} /\ S - 1 = 3 /\ d \in 0..3
    BY <1>10, <1>11 DEF UpErrors
  <2>2. \A i \in Edges(LineWord) : PhaseError(i) = (2 - d) % 4
    BY <1>5, <1>10, <1>11
  <2>3. CASE d = 0
    <3>1. \A i \in Edges(LineWord) : PhaseError(i) = 2
      BY <2>2, <2>3
    <3> QED
      BY <1>8, <1>10, <1>11, <2>1, <2>3, <3>1 DEF s
  <2>4. CASE d = 3
    <3>0. (2 - d) % 4 = 3
      <4>1. \A m \in Int : m > 2 /\ m < 4 => (2 - m) % 4 = 3
        OBVIOUS
      <4> QED
        BY <2>4, <4>1, 3 \in Int /\ 3 > 2 /\ 3 < 4, Zenon
    <3>1. \A i \in Edges(LineWord) : PhaseError(i) = 3
      BY <2>2, <3>0, Zenon
    <3> QED
      BY <1>9, <1>10, <1>11, <2>1, <2>4, <3>1 DEF s
  <2>5. CASE d \in {1, 2}
    <3>1. \A i \in Edges(LineWord) : PhaseError(i) \in {0, 1}
      BY <2>2, <2>5
    <3>2. s = 0
      BY <1>2, <1>3, <2>1, <3>1
    <3> QED
      BY <1>10, <1>11, <2>5, <3>2 DEF s
  <2> QED
    BY <2>1, <2>3, <2>4, <2>5
<1>12. CASE S = 3
  <2>1. UpErrors = {1} /\ S - 1 = 2 /\ d \in 0..2
    BY <1>10, <1>12 DEF UpErrors
  <2>2. \A i \in Edges(LineWord) : PhaseError(i) = (1 - d) % 3
    BY <1>5, <1>10, <1>12
  <2>3. CASE d = 0
    <3>1. \A i \in Edges(LineWord) : PhaseError(i) = 1
      BY <2>2, <2>3
    <3> QED
      BY <1>8, <1>10, <1>12, <2>1, <2>3, <3>1 DEF s
  <2>4. CASE d = 2
    <3>0. (1 - d) % 3 = 2
      <4>1. \A m \in Int : m > 1 /\ m < 3 => (1 - m) % 3 = 2
        OBVIOUS
      <4> QED
        BY <2>4, <4>1, 2 \in Int /\ 2 > 1 /\ 2 < 3, Zenon
    <3>1. \A i \in Edges(LineWord) : PhaseError(i) = 2
      BY <2>2, <3>0, Zenon
    <3> QED
      BY <1>9, <1>10, <1>12, <2>1, <2>4, <3>1 DEF s
  <2>5. CASE d = 1
    <3>1. \A i \in Edges(LineWord) : PhaseError(i) = 0
      BY <2>2, <2>5
    <3>2. s = 0
      BY <1>2, <1>3, <2>1, <3>1
    <3> QED
      BY <1>10, <1>12, <2>5, <3>2 DEF s
  <2> QED
    BY <2>1, <2>3, <2>4, <2>5
<1> QED
  BY <1>11, <1>12, Geometry

\* Where the picks of a word are on the grid: one in each bit, at the same place in all of them.
LEMMA PickPlaces ==
  ASSUME NEW p \in 0..(S - 1), NEW h \in 0..(S - 1), NEW s \in {-1, 0, 1},
         ((p + h) % S) + s \in 0..(S - 1)
  PROVE  LET first == p + 1 + s
         IN  /\ (NextPhase(first) + h) % S = ((p + h) % S) + s
             /\ (NextPhase(first) + h) \div S + B = (p + h) \div S + Count(first)
             /\ \A j \in 1..Count(first) :
                  LET x == first - 1 + (j - 1) * S
                  IN  /\ x + 1 \in 0..W /\ x \in Int /\ x >= -1
                      /\ (x + h) % S = ((p + h) % S) + s
                      /\ (x + h) \div S = (p + h) \div S + (j - 1)
<1> DEFINE first == p + 1 + s
           X(j) == first - 1 + (j - 1) * S
           last == first + (Count(first) - 1) * S
<1>1. first \in 0..(S + 1) /\ S \in {3, 4} /\ B \in Nat /\ B >= 2 /\ W \in Nat
  BY Geometry
<1>2. Count(first) \in (B - 1)..(B + 1) /\ NextPhase(first) \in 0..(S - 1) /\ last <= W
  BY PicksOfWord
<1>3. /\ (NextPhase(first) + h) % S = ((p + h) % S) + s
      /\ (NextPhase(first) + h) \div S + B = (p + h) \div S + Count(first)
  <2>1. CASE first = 0
    <3>1. p = 0 /\ s = -1 /\ Count(first) = B + 1 /\ NextPhase(first) = S - 1
      BY <1>1, <2>1 DEF Count, NextPhase
    <3>2. CASE S = 3
      BY <1>1, <3>1, <3>2
    <3>3. CASE S = 4
      BY <1>1, <3>1, <3>3
    <3> QED
      BY <1>1, <3>2, <3>3
  <2>2. CASE first = S + 1
    <3>1. p = S - 1 /\ s = 1 /\ Count(first) = B - 1 /\ NextPhase(first) = 0
      BY <1>1, <2>2 DEF Count, NextPhase
    <3>2. CASE S = 3
      BY <1>1, <3>1, <3>2
    <3>3. CASE S = 4
      BY <1>1, <3>1, <3>3
    <3> QED
      BY <1>1, <3>2, <3>3
  <2>3. CASE first \in 1..S
    <3>1. Count(first) = B /\ NextPhase(first) = p + s
      BY <1>1, <2>3 DEF Count, NextPhase
    <3>2. CASE S = 3
      BY <1>1, <3>1, <3>2
    <3>3. CASE S = 4
      BY <1>1, <3>1, <3>3
    <3> QED
      BY <1>1, <3>2, <3>3
  <2> QED
    BY <1>1, <2>1, <2>2, <2>3
<1>4. ASSUME NEW j \in 1..Count(first)
      PROVE  /\ X(j) + 1 \in 0..W /\ X(j) \in Int /\ X(j) >= -1
             /\ (X(j) + h) % S = ((p + h) % S) + s
             /\ (X(j) + h) \div S = (p + h) \div S + (j - 1)
  <2>1. PICK c \in Nat, m \in Nat : c = Count(first) /\ m = j - 1 /\ m <= c - 1
    BY <1>1, <1>2
  <2>2. CASE S = 3
    <3>1. X(j) = first - 1 + 3 * m /\ first + 3 * (c - 1) <= W
      BY <1>1, <1>2, <2>1, <2>2
    <3> QED
      BY <1>1, <2>1, <2>2, <3>1
  <2>3. CASE S = 4
    <3>1. X(j) = first - 1 + 4 * m /\ first + 4 * (c - 1) <= W
      BY <1>1, <1>2, <2>1, <2>3
    <3> QED
      BY <1>1, <2>1, <2>3, <3>1
  <2> QED
    BY <1>1, <2>2, <2>3
<1> QED
  BY <1>3, <1>4

\* The pick moves by the step, from bit to bit of the line.
LEMMA AimsOn ==
  ASSUME LineInv, now > 0, NEW inside \in BOOLEAN, Recover(LineWord, inside), now' = now + 1,
         UNCHANGED onLine, PickedAt + Step(LineWord, inside) \in 0..(S - 1)
  PROVE  /\ PickedAt' = PickedAt + Step(LineWord, inside)
         /\ Aim' = Aim + Len(bits')
         /\ Steady \/ S = 3 \/ PickedAt' \in {1, 2} => ReadsOn
<1> DEFINE s == Step(LineWord, inside)
           first == phase + 1 + s
           x(j) == first - 1 + (j - 1) * S
<1>1. /\ LineWord \in [1..W -> Level] /\ Inv /\ phase \in 0..(S - 1) /\ shift \in 0..(S - 1)
      /\ now \in Nat /\ B \in Nat /\ B * now \in Nat /\ W \in Nat
  BY LineSamples, Geometry DEF LineInv, PathInv, Inv, TypeOK
<1>2. /\ s \in {-1, 0, 1} /\ phase' = NextPhase(first) /\ Len(bits') = Count(first)
      /\ sel(LineWord, inside) = first /\ bits' = Picks(LineWord, first)
  BY <1>1, RecoverStep DEF sel, Recover
<1>3. /\ (NextPhase(first) + shift) % S = PickedAt + s
      /\ (NextPhase(first) + shift) \div S + B = (phase + shift) \div S + Count(first)
      /\ \A j \in 1..Count(first) :
           /\ x(j) + 1 \in 0..W /\ x(j) \in Int /\ x(j) >= -1
           /\ (x(j) + shift) % S = PickedAt + s
           /\ (x(j) + shift) \div S = (phase + shift) \div S + (j - 1)
  BY <1>1, <1>2, PickPlaces DEF PickedAt
<1>4. Aim = B * now + 1 + (phase + shift) \div S /\ (phase + shift) \div S \in Int
  <2>1. phase \in Int /\ phase >= -1
    BY <1>1, Geometry
  <2> QED
    BY <1>1, <2>1, Grid DEF Aim
<1>5. PickedAt' = PickedAt + s
  BY <1>2, <1>3 DEF PickedAt, onLine
<1>6. Aim' = Aim + Count(first)
  <2>1. phase' \in Int /\ phase' >= -1 /\ shift' \in 0..(S - 1) /\ now' \in Nat /\ Count(first) \in Nat
    <3>1. NextPhase(first) \in 0..(S - 1) /\ Count(first) \in (B - 1)..(B + 1) /\ Count(first) >= 1
      BY <1>1, <1>2, PicksOfWord
    <3>2. Count(first) \in Nat
      BY <1>1, <3>1
    <3>3. phase' \in Int /\ phase' >= -1
      BY <1>2, <3>1, Geometry
    <3> QED
      BY <1>1, <3>2, <3>3 DEF onLine
  <2>3. Aim' = B * now' + 1 + (phase' + shift) \div S
    <3>1. ASSUME NEW n \in Nat, NEW p \in 0..(S - 1)
          PROVE  (S + shift + (W * n + p)) \div S = B * n + 1 + (p + shift) \div S
      <4>1. PICK m \in Nat : m = B * n
        BY <1>1
      <4>2. CASE S = 3
        <5>1. W * n = 3 * m
          BY <1>1, <4>1, <4>2 DEF W
        <5> QED
          BY <1>1, <4>1, <4>2, <5>1
      <4>3. CASE S = 4
        <5>1. W * n = 4 * m
          BY <1>1, <4>1, <4>3 DEF W
        <5> QED
          BY <1>1, <4>1, <4>3, <5>1
      <4> QED
        BY <4>2, <4>3, Geometry
    <3>2. phase' \in 0..(S - 1)
      BY <1>1, <1>2, PicksOfWord
    <3> QED
      BY <2>1, <3>1, <3>2 DEF Aim, Place, onLine
  <2>4. B * now' = B * now + B
    BY <1>1
  <2>5. PICK u \in Int, v \in Int : u = (phase' + shift) \div S /\ v = (phase + shift) \div S
    <3>1. phase' + shift \in Int /\ phase + shift \in Int
      BY <1>1, <2>1
    <3> QED
      BY <3>1, Geometry
  <2>6. u + B = v + Count(first)
    BY <1>2, <1>3, <2>5
  <2>7. PICK n \in Nat, c \in Nat : n = B * now /\ c = Count(first)
    BY <1>1, <2>1
  <2>8. Aim' = (n + B) + 1 + u /\ Aim = n + 1 + v /\ u + B = v + c
    BY <1>2, <1>4, <2>3, <2>4, <2>5, <2>6, <2>7
  <2>9. Aim' = Aim + c
    BY <1>1, <2>8
  <2> QED
    BY <2>7, <2>9
<1>7. ASSUME Steady \/ S = 3 \/ PickedAt + s \in {1, 2}, NEW j \in 1..Len(bits')
      PROVE  bits'[j] = tx[Aim + j - 1]
  <2>1. j \in 1..Count(first) /\ j \in Int
    BY <1>2, PicksOfWord, <1>1
  <2>2. /\ x(j) + 1 \in 0..W /\ x(j) \in Int /\ x(j) >= -1
        /\ (x(j) + shift) % S = PickedAt + s
        /\ (x(j) + shift) \div S = (phase + shift) \div S + (j - 1)
    BY <1>3, <2>1
  <2>3. bits'[j] = ext(LineWord, x(j) + 1)
    <3>1. bits'[j] = ext(LineWord, first + (j - 1) * S)
      BY <1>2, <2>1 DEF Picks
    <3>2. first + (j - 1) * S = x(j) + 1
      <4>1. first \in Int /\ (j - 1) * S \in Int
        BY <1>1, <1>2, <2>1, Geometry
      <4> QED
        BY <4>1
    <3> QED
      BY <3>1, <3>2
  <2> HIDE DEF x, first, s
  <2>4. ext(LineWord, x(j) + 1) = tx[BitOn(W * now + x(j))]
    <3>1. x(j) + 1 - 1 = x(j)
      BY <2>2
    <3> QED
      BY <2>2, <3>1, LineSamples
  <2>5. BitOn(W * now + x(j)) = B * now + 1 + (x(j) + shift) \div S
    BY <1>7, <2>2, Shows, Geometry
  <2>6. BitOn(W * now + x(j)) = Aim + j - 1
    BY <1>1, <1>4, <2>1, <2>2, <2>5
  <2> QED
    BY <2>3, <2>4, <2>6
<1> QED
  BY <1>2, <1>5, <1>6, <1>7 DEF ReadsOn

\* The line shows levels, in the first word too.
LEMMA LineShowsLevels == ASSUME LineInv PROVE LineWord \in [1..W -> Level] /\ LineWord[W] = tx[BitOn(W * now + (W - 1))]
<1>1. W \in Nat /\ W >= 1 /\ now \in Nat /\ tx \in [Nat -> Level] /\ W * now \in Nat
  BY Geometry DEF LineInv
<1>2. ASSUME NEW i \in 1..W
      PROVE  W * now + i - 1 = W * now + (i - 1) /\ tx[BitOn(W * now + (i - 1))] \in Level
  <2>1. i - 1 \in Int /\ i - 1 >= -1 /\ W * now + i - 1 = W * now + (i - 1)
    BY <1>1
  <2>2. BitOn(W * now + (i - 1)) \in Nat
    BY <2>1, Shows
  <2> QED
    BY <1>1, <2>1, <2>2
<1> QED
  BY <1>1, <1>2 DEF LineWord

\* The line's invariant holds at reset
LEMMA LineInit == JInit => LineInv
  BY PathInit DEF JInit, LineInv

\* and is kept by every step.
LEMMA LineStep == LineInv /\ [JNext]_jlVars => LineInv'
<1> SUFFICES ASSUME LineInv, [JNext]_jlVars PROVE LineInv'
  OBVIOUS
<1>1. CASE JWord
  <2>1. LineWord \in [1..W -> Level] /\ LineWord[W] = tx[BitOn(W * now + (W - 1))]
    BY LineShowsLevels
  <2>2. PathInv'
    BY <1>1, <2>1, PathCycle DEF JWord, LineInv
  <2>3. prev_last' = LineWord[W] /\ now' = now + 1 /\ now \in Nat /\ W \in Nat
    BY <1>1, Geometry DEF JWord, Cycle, Recover, LineInv
  <2>4. W * now' - 1 = W * now + (W - 1)
    BY <2>3
  <2>5. BitOn(W * now - 1)' = BitOn(W * now + (W - 1))
    BY <1>1, <2>4 DEF JWord, onLine, BitOn, Place
  <2>6. prev_last' = tx'[BitOn(W * now - 1)']
    BY <1>1, <2>1, <2>3, <2>4, <2>5 DEF JWord, onLine
  <2> QED
    BY <1>1, <2>2, <2>3, <2>6 DEF JWord, onLine, LineInv
<1>2. CASE UNCHANGED <<vars, decVars, onLine, now>>
  <2>1. PathInv'
    BY <1>2, PathRests DEF LineInv
  <2>2. BitOn(W * now - 1)' = BitOn(W * now - 1)
    BY <1>2 DEF onLine, BitOn, Place
  <2>3. prev_last' = prev_last /\ UNCHANGED <<tx, moved, shift, now>>
    BY <1>2 DEF vars, cdrVars, onLine
  <2> QED
    BY <2>1, <2>2, <2>3 DEF LineInv
<1> QED
  BY <1>1, <1>2 DEF JNext, UsbEdge, Crossing, jlVars, rxVars

\* A word of the line moves the counters and the CDR as they are taken to be above.
LEMMA WordMoves ==
  ASSUME LineInv, [JNext]_jlVars, now' # now
  PROVE  /\ in_packet \in BOOLEAN /\ Recover(LineWord, in_packet) /\ now' = now + 1 /\ UNCHANGED onLine
         /\ prev_in_packet' = in_packet
<1>1. JWord
  BY DEF JNext, jlVars
<1> QED
  BY <1>1 DEF JWord, Cycle, Recover, LineInv, PathInv, DecP!Inv, DecP!TypeOK

(* For lines of any bits and any edges a sample out of place, as the simulations of rx/cdr.py
   sample them: a CDR in lock stays in it and reads every bit once; and so does one that is
   not, if the edges are in place. *)
THEOREM JitterIsTolerated == JSpec => LockOutlastsJitter /\ SteadyLineIsRead
<1>1. ASSUME LineInv, [JNext]_jlVars, now > 0, now' # now, Locked \/ Steady
      PROVE  (Locked => Locked') /\ ReadsOn
  <2> DEFINE s == Step(LineWord, in_packet)
  <2>1. /\ in_packet \in BOOLEAN /\ Recover(LineWord, in_packet) /\ now' = now + 1 /\ UNCHANGED onLine
    BY <1>1, WordMoves
  <2>2. /\ PickedAt + s \in 0..(S - 1)
        /\ Locked => PickedAt + s \in IF S = 4 THEN {1, 2} ELSE {1}
    BY <1>1, <2>1, StepsInward
  <2>3. /\ PickedAt' = PickedAt + s
        /\ Steady \/ S = 3 \/ PickedAt' \in {1, 2} => ReadsOn
    BY <1>1, <2>1, <2>2, AimsOn
  <2> HIDE DEF s
  <2>4. Locked => Locked'
    BY <2>2, <2>3 DEF Locked
  <2>5. Locked => S = 3 \/ PickedAt' \in {1, 2}
    BY <2>2, <2>3, Geometry
  <2> QED
    BY <1>1, <2>3, <2>4, <2>5
<1>2. LineInv /\ [JNext]_jlVars => [now > 0 /\ Locked /\ now' # now => Locked' /\ ReadsOn]_jlVars
  BY <1>1
<1>3. LineInv /\ [JNext]_jlVars => [now > 0 /\ Steady /\ now' # now => ReadsOn]_jlVars
  BY <1>1
<1> QED
  BY <1>2, <1>3, LineInit, LineStep, PTL DEF JSpec, LockOutlastsJitter, SteadyLineIsRead

(* From any phase, one word with edges in place outside a packet is enough for lock, as the
   docstring of rx/cdr.py has it: the first edges snap the phase. *)
THEOREM FirstEdgeLocks == JSpec => AnEdgeLocks
<1>1. ASSUME LineInv, [JNext]_jlVars, now > 0, now' # now, ~prev_in_packet, ~prev_in_packet',
             Edges(LineWord) # {}, \A i \in Edges(LineWord) : Place(W * now + i) % S = 0
      PROVE  Locked'
  <2> DEFINE s == Step(LineWord, in_packet)
  <2>1. /\ in_packet \in BOOLEAN /\ Recover(LineWord, in_packet) /\ now' = now + 1 /\ UNCHANGED onLine
        /\ ~in_packet
    BY <1>1, WordMoves
  <2>2. PickedAt + s \in IF S = 4 THEN {1, 2} ELSE {1}
    BY <1>1, <2>1, EdgeSteps
  <2>3. PickedAt' = PickedAt + s
    <3>1. PickedAt + s \in 0..(S - 1)
      BY <2>2, Geometry
    <3> QED
      BY <1>1, <2>1, <3>1, AimsOn
  <2> HIDE DEF s
  <2>4. PickedAt' \in IF S = 4 THEN {1, 2} ELSE {1}
    BY <2>2, <2>3
  <2> QED
    BY <2>4 DEF Locked
<1>2. LineInv /\ [JNext]_jlVars
        => [now > 0 /\ now' # now /\ ~prev_in_packet /\ ~prev_in_packet' /\ Edges(LineWord) # {}
              /\ (\A i \in Edges(LineWord) : Place(W * now + i) % S = 0) => Locked']_jlVars
  BY <1>1
<1> QED
  BY <1>2, LineInit, LineStep, PTL DEF JSpec, AnEdgeLocks
=============================================================================
