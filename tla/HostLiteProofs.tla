---------------------------- MODULE HostLiteProofs ----------------------------
(***************************************************************************)
(* Proofs about HostLite, for every script that meets ScriptAssumption,    *)
(* every timing and any receive traffic: what is sent behind what          *)
(* (DataFollowsToken), and what counts as a matched reply (OkMeansMatch).  *)
(***************************************************************************)
EXTENDS HostLite, SequenceTheorems, TLAPS

\* i is a step of the script.
InScript(i) == i \in 1..n_steps

\* May be sent now: a token, or what the script has behind the packet sent last.
MayGo(i) == InScript(i) /\ (Script[i].txn \/ last = i - 1)

\* What each state of the machine knows of step, last and sending_sof.
Phase ==
  /\ state \in {"HOLD", "DISPATCH", "SEND", "SOF_GAP", "AWAIT", "RECEIVE", "RETRY",
                "ADVANCE", "GAP"}
  /\ state = "HOLD" => step = 1
  /\ state = "DISPATCH" => MayGo(step)
  /\ state = "SEND" => MayGo(step) /\ (sending_sof => cur.txn)
  /\ state = "SOF_GAP" => InScript(step) /\ cur.txn
  /\ state \in {"AWAIT", "RECEIVE", "RETRY", "ADVANCE"} => InScript(step) /\ last = step
  /\ state = "GAP" => MayGo(step) \/ step = n_steps + 1

\* What is assumed of the script, step by step.
LEMMA ScriptFacts ==
  /\ n_steps \in Nat /\ InScript(1) /\ Script[1].txn
  /\ \A i \in 1..n_steps :
       /\ i \in Int
       /\ ~Script[i].txn => InScript(i - 1) /\ Script[i - 1].txn
       /\ Script[i].target # 0 => InScript(Script[i].target) /\ Script[Script[i].target].txn
<1>1. Script \in Seq(StepType) /\ Len(Script) > 0 /\ Script[1].txn
  BY ScriptAssumption
<1>2. n_steps \in Nat /\ DOMAIN Script = 1..n_steps
  BY <1>1, LenProperties DEF n_steps
<1>3. ASSUME NEW i \in 1..n_steps
      PROVE  /\ ~Script[i].txn => InScript(i - 1) /\ Script[i - 1].txn
             /\ Script[i].target # 0 =>
                  InScript(Script[i].target) /\ Script[Script[i].target].txn
  <2>1. i \in DOMAIN Script
    BY <1>2
  <2>2. /\ ~Script[i].txn => Script[i - 1].txn
        /\ (Script[i].target # 0) => Script[Script[i].target].txn
    BY <2>1, ScriptAssumption
  <2>3. ~Script[i].txn => InScript(i - 1)
    <3>1. ~Script[i].txn => i # 1
      BY <1>1
    <3> QED
      BY <1>2, <3>1 DEF InScript
  <2>4. Script[i].target # 0 => InScript(Script[i].target)
    <3>1. Script[i] \in StepType
      BY <1>1, <2>1, ElementOfSeq, <1>2 DEF n_steps
    <3>2. Script[i].target \in 0..n_steps
      BY <3>1 DEF StepType, n_steps
    <3> QED
      BY <1>2, <3>2 DEF InScript
  <2> QED
    BY <2>2, <2>3, <2>4
<1>4. InScript(1)
  BY <1>1, <1>2 DEF InScript, n_steps
<1> QED
  BY <1>1, <1>2, <1>3, <1>4

\* A fault goes on with a token, or silently from the start.
LEMMA FaultPhase ==
  ASSUME InScript(step), NEW counter, fault(counter)
  PROVE  \/ state' = "HOLD" /\ step' = 1
         \/ state' = "GAP" /\ InScript(step') /\ Script[step'].txn
<1>1. CASE faults = max_faults - 1
  BY <1>1 DEF fault, last_fault
<1>2. CASE faults # max_faults - 1
  <2>1. state' = "GAP" /\ step' = IF cur.txn THEN step ELSE step - 1
    BY <1>2 DEF fault, last_fault, fault_step
  <2>2. ~Script[step].txn => InScript(step - 1) /\ Script[step - 1].txn
    BY ScriptFacts DEF InScript
  <2>3. CASE Script[step].txn
    BY <2>1, <2>3 DEF cur
  <2>4. CASE ~Script[step].txn
    BY <2>1, <2>2, <2>4 DEF cur
  <2> QED
    BY <2>1, <2>3, <2>4
<1> QED
  BY <1>1, <1>2

\* The host starts before its first token.
LEMMA PhaseInit == Init => Phase
  BY ScriptFacts DEF Init, Phase

\* The end of a reply.
LEMMA JudgePhase ==
  ASSUME InScript(step), last = step, last' = last, Judge
  PROVE  Phase'
<1>1. CASE outcome' = "ok" /\ state' = "ADVANCE" /\ step' = step
  BY <1>1 DEF Phase, InScript
<1>2. CASE state' = "RETRY" /\ UNCHANGED seqVars
  BY <1>2 DEF Phase, InScript, seqVars
<1>3. CASE fault("bad")
  <2>1. \/ state' = "HOLD" /\ step' = 1
        \/ state' = "GAP" /\ InScript(step') /\ Script[step'].txn
    BY <1>3, FaultPhase
  <2>2. state' = "GAP" /\ InScript(step') /\ Script[step'].txn => Phase'
    BY DEF Phase, MayGo
  <2>3. state' = "HOLD" /\ step' = 1 => Phase'
    BY DEF Phase
  <2> QED
    BY <2>1, <2>2, <2>3
<1> QED
  BY <1>1, <1>2, <1>3 DEF Judge

\* Every step keeps the order of packets,
LEMMA PhaseNext == Phase /\ [Next]_vars => Phase'
<1> SUFFICES ASSUME Phase, [Next]_vars PROVE Phase'
  OBVIOUS
<1> USE DEF Phase, MayGo, InScript
<1>1. CASE HOLD
  BY <1>1, ScriptFacts DEF HOLD, Tick, seqVars
<1>2. CASE DISPATCH
  BY <1>2 DEF DISPATCH, sof_now, cur, seqVars
<1>3. CASE SendWait
  BY <1>3 DEF SendWait, cur, seqVars
<1>4. CASE SendByte
  <2>1. step' = step /\ sending_sof' = sending_sof /\ InScript(step)
    BY <1>4 DEF SendByte, seqVars
  <2>2. CASE UNCHANGED <<state, timer, last>>
    BY <1>4, <2>1, <2>2 DEF SendByte, cur
  <2>3. CASE sending_sof /\ state' = "SOF_GAP"
    BY <1>4, <2>1, <2>3 DEF SendByte, cur
  <2>4. CASE ~sending_sof /\ last' = step /\ state' \in {"ADVANCE", "AWAIT"}
    BY <2>1, <2>4
  <2> QED
    BY <1>4, <2>2, <2>3, <2>4 DEF SendByte
<1>5. CASE SOF_GAP
  BY <1>5 DEF SOF_GAP, Tick, cur, seqVars
<1>6. CASE AWAIT
  <2>1. InScript(step) /\ last = step /\ last' = last
    BY <1>6 DEF AWAIT
  <2>2. CASE state' = "RECEIVE" /\ UNCHANGED seqVars
    BY <2>1, <2>2 DEF seqVars
  <2>3. CASE fault("timeouts")
    <3>1. \/ state' = "HOLD" /\ step' = 1
          \/ state' = "GAP" /\ InScript(step') /\ Script[step'].txn
      BY <2>1, <2>3, FaultPhase
    <3> QED
      BY <3>1
  <2>4. CASE UNCHANGED state /\ UNCHANGED seqVars
    BY <1>6, <2>1, <2>4 DEF AWAIT, seqVars
  <2> QED
    BY <1>6, <2>2, <2>3, <2>4 DEF AWAIT, Tick
<1>7. CASE RECEIVE
  <2>1. InScript(step) /\ last = step /\ last' = last
    BY <1>7 DEF RECEIVE
  <2>2. CASE Judge
    BY <2>1, <2>2, JudgePhase
  <2>3. CASE UNCHANGED <<state, seqVars, timer>>
    BY <1>7, <2>1, <2>3 DEF RECEIVE, seqVars
  <2> QED
    BY <1>7, <2>2, <2>3 DEF RECEIVE
<1>8. CASE RETRY
  <2>1. InScript(step) /\ last = step /\ last' = last
    BY <1>8 DEF RETRY
  <2>2. CASE step' = fault_step /\ state' = "DISPATCH"
    <3>1. ~Script[step].txn => InScript(step - 1) /\ Script[step - 1].txn
      BY <2>1, ScriptFacts
    <3> QED
      BY <2>1, <2>2, <3>1 DEF fault_step, cur
  <2>3. CASE UNCHANGED <<state, step>>
    BY <1>8, <2>1, <2>3 DEF RETRY
  <2> QED
    BY <1>8, <2>2, <2>3 DEF RETRY, Tick
<1>9. CASE ADVANCE
  <2>1. InScript(step) /\ last = step /\ last' = last /\ state' = "GAP"
        /\ step' = IF cur.target # 0 THEN cur.target ELSE step + 1
    BY <1>9 DEF ADVANCE
  <2>2. CASE Script[step].target # 0
    BY <2>1, <2>2, ScriptFacts DEF cur
  <2>3. CASE Script[step].target = 0
    <3>1. step' = step + 1 /\ step \in Int /\ n_steps \in Nat
      BY <2>1, <2>3, ScriptFacts DEF cur
    <3> QED
      BY <2>1, <3>1
  <2> QED
    BY <2>2, <2>3
<1>10. CASE GAP
  BY <1>10, ScriptFacts DEF GAP, Tick
<1>11. CASE UNCHANGED vars
  BY <1>11 DEF vars, seqVars, histVars, cur
<1> QED
  BY <1>1, <1>2, <1>3, <1>4, <1>5, <1>6, <1>7, <1>8, <1>9, <1>10, <1>11 DEF Next, Cycle

\* which therefore holds always.
THEOREM PhaseInvariant == Spec => []Phase
  BY PhaseInit, PhaseNext, PTL DEF Spec

(* Data and handshakes go out only right behind the packet the script has
   before them, whatever SOFs, NAKs, timeouts, bad replies and restarts. *)
THEOREM TokenBeforeData == Spec => []DataFollowsToken
<1>1. Phase => DataFollowsToken
  BY DEF Phase, MayGo, DataFollowsToken, cur
<1> QED
  BY <1>1, PhaseInvariant, PTL

-----------------------------------------------------------------------------

\* What a matched reply to the current step is made of.
Wanted == IF cur.expect = EXPECT_ACK THEN <<ACK>> ELSE cur.reply

\* While nothing has mismatched, the bytes received are the first of the wanted ones.
Matching ==
  /\ got \in Seq(Bytes)
  /\ state = "RECEIVE" /\ ~mismatch =>
       /\ idx = Len(got) /\ Len(got) <= Len(Wanted)
       /\ \A k \in 1..Len(got) : got[k] = Wanted[k]

\* Order of packets and the matching of a reply, together.
Inv == Phase /\ Matching /\ rx_valid \in Bytes \cup {NoData}

\* The bytes expected are bytes.
LEMMA WantedType ==
  ASSUME InScript(step)
  PROVE  /\ Wanted \in Seq(Bytes) /\ Len(Wanted) \in Nat
         /\ Len(Wanted) < IdxRange /\ Len(Wanted) < MaxGot
         /\ IdxRange \in Nat /\ MaxGot \in Nat
         /\ cur.expect = EXPECT_ACK => Wanted = <<ACK>> /\ Len(Wanted) = 1 /\ Wanted[1] = ACK
         /\ cur.expect # EXPECT_ACK => Wanted = cur.reply
<1>1. Script \in Seq(StepType) /\ step \in 1..Len(Script) /\ step \in DOMAIN Script
  BY ScriptAssumption, LenProperties DEF InScript, n_steps
<1>2. cur \in StepType
  BY <1>1, ElementOfSeq DEF cur
<1>3. cur.reply \in Seq(Bytes)
  BY <1>2 DEF StepType
<1>4. Len(cur.reply) < IdxRange /\ Len(cur.reply) < MaxGot
  BY <1>1, ScriptAssumption DEF cur
<1>5. IdxRange \in Nat \ {0, 1} /\ MaxGot \in Nat \ {0, 1} /\ ACK \in Bytes
  BY TimingAssumption, HandshakeAssumption
<1>6. <<ACK>> \in Seq(Bytes) /\ Len(<<ACK>>) = 1 /\ <<ACK>>[1] = ACK
  BY <1>5
<1>7. CASE cur.expect = EXPECT_ACK
  <2>1. Wanted = <<ACK>>
    BY <1>7 DEF Wanted
  <2>2. 1 < IdxRange /\ 1 < MaxGot /\ 1 \in Nat
    BY <1>5
  <2> QED
    BY <1>5, <1>6, <1>7, <2>1, <2>2
<1>8. CASE cur.expect # EXPECT_ACK
  <2>1. Wanted = cur.reply
    BY <1>8 DEF Wanted
  <2> QED
    BY <1>3, <1>4, <1>5, <1>8, <2>1, LenProperties
<1> QED
  BY <1>7, <1>8

\* A byte of the reply: unless it is wrong it extends the match.
LEMMA CompareKeeps ==
  ASSUME Inv, state = "RECEIVE", Compare, ~rx_end
  PROVE  /\ got' \in Seq(Bytes)
         /\ ~mismatch' =>
              /\ idx' = Len(got') /\ Len(got') <= Len(Wanted)
              /\ \A k \in 1..Len(got') : got'[k] = Wanted[k]
<1>0. /\ InScript(step) /\ got \in Seq(Bytes) /\ Len(got) \in Nat
      /\ rx_valid \in Bytes \cup {NoData}
  BY LenProperties DEF Inv, Phase, Matching
<1>1. /\ mismatch' = (mismatch \/ (rx_valid # NoData /\ wrong_byte) \/ rx_error)
      /\ idx' = IF rx_valid # NoData THEN (idx + 1) % IdxRange ELSE idx
      /\ got' = IF rx_valid # NoData /\ Len(got) < MaxGot THEN Append(got, rx_valid) ELSE got
  BY DEF Compare
<1>2. got' \in Seq(Bytes)
  BY <1>0, <1>1, AppendProperties
<1>3. ASSUME ~mismatch'
      PROVE  /\ idx' = Len(got') /\ Len(got') <= Len(Wanted)
             /\ \A k \in 1..Len(got') : got'[k] = Wanted[k]
  <2>1. ~mismatch /\ (rx_valid # NoData => ~wrong_byte)
    BY <1>1, <1>3
  <2>2. /\ idx = Len(got) /\ Len(got) <= Len(Wanted)
        /\ \A k \in 1..Len(got) : got[k] = Wanted[k]
    BY <2>1 DEF Inv, Matching
  <2>3. CASE rx_valid = NoData
    BY <1>1, <2>2, <2>3
  <2>4. CASE rx_valid # NoData
    <3>1. /\ Len(Wanted) \in Nat /\ Len(Wanted) < IdxRange /\ Len(Wanted) < MaxGot
          /\ IdxRange \in Nat /\ MaxGot \in Nat
      BY <1>0, WantedType
    <3>2. idx < Len(Wanted) /\ Wanted[idx + 1] = rx_valid
      <4>1. CASE cur.expect = EXPECT_ACK
        <5>1. idx = 0 /\ rx_valid = ACK
          BY <2>1, <2>4, <4>1 DEF wrong_byte
        <5>2. Len(Wanted) = 1 /\ Wanted[1] = ACK
          BY <1>0, <4>1, WantedType
        <5> QED
          BY <5>1, <5>2
      <4>2. CASE cur.expect # EXPECT_ACK
        <5>1. ~(idx >= Len(cur.reply)) /\ rx_valid = expected
          BY <2>1, <2>4, <4>2 DEF wrong_byte
        <5>2. Wanted = cur.reply
          BY <1>0, <4>2, WantedType
        <5>3. idx < Len(cur.reply)
          BY <1>0, <2>2, <3>1, <5>1, <5>2
        <5> QED
          BY <5>1, <5>2, <5>3 DEF expected
      <4> QED
        BY <4>1, <4>2
    <3>3. idx \in Nat /\ idx + 1 < IdxRange /\ Len(got) < MaxGot
      BY <1>0, <2>2, <3>1, <3>2
    <3>4. (idx + 1) % IdxRange = idx + 1
      BY <3>1, <3>3
    <3>5. /\ got' = Append(got, rx_valid) /\ Len(got') = Len(got) + 1
          /\ \A k \in 1..Len(got) : got'[k] = got[k]
          /\ got'[Len(got) + 1] = rx_valid
      BY <1>0, <1>1, <2>4, <3>3, AppendProperties
    <3>6. idx' = Len(got') /\ Len(got') <= Len(Wanted)
      BY <1>0, <1>1, <2>2, <2>4, <3>1, <3>2, <3>4, <3>5
    <3>7. ASSUME NEW k \in 1..Len(got') PROVE got'[k] = Wanted[k]
      <4>1. CASE k = Len(got) + 1
        BY <2>2, <3>2, <3>5, <4>1
      <4>2. CASE k # Len(got) + 1
        <5>1. k \in 1..Len(got)
          BY <1>0, <3>5, <4>2
        <5> QED
          BY <2>2, <3>5, <5>1
      <4> QED
        BY <4>1, <4>2
    <3> QED
      BY <3>6, <3>7
  <2> QED
    BY <2>3, <2>4
<1> QED
  BY <1>2, <1>3

\* Nothing has been heard at first.
LEMMA MatchingInit == Init => Matching /\ rx_valid \in Bytes \cup {NoData}
<1>1. <<>> \in Seq(Bytes)
  OBVIOUS
<1> QED
  BY <1>1 DEF Init, UtmiInit, Matching

\* Outside RECEIVE nothing is being matched.
LEMMA NoReply == ASSUME got' = <<>>, state' # "RECEIVE" PROVE Matching'
<1>1. <<>> \in Seq(Bytes)
  OBVIOUS
<1> QED
  BY <1>1 DEF Matching

\* A byte heard keeps the count or spoils the match,
LEMMA MatchingNext == Inv /\ [Next]_vars => Matching' /\ rx_valid' \in Bytes \cup {NoData}
<1> SUFFICES ASSUME Inv, [Next]_vars PROVE Matching' /\ rx_valid' \in Bytes \cup {NoData}
  OBVIOUS
<1>1. CASE UNCHANGED vars
  BY <1>1 DEF vars, seqVars, rxRegs, histVars, utmiVars, Inv, Matching, Wanted, cur
<1>2. CASE Next
  <2>1. rx_valid' \in Bytes \cup {NoData}
    BY <1>2 DEF Next, Background, UtmiNext, Quiescent, Open, Receive, Close
  <2>2. CASE AWAIT
    <3>1. CASE state' = "RECEIVE"
      <4>1. /\ got' = <<>> /\ idx' = 0 /\ step' = step
        BY <2>2, <3>1 DEF AWAIT, seqVars, fault, last_fault, Tick
      <4>2. Len(got') = 0 /\ got' \in Seq(Bytes)
        BY <4>1
      <4>3. Wanted' = Wanted /\ Len(Wanted) \in Nat
        <5>1. InScript(step)
          BY <2>2 DEF AWAIT, Inv, Phase
        <5> QED
          BY <4>1, <5>1, WantedType DEF Wanted, cur
      <4>4. idx' = Len(got') /\ Len(got') <= Len(Wanted') /\ 1..Len(got') = {}
        BY <4>1, <4>2, <4>3
      <4> QED
        BY <2>1, <4>2, <4>4 DEF Matching
    <3>2. CASE state' # "RECEIVE"
      <4>1. got' = <<>>
        BY <2>2, <3>2 DEF AWAIT, NoCount
      <4> QED
        BY <2>1, <3>2, <4>1, NoReply
    <3> QED
      BY <3>1, <3>2
  <2>3. CASE RECEIVE
    <3>1. CASE rx_end
      <4>1. got' = <<>> /\ state' # "RECEIVE"
        BY <2>3, <3>1 DEF RECEIVE, Compare, Judge, fault, last_fault
      <4> QED
        BY <2>1, <4>1, NoReply
    <3>2. CASE ~rx_end
      <4>1. state = "RECEIVE" /\ Compare /\ step' = step
        BY <2>3, <3>2 DEF RECEIVE, seqVars
      <4>2. Wanted' = Wanted
        BY <4>1 DEF Wanted, cur
      <4>3. /\ got' \in Seq(Bytes)
            /\ ~mismatch' =>
                 /\ idx' = Len(got') /\ Len(got') <= Len(Wanted)
                 /\ \A k \in 1..Len(got') : got'[k] = Wanted[k]
        BY <3>2, <4>1, CompareKeeps
      <4> QED
        BY <2>1, <4>2, <4>3 DEF Matching
    <3> QED
      BY <3>1, <3>2
  <2>4. CASE HOLD \/ DISPATCH \/ SendWait \/ SendByte \/ SOF_GAP \/ RETRY \/ ADVANCE \/ GAP
    <3>1. got' = <<>>
      BY <2>4 DEF HOLD, DISPATCH, SendWait, SendByte, SOF_GAP, RETRY, ADVANCE, GAP, NoCount
    <3>2. state' # "RECEIVE"
      BY <2>4 DEF HOLD, DISPATCH, SendWait, SendByte, SOF_GAP, RETRY, ADVANCE, GAP, Tick
    <3> QED
      BY <2>1, <3>1, <3>2, NoReply
  <2> QED
    BY <1>2, <2>2, <2>3, <2>4 DEF Next, Cycle
<1> QED
  BY <1>1, <1>2

\* and so both hold always.
THEOREM Invariant == Spec => []Inv
<1>1. Init => Inv
  BY PhaseInit, MatchingInit DEF Inv
<1>2. Inv /\ [Next]_vars => Inv'
  BY PhaseNext, MatchingNext DEF Inv
<1> QED
  BY <1>1, <1>2, PTL DEF Spec

(* A reply that counts as matched has exactly the expected bytes, although idx
   wraps and the comparison goes byte by byte. *)
THEOREM MatchedReplyIsExact == Spec => OkMeansMatch
<1>1. Inv /\ [Next]_vars =>
        [outcome' = "ok" /\ outcome = "none" =>
           got = (IF cur.expect = EXPECT_ACK THEN <<ACK>> ELSE cur.reply)]_vars
  <2> SUFFICES ASSUME Inv, Next, outcome' = "ok" PROVE got = Wanted
    BY DEF vars, Wanted
  <2>1. RECEIVE /\ ~mismatch /\ ok_len
    BY DEF Next, Cycle, HOLD, DISPATCH, SendWait, SendByte, SOF_GAP, AWAIT, RECEIVE, RETRY,
           ADVANCE, GAP, NoCount, Judge, fault, last_fault
  <2>2. /\ InScript(step) /\ got \in Seq(Bytes) /\ idx = Len(got)
        /\ \A k \in 1..Len(got) : got[k] = Wanted[k]
    BY <2>1 DEF RECEIVE, Inv, Phase, Matching
  <2>3. Len(got) = Len(Wanted) /\ Wanted \in Seq(Bytes)
    <3>1. cur.expect = EXPECT_ACK => Len(Wanted) = 1
      BY <2>2, WantedType
    <3>2. cur.expect # EXPECT_ACK => Wanted = cur.reply
      BY <2>2, WantedType
    <3> QED
      BY <2>1, <2>2, <3>1, <3>2, WantedType DEF ok_len
  <2> QED
    BY <2>2, <2>3, SeqEqual
<1> QED
  BY <1>1, Invariant, PTL DEF Spec, OkMeansMatch

-----------------------------------------------------------------------------

\* The step that is under way is one of the script.
LEMMA CurType ==
  ASSUME InScript(step)
  PROVE  /\ cur.gap \in Nat /\ cur.length \in Nat \ {0} /\ cur.length <= IdxRange
         /\ cur.expect = EXPECT_NONE => cur.gap >= 8
<1>1. Script \in Seq(StepType) /\ step \in 1..Len(Script) /\ step \in DOMAIN Script
  BY ScriptAssumption, LenProperties DEF InScript, n_steps
<1>2. cur \in StepType
  BY <1>1, ElementOfSeq DEF cur
<1>3. cur.length <= IdxRange /\ (cur.expect = EXPECT_NONE => cur.gap >= 8)
  BY <1>1, ScriptAssumption DEF cur
<1> QED
  BY <1>2, <1>3 DEF StepType

\* The registers besides state and step, whose sets Phase knows.
Registers ==
  /\ idx \in 0..(IdxRange - 1) /\ timer \in Nat
  /\ hold_target \in {start_delay - 1, restart_delay - 1} /\ gap_target \in Nat
  /\ faults \in 0..(max_faults - 1)
  /\ mismatch \in BOOLEAN /\ nak_seen \in BOOLEAN /\ sending_sof \in BOOLEAN
  /\ sof_due \in BOOLEAN /\ rx_prev_active \in BOOLEAN
  /\ outcome \in {"none", "ok", "bad", "timeouts", "naks"}

\* The registers a receiving host works with.
Receiver ==
  rx_active \in BOOLEAN /\ rx_error \in BOOLEAN /\ rx_valid \in Bytes \cup {NoData}

\* What a fault does to the registers it touches.
LEMMA FaultKeeps ==
  ASSUME Registers, NEW counter, fault(counter)
  PROVE  /\ timer' \in Nat /\ gap_target' \in Nat /\ faults' \in 0..(max_faults - 1)
         /\ hold_target' \in {start_delay - 1, restart_delay - 1} /\ outcome' = counter
  BY TimingAssumption DEF Registers, fault, last_fault, restart_hold

\* Every step keeps the registers within their ranges,
LEMMA RegistersNext == Phase /\ Registers /\ Receiver /\ Cycle /\ Background => Registers'
<1> SUFFICES ASSUME Phase, Registers, Receiver, Cycle, Background PROVE Registers'
  OBVIOUS
<1>1. rx_prev_active' \in BOOLEAN /\ (SofTick => sof_due' \in BOOLEAN)
  BY DEF Background, Receiver, Registers, SofTick
<1> USE TimingAssumption DEF Registers, NoCount, Tick, seqVars, rxRegs
<1>2. CASE HOLD
  BY <1>1, <1>2 DEF HOLD
<1>3. CASE DISPATCH
  <2>1. sof_due' \in BOOLEAN /\ sending_sof' \in BOOLEAN
    <3>1. cur.txn \in BOOLEAN
      <4>1. Script \in Seq(StepType) /\ step \in 1..Len(Script)
        BY <1>3, ScriptAssumption DEF DISPATCH, Phase, MayGo, InScript, n_steps
      <4>2. cur \in StepType
        BY <4>1, ElementOfSeq DEF cur
      <4> QED
        BY <4>2 DEF StepType
    <3> QED
      BY <1>1, <1>3, <3>1 DEF DISPATCH, sof_now
  <2> QED
    <3>1. 0 \in 0..(IdxRange - 1)
      OBVIOUS
    <3> QED
      BY <1>1, <1>3, <2>1, <3>1 DEF DISPATCH
<1>4. CASE SendWait
  BY <1>1, <1>4 DEF SendWait
<1>5. CASE SendByte
  <2>1. idx' \in 0..(IdxRange - 1)
    BY <1>5 DEF SendByte
  <2> QED
    BY <1>1, <1>5, <2>1 DEF SendByte
<1>6. CASE SOF_GAP
  BY <1>1, <1>6 DEF SOF_GAP
<1>7. CASE AWAIT
  <2>1. UNCHANGED <<nak_seen, sending_sof>> /\ sof_due' \in BOOLEAN
    BY <1>1, <1>7 DEF AWAIT
  <2>2. idx' \in 0..(IdxRange - 1) /\ mismatch' \in BOOLEAN
    <3>1. idx' \in {idx, 0} /\ mismatch' \in {mismatch, FALSE}
      BY <1>7 DEF AWAIT
    <3>2. 0 \in 0..(IdxRange - 1)
      OBVIOUS
    <3> QED
      BY <3>1, <3>2
  <2>3. CASE fault("timeouts")
    BY <1>1, <2>1, <2>2, <2>3, FaultKeeps
  <2>4. CASE UNCHANGED seqVars /\ timer' \in {timer, timer + 1} /\ outcome' = "none"
    BY <1>1, <2>1, <2>2, <2>4
  <2> QED
    BY <1>7, <2>3, <2>4 DEF AWAIT
<1>8. CASE RECEIVE
  <2>1. /\ UNCHANGED sending_sof /\ sof_due' \in BOOLEAN /\ idx' \in 0..(IdxRange - 1)
        /\ mismatch' \in BOOLEAN /\ nak_seen' \in BOOLEAN
    <3>1. idx' \in 0..(IdxRange - 1)
      BY <1>8 DEF RECEIVE, Compare
    <3>2. mismatch' \in BOOLEAN /\ nak_seen' \in BOOLEAN
      <4>1. mismatch' = (mismatch \/ (rx_valid # NoData /\ wrong_byte) \/ rx_error)
            /\ nak_seen' = (nak_seen \/ (rx_valid # NoData /\ idx = 0 /\ rx_valid = NAK))
        BY <1>8 DEF RECEIVE, Compare
      <4> QED
        BY <4>1 DEF Receiver
    <3> QED
      BY <1>1, <1>8, <3>1, <3>2 DEF RECEIVE
  <2>2. CASE fault("bad")
    BY <1>1, <2>1, <2>2, FaultKeeps
  <2>3. CASE /\ UNCHANGED <<hold_target, gap_target>> /\ faults' \in {0, faults}
             /\ timer' \in {0, timer} /\ outcome' \in {"none", "ok", "naks"}
    BY <1>1, <2>1, <2>3
  <2> QED
    BY <1>8, <2>2, <2>3 DEF RECEIVE, Judge
<1>9. CASE RETRY
  BY <1>1, <1>9 DEF RETRY
<1>10. CASE ADVANCE
  <2>1. cur.gap \in Nat
    BY <1>10, CurType DEF ADVANCE, Phase
  <2> QED
    BY <1>1, <1>10, <2>1 DEF ADVANCE, next_gap
<1>11. CASE GAP
  BY <1>1, <1>11 DEF GAP
<1> QED
  BY <1>2, <1>3, <1>4, <1>5, <1>6, <1>7, <1>8, <1>9, <1>10, <1>11 DEF Cycle

\* so they stay there.
LEMMA RegistersInvariant == Spec => [](Phase /\ Registers /\ Receiver)
<1>1. Init => Phase /\ Registers /\ Receiver
  <2> SUFFICES ASSUME Init PROVE Registers /\ Receiver
    BY PhaseInit
  <2>1. Receiver
    BY DEF Init, UtmiInit, Receiver
  <2>2. idx \in 0..(IdxRange - 1) /\ faults \in 0..(max_faults - 1)
    BY TimingAssumption DEF Init
  <2> QED
    BY <2>1, <2>2 DEF Init, Registers
<1>2. Phase /\ Registers /\ Receiver /\ [Next]_vars => (Phase /\ Registers /\ Receiver)'
  <2> SUFFICES ASSUME Phase, Registers, Receiver, [Next]_vars PROVE (Registers /\ Receiver)'
    BY PhaseNext
  <2>1. CASE Next
    <3>1. Receiver'
      BY <2>1 DEF Next, Background, UtmiNext, Quiescent, Open, Receive, Close, Receiver
    <3> QED
      BY <2>1, <3>1, RegistersNext DEF Next
  <2>2. CASE UNCHANGED vars
    BY <2>2 DEF vars, seqVars, rxRegs, utmiVars, Registers, Receiver
  <2> QED
    BY <2>1, <2>2
<1> QED
  BY <1>1, <1>2, PTL DEF Spec

(* Every register of the host keeps to its set, for every script and every *)
(* timing (the signals of usb2soft/hostlite.py): idx to its width, step to *)
(* the script.                                                             *)
THEOREM TypeCorrect == Spec => []TypeOK
<1>1. Phase /\ Registers /\ Receiver => TypeOK
  <2> SUFFICES ASSUME Phase, Registers, Receiver PROVE TypeOK
    OBVIOUS
  <2>1. step \in 1..n_steps \/ (step = n_steps + 1 /\ state = "GAP")
    BY ScriptFacts DEF Phase, MayGo, InScript
  <2> QED
    BY <2>1 DEF Phase, Registers, Receiver, TypeOK
<1> QED
  BY <1>1, RegistersInvariant, PTL

-----------------------------------------------------------------------------

\* Behind such a packet the host itself has to leave room for the next one.
NoReplyBehind == last = 0 \/ Script[last].expect = EXPECT_NONE

\* At least n cycles, or more than the history counts.
Rested(n) == quiet >= n \/ quiet = MaxQuiet

\* What each state knows of the silence so far.
Silence ==
  /\ quiet \in 0..MaxQuiet
  /\ state \in {"AWAIT", "RECEIVE", "RETRY"} => cur.expect # EXPECT_NONE
  /\ state = "HOLD" => Rested(timer)
  /\ state = "HOLD" /\ last = 0 => quiet = MaxQuiet
  /\ state = "HOLD" /\ last # 0 => ~NoReplyBehind /\ hold_target = restart_delay - 1
  /\ state = "SOF_GAP" => Rested(timer)
  /\ state = "GAP" /\ NoReplyBehind => Rested(timer + 1) /\ gap_target >= 8
  /\ state = "DISPATCH" /\ NoReplyBehind => Rested(10)

\* A silent cycle more.
LEMMA SilentCycle ==
  ASSUME quiet \in 0..MaxQuiet, Silent
  PROVE  /\ quiet' \in 0..MaxQuiet
         /\ \A n \in Int : Rested(n) => quiet' >= n + 1 \/ quiet' = MaxQuiet
         /\ quiet = MaxQuiet => quiet' = MaxQuiet
  BY TimingAssumption DEF Silent, Rested

\* No restart is under way at first.
LEMMA SilenceInit == Init => Silence
  BY TimingAssumption DEF Init, Silence, Rested

\* A fault while a reply is awaited keeps the silence.
LEMMA FaultSilence ==
  ASSUME Phase, Silence, state \in {"AWAIT", "RECEIVE"}, NEW counter, fault(counter),
         last' = last, Silent
  PROVE  Silence'
<1>1. last = step /\ last # 0 /\ ~NoReplyBehind
  BY ScriptFacts DEF Phase, Silence, NoReplyBehind, cur, InScript
<1>2. ~NoReplyBehind'
  BY <1>1 DEF NoReplyBehind
<1>3. quiet' \in 0..MaxQuiet
  BY SilentCycle DEF Silence
<1>4. timer' = 0 /\ (state' = "GAP" \/ (state' = "HOLD" /\ hold_target' = restart_delay - 1))
  BY DEF fault, last_fault, restart_hold
<1> QED
  BY <1>1, <1>2, <1>3, <1>4, TimingAssumption DEF Silence, Rested

\* The timer counts the silence of a restart,
LEMMA SilenceNext == Phase /\ Registers /\ Silence /\ [Next]_vars => Silence'
<1> SUFFICES ASSUME Phase, Registers, Silence, [Next]_vars PROVE Silence'
  OBVIOUS
<1>a. /\ quiet \in 0..MaxQuiet /\ timer \in Nat /\ gap_target \in Nat
      /\ MaxQuiet \in Nat /\ MaxQuiet >= 11
  BY TimingAssumption DEF Silence, Registers
<1>1. CASE HOLD
  <2>1. Silent /\ UNCHANGED <<seqVars, last>> /\ state = "HOLD"
    BY <1>1 DEF HOLD
  <2>2. CASE state' = "DISPATCH"
    <3>1. NoReplyBehind => quiet = MaxQuiet
      BY <2>1 DEF Silence
    <3> QED
      BY <1>a, <2>1, <2>2, <3>1, SilentCycle DEF Silence, Rested, NoReplyBehind
  <2>3. CASE Tick
    <3>1. timer' = timer + 1 /\ state' = "HOLD"
      BY <2>1, <2>3 DEF Tick
    <3>2. Rested(timer) /\ timer \in Int
      BY <1>a, <2>1 DEF Silence
    <3>3. quiet' >= timer + 1 \/ quiet' = MaxQuiet
      BY <1>a, <2>1, <3>2, SilentCycle
    <3>4. quiet' \in 0..MaxQuiet /\ (quiet = MaxQuiet => quiet' = MaxQuiet)
      BY <1>a, <2>1, SilentCycle
    <3> QED
      BY <2>1, <3>1, <3>3, <3>4 DEF Silence, Rested, NoReplyBehind, seqVars
  <2> QED
    BY <1>1, <2>2, <2>3 DEF HOLD
<1>2. CASE DISPATCH
  <2>1. quiet' \in 0..MaxQuiet /\ state' = "SEND"
    BY <1>a, <1>2, SilentCycle DEF DISPATCH
  <2> QED
    BY <2>1 DEF Silence
<1>3. CASE SendWait
  BY <1>3, <1>a DEF SendWait, Silence
<1>4. CASE SendByte
  <2>1. quiet' = 0 /\ UNCHANGED <<seqVars, sending_sof>>
    BY <1>4 DEF SendByte
  <2>2. \/ state' = "SEND" \/ state' = "ADVANCE"
        \/ state' = "SOF_GAP" /\ timer' = 0
        \/ state' = "AWAIT" /\ cur.expect # EXPECT_NONE
    BY <1>4 DEF SendByte
  <2> QED
    BY <1>a, <2>1, <2>2 DEF Silence, Rested, cur, seqVars
<1>5. CASE SOF_GAP
  <2>1. Silent /\ UNCHANGED <<seqVars, last>> /\ Rested(timer)
    BY <1>5 DEF SOF_GAP, Silence
  <2>2. /\ quiet' \in 0..MaxQuiet
        /\ quiet' >= timer + 1 \/ quiet' = MaxQuiet
    BY <1>a, <2>1, SilentCycle
  <2>3. CASE timer = 15 /\ state' = "DISPATCH"
    BY <1>a, <2>2, <2>3 DEF Silence, Rested
  <2>4. CASE Tick
    BY <1>5, <2>2, <2>4 DEF Silence, Rested, SOF_GAP, Tick
  <2> QED
    BY <1>5, <2>3, <2>4 DEF SOF_GAP
<1>6. CASE AWAIT
  <2>1. Silent /\ last' = last /\ state = "AWAIT"
    BY <1>6 DEF AWAIT
  <2>2. CASE fault("timeouts")
    BY <2>1, <2>2, FaultSilence
  <2>3. CASE UNCHANGED seqVars /\ state' \in {"AWAIT", "RECEIVE"}
    BY <1>a, <2>1, <2>3, SilentCycle DEF Silence, cur, seqVars
  <2> QED
    BY <1>6, <2>2, <2>3 DEF AWAIT, Tick
<1>7. CASE RECEIVE
  <2>1. Silent /\ last' = last /\ state = "RECEIVE"
    BY <1>7 DEF RECEIVE
  <2>2. CASE fault("bad")
    BY <2>1, <2>2, FaultSilence
  <2>3. CASE step' = step /\ state' \in {"ADVANCE", "RETRY", "RECEIVE"}
    BY <1>a, <2>1, <2>3, SilentCycle DEF Silence, cur
  <2> QED
    BY <1>7, <2>2, <2>3 DEF RECEIVE, Judge, seqVars
<1>8. CASE RETRY
  <2>1. Silent /\ last' = last /\ last = step /\ cur.expect # EXPECT_NONE /\ step # 0
    BY <1>8, ScriptFacts DEF RETRY, Phase, Silence, InScript
  <2>2. ~NoReplyBehind'
    BY <2>1 DEF NoReplyBehind, cur
  <2>3. state' = "DISPATCH" \/ (state' = "RETRY" /\ step' = step)
    BY <1>8 DEF RETRY, Tick
  <2> QED
    BY <1>a, <2>1, <2>2, <2>3, SilentCycle DEF Silence, cur
<1>9. CASE ADVANCE
  <2>1. /\ Silent /\ last' = last /\ last = step /\ InScript(step)
        /\ state' = "GAP" /\ timer' = 0 /\ gap_target' = cur.gap
    BY <1>9 DEF ADVANCE, Phase, next_gap
  <2>2. NoReplyBehind => cur.gap >= 8
    <3>1. step # 0
      BY <2>1, ScriptFacts DEF InScript
    <3> QED
      BY <2>1, <3>1, CurType DEF NoReplyBehind, cur
  <2>3. Rested(0)
    BY <1>a DEF Rested
  <2>4. quiet' \in 0..MaxQuiet /\ (quiet' >= 1 \/ quiet' = MaxQuiet)
    BY <1>a, <2>1, <2>3, SilentCycle
  <2> QED
    BY <2>1, <2>2, <2>4 DEF Silence, Rested, NoReplyBehind
<1>10. CASE GAP
  <2>1. Silent /\ last' = last /\ UNCHANGED gap_target /\ state = "GAP"
    BY <1>10 DEF GAP
  <2>2. NoReplyBehind => gap_target >= 8 /\ Rested(timer + 1)
    BY <2>1 DEF Silence
  <2>3. NoReplyBehind => quiet' >= timer + 2 \/ quiet' = MaxQuiet
    <3>1. timer + 1 \in Int
      BY <1>a
    <3>2. NoReplyBehind => quiet' >= (timer + 1) + 1 \/ quiet' = MaxQuiet
      BY <1>a, <2>1, <2>2, <3>1, SilentCycle
    <3> QED
      BY <1>a, <3>2
  <2>4. quiet' \in 0..MaxQuiet
    BY <1>a, <2>1, SilentCycle
  <2>5. CASE timer >= gap_target /\ state' = "DISPATCH"
    BY <1>a, <2>1, <2>2, <2>3, <2>4, <2>5 DEF Silence, Rested, NoReplyBehind
  <2>6. CASE Tick
    BY <1>a, <2>1, <2>2, <2>3, <2>4, <2>6 DEF Silence, Rested, NoReplyBehind, Tick
  <2> QED
    BY <1>10, <2>5, <2>6 DEF GAP
<1>11. CASE UNCHANGED vars
  BY <1>11 DEF vars, seqVars, histVars, Silence, Rested, NoReplyBehind, cur
<1> QED
  BY <1>1, <1>2, <1>3, <1>4, <1>5, <1>6, <1>7, <1>8, <1>9, <1>10, <1>11 DEF Next, Cycle

\* at all times.
LEMMA SilenceInvariant == Spec => [](Phase /\ Registers /\ Silence)
  BY RegistersInvariant, SilenceInit, SilenceNext, PTL DEF Spec

(* Behind a packet no reply answers the host rests at least 11 cycles, 88  *)
(* bit times, whatever came between: SOFs, faults, restarts (the gap       *)
(* latched in ADVANCE and the one behind an SOF).                          *)
THEOREM GapsKept == Spec => GapKept
<1>1. Phase /\ Registers /\ Silence /\ [Next]_vars =>
        [state = "DISPATCH" /\ state' = "SEND" /\ (last = 0 \/ Script[last].expect = EXPECT_NONE)
           => quiet' >= 11]_vars
  <2> SUFFICES ASSUME Silence, Next, state = "DISPATCH", NoReplyBehind PROVE quiet' >= 11
    BY DEF NoReplyBehind
  <2>1. Silent
    BY DEF Next, Cycle, HOLD, DISPATCH, SendWait, SendByte, SOF_GAP, AWAIT, RECEIVE, RETRY,
           ADVANCE, GAP
  <2>2. Rested(10) /\ quiet \in 0..MaxQuiet
    BY DEF Silence
  <2> QED
    BY <2>1, <2>2, SilentCycle, TimingAssumption
<1> QED
  BY <1>1, SilenceInvariant, PTL DEF Spec, GapKept

(* After too many faults nothing is sent for the restart delay, and then   *)
(* the script begins at its first packet (fault and HOLD).                 *)
THEOREM RestartsAreSilent == Spec => SilentRestart
<1>1. Phase /\ Registers /\ Silence /\ [Next]_vars =>
        [state = "HOLD" /\ state' = "DISPATCH" /\ last # 0
           => quiet' >= restart_delay /\ step = 1]_vars
  <2> SUFFICES ASSUME Phase, Registers, Silence, Next,
                      state = "HOLD", state' = "DISPATCH", last # 0
               PROVE  quiet' >= restart_delay /\ step = 1
    OBVIOUS
  <2>1. HOLD
    BY DEF Next, Cycle, HOLD, DISPATCH, SendWait, SendByte, SOF_GAP, AWAIT, RECEIVE, RETRY,
           ADVANCE, GAP
  <2>2. timer = hold_target /\ Silent
    BY <2>1 DEF HOLD, Tick
  <2>3. hold_target = restart_delay - 1 /\ Rested(timer) /\ quiet \in 0..MaxQuiet /\ step = 1
    BY DEF Silence, Phase
  <2>4. quiet' >= timer + 1 \/ quiet' = MaxQuiet
    BY <2>2, <2>3, SilentCycle, TimingAssumption
  <2> QED
    BY <2>2, <2>3, <2>4, TimingAssumption
<1> QED
  BY <1>1, SilenceInvariant, PTL DEF Spec, SilentRestart
=============================================================================
