------------------------------ MODULE HostLite ------------------------------
(***************************************************************************)
(* The script-driven host of usb2soft/hostlite.py.  A step is a cycle of   *)
(* the usb clock; the PHY in front of the host is its environment: it may  *)
(* take a byte in any cycle (tx_ready), and its receive signals follow     *)
(* UTMIReceive, with any packet at any time.                               *)
(*                                                                         *)
(* A packet to send is its length, a byte one of a few values.  The        *)
(* statistics counters are represented by outcome, which counter this      *)
(* cycle has counted up.  The SOF timer ticks at any time.                 *)
(***************************************************************************)
EXTENDS UTMIReceive, Integers, Sequences

CONSTANTS Script,        \* the steps, see StepType
          ACK, NAK,      \* first byte of these handshakes
          start_delay, restart_delay, reply_timeout, max_faults,
          retry_delay,   \* cycles before a transaction is repeated after a NAK (64)
          IdxRange,      \* idx counts modulo this (2^7)
          MaxQuiet, MaxGot \* bounds on the histories quiet and got

EXPECT_NONE == 0
EXPECT_ACK == 1
EXPECT_DATA == 2

Step(length, expect, reply, txn_start) ==
  [length |-> length, expect |-> expect, reply |-> reply, txn |-> txn_start,
   target |-> 0, gap |-> IF expect = EXPECT_NONE THEN 16 ELSE 4]

\* GET_DESCRIPTOR: a SETUP, an IN and an OUT transaction.
get_descriptor(descriptor) ==
  << Step(2, EXPECT_NONE, <<>>, TRUE), Step(3, EXPECT_ACK, <<>>, FALSE),
     Step(2, EXPECT_DATA, descriptor, TRUE), Step(1, EXPECT_NONE, <<>>, FALSE),
     Step(2, EXPECT_NONE, <<>>, TRUE), Step(2, EXPECT_ACK, <<>>, FALSE) >>

set_address(status) ==
  << Step(2, EXPECT_NONE, <<>>, TRUE), Step(3, EXPECT_ACK, <<>>, FALSE),
     Step(2, EXPECT_DATA, status, TRUE), Step(1, EXPECT_NONE, <<>>, FALSE) >>

\* The default script; target is the step a loop goes on with, 0 for the next one.
enumeration_script(descriptor, status) ==
  LET steps == get_descriptor(descriptor) \o set_address(status) \o get_descriptor(descriptor)
  IN  [steps EXCEPT ![Len(steps)].target = 11]

StepType ==
  [length : Nat \ {0}, expect : {EXPECT_NONE, EXPECT_ACK, EXPECT_DATA}, reply : Seq(Bytes),
   txn : BOOLEAN, target : 0..Len(Script), gap : Nat]

\* A step that is not a token follows one; a reply fits idx; the machine adds three
\* cycles to the gap asked for behind a packet without a reply.
ASSUME ScriptAssumption ==
  /\ Script \in Seq(StepType) /\ Len(Script) > 0 /\ Script[1].txn
  /\ \A i \in DOMAIN Script :
       /\ Script[i].length <= IdxRange
       /\ Len(Script[i].reply) < IdxRange /\ Len(Script[i].reply) < MaxGot
       /\ ~Script[i].txn => Script[i - 1].txn
       /\ (Script[i].target # 0) => Script[Script[i].target].txn
       /\ (Script[i].expect = EXPECT_NONE) => Script[i].gap >= 8
ASSUME TimingAssumption ==
  /\ start_delay \in Nat \ {0} /\ restart_delay \in Nat \ {0}
  /\ reply_timeout \in Nat \ {0} /\ max_faults \in Nat \ {0}
  /\ retry_delay \in Nat \ {0} /\ IdxRange \in Nat \ {0, 1}
  /\ MaxQuiet \in Nat /\ MaxQuiet >= 11 /\ MaxQuiet >= restart_delay
  /\ MaxGot \in Nat \ {0, 1}
ASSUME HandshakeAssumption == ACK \in Bytes /\ NAK \in Bytes /\ ACK # NAK /\ NoData \notin Bytes

VARIABLES state, step, idx, timer, hold_target, gap_target, faults,
          mismatch, nak_seen, sending_sof, sof_due, rx_prev_active,
          outcome, \* none, or the counter counted up: ok, bad, timeouts, naks
          last,    \* history: the step last sent whole, 0 for an SOF or nothing
          quiet,   \* history: cycles since the host sent a byte, up to MaxQuiet
          got      \* history: bytes since AWAIT saw the reply begin, up to MaxGot

seqVars == <<step, hold_target, gap_target, faults>>
rxRegs == <<idx, mismatch, nak_seen>>
histVars == <<last, quiet, got>>
vars == <<state, seqVars, rxRegs, timer, sending_sof, sof_due, rx_prev_active, outcome,
          histVars, utmiVars>>

cur == Script[step]
n_steps == Len(Script)
rx_end == rx_prev_active /\ ~rx_active

Init ==
  /\ state = "HOLD" /\ step = 1 /\ idx = 0 /\ timer = 0
  /\ hold_target = start_delay - 1 /\ gap_target = 16 /\ faults = 0
  /\ mismatch = FALSE /\ nak_seen = FALSE /\ sending_sof = FALSE /\ sof_due = FALSE
  /\ rx_prev_active = FALSE /\ outcome = "none"
  /\ last = 0 /\ quiet = MaxQuiet /\ got = <<>>
  /\ UtmiInit

\* What every cycle does besides the state machine: the PHY and the edge detector.
Background == UtmiNext /\ rx_prev_active' = rx_active

\* The SOF timer may tick.
SofTick == sof_due' \in {sof_due, TRUE}

Silent == quiet' = IF quiet < MaxQuiet THEN quiet + 1 ELSE quiet

\* Retry the whole transaction, token and data.
fault_step == IF cur.txn THEN step ELSE step - 1

\* Mutant of restart_hold: a restart waits no longer than a missing reply takes.
restart_hold_Reply == reply_timeout - 1
restart_hold == restart_delay - 1

last_fault == faults = max_faults - 1

fault(counter) ==
  /\ outcome' = counter /\ timer' = 0 /\ gap_target' = 16
  /\ \/ /\ last_fault
        /\ faults' = 0 /\ step' = 1 /\ hold_target' = restart_hold /\ state' = "HOLD"
     \/ /\ ~last_fault
        /\ faults' = faults + 1 /\ step' = fault_step /\ state' = "GAP"
        /\ UNCHANGED hold_target

NoCount == outcome' = "none" /\ got' = <<>>
Tick == timer' = timer + 1 /\ UNCHANGED state

HOLD ==
  /\ state = "HOLD" /\ SofTick /\ Silent /\ NoCount
  /\ \/ timer = hold_target /\ timer' = 0 /\ idx' = 0 /\ state' = "DISPATCH"
     \/ timer # hold_target /\ Tick /\ UNCHANGED idx
  /\ UNCHANGED <<seqVars, mismatch, nak_seen, sending_sof, last>>

\* Mutant of sof_now: an SOF may go between a token and its data.
sof_now_Anywhere == sof_due
\* Mutant of sof_now: SOFs go only where the script begins.
sof_now_FirstStep == sof_due /\ step = 1
sof_now == sof_due /\ cur.txn

\* A tick in the cycle that clears sof_due is lost: the later assignment wins.
DISPATCH ==
  /\ state = "DISPATCH" /\ Silent /\ NoCount
  /\ idx' = 0 /\ mismatch' = FALSE /\ nak_seen' = FALSE /\ timer' = 0
  /\ sending_sof' = sof_now /\ (IF sof_now THEN sof_due' = FALSE ELSE SofTick)
  /\ state' = "SEND"
  /\ UNCHANGED <<seqVars, last>>

length == IF sending_sof THEN 3 ELSE cur.length

\* The PHY does not take the byte in this cycle.
SendWait ==
  /\ state = "SEND" /\ SofTick /\ NoCount /\ quiet' = 0
  /\ UNCHANGED <<state, seqVars, rxRegs, timer, sending_sof, last>>

\* It does; after the last byte of the packet the host goes on.
SendByte ==
  /\ state = "SEND" /\ SofTick /\ NoCount /\ quiet' = 0
  /\ \/ /\ idx # length - 1
        /\ idx' = (idx + 1) % IdxRange /\ UNCHANGED <<state, timer, last>>
     \/ /\ idx = length - 1
        /\ idx' = 0 /\ timer' = 0
        /\ last' = IF sending_sof THEN 0 ELSE step
        /\ state' = IF sending_sof THEN "SOF_GAP"
                    ELSE IF cur.expect = EXPECT_NONE THEN "ADVANCE" ELSE "AWAIT"
  /\ UNCHANGED <<seqVars, mismatch, nak_seen, sending_sof>>

SOF_GAP ==
  /\ state = "SOF_GAP" /\ SofTick /\ Silent /\ NoCount
  /\ \/ timer = 15 /\ state' = "DISPATCH" /\ UNCHANGED timer
     \/ timer # 15 /\ Tick
  /\ UNCHANGED <<seqVars, rxRegs, sending_sof, last>>

\* The reply begins, or is late.
AWAIT ==
  /\ state = "AWAIT" /\ SofTick /\ Silent
  /\ \/ /\ rx_active
        /\ idx' = 0 /\ mismatch' = FALSE /\ state' = "RECEIVE"
        /\ got' = <<>> /\ outcome' = "none" /\ UNCHANGED <<seqVars, timer>>
     \/ /\ ~rx_active /\ timer = reply_timeout - 1
        /\ fault("timeouts") /\ got' = <<>> /\ UNCHANGED <<idx, mismatch>>
     \/ /\ ~rx_active /\ timer # reply_timeout - 1
        /\ Tick /\ NoCount /\ UNCHANGED <<seqVars, idx, mismatch>>
  /\ UNCHANGED <<nak_seen, sending_sof, last>>

expected == IF idx < Len(cur.reply) THEN cur.reply[idx + 1] ELSE NoData

\* Mutant of wrong_byte: a reply that goes on after its last byte is not noticed.
wrong_byte_NoLength ==
  IF cur.expect = EXPECT_ACK THEN rx_valid # ACK
  ELSE idx < Len(cur.reply) /\ rx_valid # expected
wrong_byte ==
  IF cur.expect = EXPECT_ACK THEN idx # 0 \/ rx_valid # ACK
  ELSE idx >= Len(cur.reply) \/ rx_valid # expected

\* A cycle of the reply: a byte is compared, an error noted, whatever else happens.
Compare ==
  LET byte == rx_valid # NoData
  IN  /\ idx' = IF byte THEN (idx + 1) % IdxRange ELSE idx
      /\ mismatch' = (mismatch \/ (byte /\ wrong_byte) \/ rx_error)
      /\ nak_seen' = (nak_seen \/ (byte /\ idx = 0 /\ rx_valid = NAK))
      /\ got' = IF rx_end THEN <<>>
                ELSE IF byte /\ Len(got) < MaxGot THEN Append(got, rx_valid) ELSE got

ok_len == IF cur.expect = EXPECT_ACK THEN idx = 1 ELSE idx = Len(cur.reply)

\* The end of the reply judges it by the registers as they are before this cycle.
Judge ==
  \/ /\ ~mismatch /\ ok_len
     /\ outcome' = "ok" /\ faults' = 0 /\ timer' = 0 /\ state' = "ADVANCE"
     /\ UNCHANGED <<step, hold_target, gap_target>>
  \/ /\ ~(~mismatch /\ ok_len) /\ nak_seen /\ idx = 1
     /\ outcome' = "naks" /\ timer' = 0 /\ state' = "RETRY" /\ UNCHANGED seqVars
  \/ /\ ~(~mismatch /\ ok_len) /\ ~(nak_seen /\ idx = 1)
     /\ fault("bad")

RECEIVE ==
  /\ state = "RECEIVE" /\ SofTick /\ Silent /\ Compare
  /\ \/ rx_end /\ Judge
     \/ ~rx_end /\ outcome' = "none" /\ UNCHANGED <<state, seqVars, timer>>
  /\ UNCHANGED <<sending_sof, last>>

\* NAK: the transaction is repeated from its token step.
RETRY ==
  /\ state = "RETRY" /\ SofTick /\ Silent /\ NoCount
  /\ \/ timer = retry_delay - 1 /\ timer' = 0 /\ step' = fault_step /\ state' = "DISPATCH"
     \/ timer # retry_delay - 1 /\ Tick /\ UNCHANGED step
  /\ UNCHANGED <<hold_target, gap_target, faults, rxRegs, sending_sof, last>>

\* Mutant of next_gap: the gap of the step that comes instead of the one sent.
next_gap_OfNext == Script[IF cur.target # 0 THEN cur.target ELSE (step % n_steps) + 1].gap
\* The gap is latched here, before step changes.
next_gap == cur.gap

ADVANCE ==
  /\ state = "ADVANCE" /\ SofTick /\ Silent /\ NoCount
  /\ gap_target' = next_gap /\ timer' = 0 /\ state' = "GAP"
  /\ step' = IF cur.target # 0 THEN cur.target ELSE step + 1
  /\ UNCHANGED <<hold_target, faults, rxRegs, sending_sof, last>>

GAP ==
  /\ state = "GAP" /\ SofTick /\ Silent /\ NoCount
  /\ \/ /\ timer >= gap_target /\ timer' = 0 /\ state' = "DISPATCH"
        /\ step' = IF step = n_steps + 1 THEN 1 ELSE step
     \/ timer < gap_target /\ Tick /\ UNCHANGED step
  /\ UNCHANGED <<hold_target, gap_target, faults, rxRegs, sending_sof, last>>

Cycle ==
  \/ HOLD \/ DISPATCH \/ SendWait \/ SendByte \/ SOF_GAP \/ AWAIT \/ RECEIVE \/ RETRY
  \/ ADVANCE \/ GAP

Next == Cycle /\ Background

Spec == Init /\ [][Next]_vars

\* The clock runs, the PHY takes bytes, and a packet that is received ends.
FairSpec ==
  /\ Spec /\ WF_vars(Next)
  /\ WF_vars(SendByte /\ Background) /\ WF_vars(Cycle /\ Background /\ Close)

-----------------------------------------------------------------------------

TypeOK ==
  /\ state \in {"HOLD", "DISPATCH", "SEND", "SOF_GAP", "AWAIT", "RECEIVE", "RETRY",
                 "ADVANCE", "GAP"}
  /\ step \in 1..n_steps \/ (step = n_steps + 1 /\ state = "GAP")
  /\ idx \in 0..(IdxRange - 1) /\ timer \in Nat
  /\ hold_target \in {start_delay - 1, restart_delay - 1} /\ gap_target \in Nat
  /\ faults \in 0..(max_faults - 1)
  /\ {mismatch, nak_seen, sending_sof, sof_due, rx_prev_active, rx_active, rx_error}
       \subseteq BOOLEAN
  /\ outcome \in {"none", "ok", "bad", "timeouts", "naks"}
  /\ rx_valid \in Bytes \cup {NoData}

(* A packet that is not a token is sent only right behind the token the script
   has before it: no SOF in between, and never alone after a timeout, a bad
   reply, a NAK or a restart. *)
DataFollowsToken ==
  state = "SEND" /\ ~sending_sof /\ ~cur.txn => last = step - 1

(* Between two packets of the host without a reply in between the bus rests at
   least 88 bit times, 11 cycles; after a reply the gap is the host's own. *)
GapKept ==
  [][state = "DISPATCH" /\ state' = "SEND" /\ (last = 0 \/ Script[last].expect = EXPECT_NONE)
       => quiet' >= 11]_vars

(* After too many faults the host is silent for the restart delay, long enough
   for the device to notice, before it sends the script's first packet; only
   at power-up, when nothing has been sent, may the delay be another. *)
SilentRestart ==
  [][state = "HOLD" /\ state' = "DISPATCH" /\ last # 0
       => quiet' >= restart_delay /\ step = 1]_vars

(* A reply counts as matched only if the bytes received since the host began
   to listen are exactly the expected ones, not one more or less. *)
OkMeansMatch ==
  [][outcome' = "ok" /\ outcome = "none" =>
       got = (IF cur.expect = EXPECT_ACK THEN <<ACK>> ELSE cur.reply)]_vars

(* SOFs keep flowing, whatever the device answers. *)
SofFlows == sof_due ~> (state = "SEND" /\ sending_sof)

(* What usb2soft/rx/bridge.py says of a packet with an error, "the packet is
   already bad": a reply that ends in rx_error is not one that matched. *)
ErrorIsNoMatch == [][outcome' = "ok" /\ outcome = "none" => ~rx_error]_vars
=============================================================================
