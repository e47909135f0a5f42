------------------------------ MODULE LinkTest ------------------------------
(***************************************************************************)
(* The packet generator and checker of usb2soft/applets/link_test.py, with *)
(* the transmit path, the wire and the receive path between them as a link *)
(* that delivers, loses, damages or makes up packets.  A step is a cycle   *)
(* of the usb clock of one of the two (their registers are disjoint); the  *)
(* receive signals follow UTMIReceive, one packet at a time.               *)
(*                                                                         *)
(* Bytes are numbers; the generator's registers have a g_ prefix where the *)
(* checker has one of the same name.                                       *)
(***************************************************************************)
EXTENDS UTMIReceive, Integers, Sequences, FiniteSets

CONSTANTS LENGTHS,    \* payload lengths, in turn (8, 64, 512)
          gap_cycles, \* idle cycles between packets, less one
          FirstSeqs,  \* packets sent before anything was received
          MaxPackets, \* bound on the packets sent from then on
          Errors,     \* by how much a damaged byte may be off
          Noise       \* packets the receiver may make up, too short to be one of the generator's

\* A byte and a sixteen-bit register.
Octet == 0..255
Word == 0..65535

ASSUME LengthsAssumption ==
  /\ LENGTHS \in Seq(Nat) /\ Len(LENGTHS) > 0 /\ gap_cycles \in Nat
  /\ \A i \in DOMAIN LENGTHS : LENGTHS[i] > 0 /\ LENGTHS[i] < 1024
ASSUME ByteAssumption == Bytes = Octet /\ NoData \notin Bytes
ASSUME LinkAssumption ==
  /\ MaxPackets \in Nat
  /\ \A number \in FirstSeqs : number \in Nat /\ number < 65536
  /\ \A error \in Errors : error \in Nat /\ error > 0 /\ error < 256
  /\ \A bytes \in Noise : bytes \in Seq(Bytes) /\ Len(bytes) < 4

VARIABLES g_state, g_seq, length_sel, remaining, g_lfsr, g_f1, g_f2, gap, packets,
          prev_active, count, seq, expect_seq, have_expect, lfsr, f1, f2,
          mismatch, last2, counted, \* counted: the counters counted up by this cycle
          sending,   \* the bytes handed over of the packet being sent
          carried,   \* packets on the link
          incoming,  \* bytes of the packet being received still to come
          fate,      \* history: what the link did to it
          origin,    \* history: its number, 0 for none
          last_good  \* history: the number of the last good packet, 0 for none

genVars == <<g_state, g_seq, length_sel, remaining, g_lfsr, g_f1, g_f2, gap, packets, sending>>
chkVars == <<prev_active, count, seq, expect_seq, have_expect, lfsr, f1, f2, mismatch, last2,
             counted, last_good>>
linkVars == <<incoming, fate, origin, utmiVars>>
linkTestVars == <<genVars, chkVars, linkVars, carried>>

\* A register's bits by their values.
BitAt(state, v) == (state \div v) % 2

lfsr_step(state) ==
  state \div 2 + 32768 * ((BitAt(state, 1) + BitAt(state, 4) + BitAt(state, 8) + BitAt(state, 32)) % 2)

\* s & 0x5A5A
Common(s) ==
  2 * BitAt(s, 2) + 8 * BitAt(s, 8) + 16 * BitAt(s, 16) + 64 * BitAt(s, 64)
    + 512 * BitAt(s, 512) + 2048 * BitAt(s, 2048) + 4096 * BitAt(s, 4096) + 16384 * BitAt(s, 16384)

\* (s ^ 0x5A5A) | 0x8000: the bits in common are taken away, the others come in.
lfsr_seed(s) == 32768 + ((s + 23130 - 2 * Common(s)) % 32768)

LinkInit ==
  /\ g_state = "GAP" /\ g_seq \in FirstSeqs /\ length_sel = g_seq % Len(LENGTHS)
  /\ remaining = 0 /\ g_lfsr = 0 /\ g_f1 = 0 /\ g_f2 = 0 /\ gap = 0 /\ packets = 0
  /\ prev_active = FALSE /\ count = 0 /\ seq = 0 /\ expect_seq = 0 /\ have_expect = FALSE
  /\ lfsr = 0 /\ f1 = 0 /\ f2 = 0 /\ mismatch = FALSE /\ last2 = <<0, 0>> /\ counted = {}
  /\ sending = <<>> /\ carried = <<>> /\ incoming = <<>>
  /\ fate = "none" /\ origin = 0 /\ last_good = 0
  /\ UtmiInit

\* ---- generator: a cycle in which the transmit path takes the byte ----

Gap ==
  /\ g_state = "GAP" /\ packets < MaxPackets
  /\ \/ /\ gap # gap_cycles /\ gap' = gap + 1
        /\ UNCHANGED <<g_state, remaining, g_lfsr, g_f1, g_f2>>
     \/ /\ gap = gap_cycles /\ gap' = 0 /\ g_state' = "SEQ_LO"
        /\ remaining' = LENGTHS[length_sel + 1] /\ g_lfsr' = lfsr_seed(g_seq)
        /\ g_f1' = 0 /\ g_f2' = 0
  /\ UNCHANGED <<g_seq, length_sel, packets, sending>>

\* A byte that counts in the two running sums.
Sum(byte) ==
  /\ g_f1' = (g_f1 + byte) % 256 /\ g_f2' = (g_f2 + g_f1') % 256
  /\ sending' = Append(sending, byte)

SeqBytes ==
  /\ \/ g_state = "SEQ_LO" /\ Sum(g_seq % 256) /\ g_state' = "SEQ_HI"
     \/ g_state = "SEQ_HI" /\ Sum(g_seq \div 256) /\ g_state' = "PAYLOAD"
  /\ UNCHANGED <<g_seq, length_sel, remaining, g_lfsr, gap, packets>>

Payload ==
  /\ g_state = "PAYLOAD" /\ Sum(g_lfsr % 256)
  /\ g_lfsr' = lfsr_step(g_lfsr) /\ remaining' = remaining - 1
  /\ g_state' = IF remaining = 1 THEN "CK1" ELSE "PAYLOAD"
  /\ UNCHANGED <<g_seq, length_sel, gap, packets>>

Check1 ==
  /\ g_state = "CK1" /\ sending' = Append(sending, g_f1) /\ g_state' = "CK2"
  /\ UNCHANGED <<g_seq, length_sel, remaining, g_lfsr, g_f1, g_f2, gap, packets>>

\* With the last byte the packet is on the link (which carries one at a time).
Check2 ==
  /\ g_state = "CK2" /\ carried = <<>>
  /\ g_state' = "GAP" /\ g_seq' = (g_seq + 1) % 65536 /\ packets' = packets + 1
  /\ length_sel' = (length_sel + 1) % Len(LENGTHS)
  /\ sending' = <<>> /\ carried' = <<Append(sending, g_f2)>>
  /\ UNCHANGED <<remaining, g_lfsr, g_f1, g_f2, gap>>

Generator ==
  /\ \/ (Gap \/ SeqBytes \/ Payload \/ Check1) /\ UNCHANGED carried
     \/ Check2
  /\ UNCHANGED <<chkVars, linkVars>>

\* ---- checker ----

rises == rx_active /\ ~prev_active
falls == prev_active /\ ~rx_active

\* Mutant of folds: the bytes before the delay line is full are summed too.
folds_Early == count >= 1
\* The byte that falls out of the two-byte delay line is summed.
folds == count >= 2

\* It is a payload byte.
compares == count >= 4

Take(b) ==
  LET older == last2[1]
  IN  /\ last2' = <<last2[2], b>> /\ count' = (count + 1) % 2048
      /\ f1' = IF folds THEN (f1 + older) % 256 ELSE f1
      /\ f2' = IF folds THEN (f2 + f1') % 256 ELSE f2
      /\ seq' = CASE count = 0 -> b + 256 * (seq \div 256)
                  [] count = 1 -> 256 * b + (seq % 256)
                  [] OTHER -> seq
      /\ lfsr' = CASE count = 1 -> lfsr_seed(seq')
                   [] count # 1 /\ compares -> lfsr_step(lfsr)
                   [] OTHER -> lfsr
      /\ mismatch' = (mismatch \/ (compares /\ older # lfsr % 256))

\* UTMIReceive has no byte in the cycle in which rx_active rises.
Receiving ==
  \/ rx_valid # NoData /\ Take(rx_valid)
  \/ /\ rx_valid = NoData /\ rises
     /\ count' = 0 /\ f1' = 0 /\ f2' = 0 /\ mismatch' = FALSE
     /\ UNCHANGED <<last2, seq, lfsr>>
  \/ /\ rx_valid = NoData /\ ~rises
     /\ UNCHANGED <<count, f1, f2, mismatch, last2, seq, lfsr>>

ok == last2 = <<f1, f2>> /\ ~mismatch /\ count >= 4

\* Mutant of next_seq: the number after the last is not zero again.
next_seq_Wide == seq + 1
next_seq == (seq + 1) % 65536

\* The end of a packet judges it by the registers; an error pulse is counted apart.
Judge ==
  /\ counted' = (IF rx_error THEN {"errors"} ELSE {})
                \cup (IF ~falls THEN {} ELSE IF ok THEN {"good"} ELSE {"bad"})
                \cup (IF falls /\ ok /\ have_expect /\ seq # expect_seq THEN {"gaps"} ELSE {})
  /\ expect_seq' = IF falls /\ ok THEN next_seq ELSE expect_seq
  /\ have_expect' = (have_expect \/ (falls /\ ok))
  /\ last_good' = IF falls /\ ok THEN origin ELSE last_good

\* ---- the link: loss, one damaged byte, a cut with an error, a made-up packet ----

Damaged(packet, k, error) == [packet EXCEPT ![k] = (@ + error) % 256]

Begin(bytes, what, number) ==
  /\ Open /\ incoming' = bytes /\ fate' = what /\ origin' = number

Quiet == ~rx_active /\ ~prev_active

Deliver ==
  /\ Quiet /\ carried # <<>> /\ carried' = <<>>
  /\ LET packet == carried[1]
     IN  \/ Begin(packet, "intact", packets)
         \/ \E k \in DOMAIN packet, e \in Errors : Begin(Damaged(packet, k, e), "byte", packets)
         \/ \E k \in 0..Len(packet) : Begin(SubSeq(packet, 1, k), "cut", packets)
         \/ Quiescent /\ UNCHANGED <<incoming, fate, origin>>

MakeUp ==
  /\ Quiet /\ UNCHANGED carried
  /\ \E bytes \in Noise : Begin(bytes, "noise", 0)

Link ==
  \/ Deliver \/ MakeUp
  \/ /\ rx_active /\ incoming # <<>> /\ Receive /\ rx_valid' = Head(incoming)
     /\ incoming' = Tail(incoming) /\ UNCHANGED <<carried, fate, origin>>
  \/ /\ rx_active /\ incoming = <<>> /\ Close /\ (rx_error' <=> fate = "cut")
     /\ UNCHANGED <<carried, incoming, fate, origin>>
  \/ Quiescent /\ UNCHANGED <<carried, incoming, fate, origin>>

Checker ==
  /\ prev_active' = rx_active /\ Receiving /\ Judge /\ Link
  /\ UNCHANGED genVars

LinkNext == Generator \/ Checker

LinkSpec == LinkInit /\ [][LinkNext]_linkTestVars

-----------------------------------------------------------------------------

LinkTypeOK ==
  /\ g_state \in {"GAP", "SEQ_LO", "SEQ_HI", "PAYLOAD", "CK1", "CK2"}
  /\ {g_seq, seq, expect_seq, g_lfsr, lfsr} \subseteq Word
  /\ {g_f1, g_f2, f1, f2, last2[1], last2[2]} \subseteq Octet
  /\ length_sel < Len(LENGTHS) /\ (g_state = "PAYLOAD" => remaining > 0)
  /\ gap <= gap_cycles /\ count < 2048
  /\ counted \subseteq {"good", "bad", "errors", "gaps"}

(* Every packet that ends is counted once, as good or bad: good if it is as the
   generator made it, bad if one byte of it, wherever, is damaged or it is too
   short to be one.  A gap is counted with a good packet exactly if it is not
   the successor of the good one before it, across lost and bad packets and the
   wrap of the sequence number; only multiples of 65536 lost in a row do not show. *)
Ledger ==
  [][falls /\ ~prev_active' =>
       /\ Cardinality(counted' \cap {"good", "bad"}) = 1
       /\ fate = "intact" => "good" \in counted'
       /\ fate \in {"byte", "noise"} => "bad" \in counted'
       /\ ("gaps" \in counted') <=> (/\ last_good # 0 /\ "good" \in counted'
                                     /\ ((origin - last_good - 1) % 65536) # 0)
    ]_linkTestVars
=============================================================================
