----------------------------- MODULE JitteredLine -----------------------------
(***************************************************************************)
(* The receive path on a line of bits of S samples each, as                *)
(* usb2soft/sim/usbhs.py samples one: every edge may be out of place by a  *)
(* sample, now and then (jitter) or from some bit on (a sample gained or   *)
(* lost).  Bits, displacements and where in a word the bits start are any. *)
(***************************************************************************)
EXTENDS RxPath

VARIABLES tx,    \* the bits on the line
          moved, \* by how many samples the edge in front of each comes late
          shift, \* samples of bit 1 before the first word
          now    \* words so far

onLine == <<tx, moved, shift>>
jlVars == <<rxVars, onLine, now>>

\* Of four samples the outer ones can be spared, of three none.
Displacements == IF S = 4 THEN {-1, 0, 1} ELSE {0}

\* Where sample t is, counted from the first of bit 0; the first word starts at sample 0.
Place(t) == S + shift + t

\* The bit that sample shows.
BitOn(t) ==
  LET k == Place(t) \div S
  IN  IF Place(t) < S * k + moved[k] THEN k - 1
        ELSE IF Place(t) >= S * (k + 1) + moved[k + 1] THEN k + 1 ELSE k

LineWord == [k \in 1..W |-> tx[BitOn(W * now + k - 1)]]

JInit ==
  /\ RxInit /\ now = 0
  /\ tx \in [Nat -> Level] /\ moved \in [Nat -> Displacements] /\ shift \in 0..(S - 1)

JWord == Cycle(LineWord) /\ now' = now + 1 /\ UNCHANGED onLine

JNext == JWord \/ ((UsbEdge \/ Crossing) /\ UNCHANGED <<onLine, now>>)

JSpec == JInit /\ [][JNext]_jlVars

\* The sample of a bit that the CDR picks, and the bit that its next pick is of.
PickedAt == (phase + shift) % S
Aim == Place(W * now + phase) \div S

Locked == PickedAt \in IF S = 4 THEN {1, 2} ELSE {1}
Steady == \A k \in Nat : moved[k] = 0

\* The word's bits are the next ones of the line: none skipped, none read twice.
ReadsOn ==
  /\ \A j \in 1..Len(bits') : bits'[j] = tx[Aim + j - 1]
  /\ Aim' = Aim + Len(bits')

(* A CDR in lock stays in lock and reads every bit of the line once, though any
   edge, and every one, may come a sample early or late: the votes of displaced
   edges move the pick between the two inner samples and never further.  (The
   first word's first edge is out of prev_last as it was at reset.) *)
LockOutlastsJitter == [][now > 0 /\ Locked /\ now' # now => Locked' /\ ReadsOn]_jlVars

(* On a line with every edge in place the CDR reads every bit once before it is
   in lock, too: every vote is for the nearer way to the middle of the bit. *)
SteadyLineIsRead == [][now > 0 /\ Steady /\ now' # now => ReadsOn]_jlVars

(* Outside a packet, the first word with edges puts it in lock, from any phase,
   if they are in place; not if the last packet ended in that very cycle. *)
AnEdgeLocks ==
  [][now > 0 /\ now' # now /\ ~prev_in_packet /\ ~prev_in_packet' /\ Edges(LineWord) # {}
       /\ (\A i \in Edges(LineWord) : Place(W * now + i) % S = 0) => Locked']_jlVars
=============================================================================
