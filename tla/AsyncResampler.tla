---------------------------- MODULE AsyncResampler ----------------------------
(***************************************************************************)
(* The resampler of usb2soft/sim/expander.py between a transmit clock with *)
(* a frequency offset and the CDR's clock.  A step is a cycle of the       *)
(* reader's clock; credit is the time the writer has run, in parts of one  *)
(* of its cycles, so that entries come at the rate of the writer's clock.  *)
(* Either side works while its domain is out of reset.                     *)
(*                                                                         *)
(* Samples are counted, not kept: they enter and leave in order, and what  *)
(* can go wrong is their number.  The crossing FIFO is external: an entry  *)
(* is visible to the reader MinLag to MaxLag cycles after it was written,  *)
(* and the writer may not have seen the last MaxUnseen slots freed.        *)
(***************************************************************************)
EXTENDS PhyClocks, Sequences

CONSTANTS Rates,  \* ratios <<n, d>> of the writer's clock to the reader's
          W,      \* samples per cycle (16)
          BUF, TARGET, HYST, HOLDOFF,
          Depth,  \* entries the FIFO holds
          MinLag, MaxLag, MaxUnseen

E == 2 * W
FillRange == 128 \* fill has seven bits

ASSUME RatesAssumption == Rates \subseteq (Nat \ {0}) \X (Nat \ {0})
ASSUME BufferAssumption ==
  /\ W \in Nat \ {0} /\ BUF \in E..(FillRange - 1) /\ TARGET \in Nat /\ HYST \in 0..TARGET
  /\ HOLDOFF \in Nat \ {0, 1} /\ Depth \in Nat \ {0}
  /\ MinLag \in Nat \ {0} /\ MaxLag \in Nat /\ MinLag <= MaxLag /\ MaxUnseen \in 0..Depth

VARIABLES rate,     \* ratio of the clocks, fixed
          credit,   \* time since the last entry, in 1/d of a writer cycle
          flying,   \* ages of the entries the reader does not see yet, oldest first
          visible,  \* entries it sees
          overflow, \* sticky: an entry was lost
          fill,     \* samples in the reader's buffer
          total,    \* backlog one cycle ago
          running, holdoff, drop, dup,
          since,    \* history: cycles since the last drop or dup, up to HOLDOFF
          last      \* history: the last of them

fifoVars == <<credit, flying, visible, overflow>>
resamplerVars == <<rate, fifoVars, fill, total, running, holdoff, drop, dup, since, last>>

in_domain == "tx_async"
out_domain == "rx_cdr"

ResamplerInit ==
  /\ rate \in Rates /\ credit \in 0..(2 * rate[2] - 1)
  /\ ClocksInit /\ flying = <<>> /\ visible = 0 /\ overflow = FALSE
  /\ fill = 0 /\ total = 0 /\ running = FALSE
  /\ holdoff = 0 /\ drop = FALSE /\ dup = FALSE
  /\ since = HOLDOFF /\ last = "none"

\* Mutant of pop: an entry is taken whether or not the buffer has room for it.
pop_Unchecked == visible > 0
pop == visible > 0 /\ fill <= BUF - E

\* Entries age; the oldest may, and after MaxLag cycles must, become visible.
Older(k) == [i \in 1..(Len(flying) - k) |-> flying[i + k] + 1]
MayShow(k) ==
  /\ \A i \in 1..k : flying[i] >= MinLag
  /\ \A i \in (k + 1)..Len(flying) : flying[i] < MaxLag

\* Edges of the writer's clock in this step.
in_edges == (credit + rate[1]) \div rate[2] - credit \div rate[2]

\* The writer's reset empties the FIFO.
FifoReset ==
  /\ flying' = <<>> /\ visible' = 0 /\ overflow' = FALSE
  /\ credit' = (credit + rate[1]) % (2 * rate[2])

\* Every second cycle of the writer offers an entry.  While the reader is in reset
\* entries move on into its output register all the same, and are lost there.
Fifo ==
  \E k \in 0..Len(flying), unseen \in 0..MaxUnseen :
    LET due == credit + rate[1] >= 2 * rate[2]
        full == Len(flying) + visible + unseen >= Depth
    IN  /\ MayShow(k)
        /\ credit' = credit + rate[1] - (IF due THEN 2 * rate[2] ELSE 0)
        /\ visible' = visible + k - (IF pop THEN 1 ELSE 0)
        /\ flying' = IF due /\ ~full THEN Append(Older(k), 1) ELSE Older(k)
        /\ overflow' = (overflow \/ (due /\ full))

armed == holdoff = 0
drop_next == running /\ armed /\ total >= TARGET + HYST
dup_next == running /\ armed /\ total <= TARGET - HYST

\* Mutant of next_holdoff: a step does not hold the next one off.
next_holdoff_None == 0
next_holdoff ==
  CASE drop_next \/ dup_next -> HOLDOFF - 1
    [] ~(drop_next \/ dup_next) /\ ~armed -> holdoff - 1
    [] OTHER -> holdoff

\* Mutant of start: the reader waits for a backlog the FIFO can hardly hold.
start_Full == total >= BUF + E * Depth
start == total >= TARGET

consume ==
  CASE ~running -> 0 [] running /\ drop -> W + 1 [] running /\ ~drop /\ dup -> W - 1 [] OTHER -> W

Read ==
  /\ total' = fill + visible * E
  /\ drop' = drop_next /\ dup' = dup_next /\ holdoff' = next_holdoff
  /\ running' = (running \/ start)
  /\ fill' = (fill + (IF pop THEN E ELSE 0) - consume) % FillRange
  /\ since' = IF drop \/ dup THEN 1 ELSE IF since < HOLDOFF THEN since + 1 ELSE since
  /\ last' = IF drop THEN "drop" ELSE IF dup THEN "dup" ELSE last

\* Registers in reset.
ReadReset ==
  /\ fill' = 0 /\ total' = 0 /\ running' = FALSE
  /\ holdoff' = 0 /\ drop' = FALSE /\ dup' = FALSE
  /\ since' = HOLDOFF /\ last' = "none"

Resample ==
  /\ IF up(in_domain) /\ ~arst(in_domain)' THEN Fifo ELSE FifoReset
  /\ IF up(out_domain) /\ ~arst(out_domain)' THEN Read ELSE ReadReset
  /\ UNCHANGED rate

-----------------------------------------------------------------------------

(* The crossing FIFO never overruns, "must never happen" in the source. *)
NeverOverruns == ~overflow

(* While it runs the buffer holds at least the 24 samples that the comment on
   TARGET promises, so no word is read past the samples there are, and no more
   than it has room for: also when the writer comes out of reset later than the
   reader, and after a generator has lost its lock. *)
KeepsValidSamples == running => fill \in 24..BUF

(* Single samples are dropped or repeated HOLDOFF cycles apart at least, and
   once a step has gone in the direction of the clock offset none goes back:
   the CDR sees one steady frequency. *)
StepsLikeAnOffset ==
  [][/\ drop \/ dup => since >= HOLDOFF
     /\ drop /\ rate[1] < rate[2] => last # "dup"
     /\ dup /\ rate[1] > rate[2] => last # "drop"]_resamplerVars
=============================================================================
