------------------------------ MODULE PhyClocks ------------------------------
(***************************************************************************)
(* The lock chain and the resets of usb2soft/clock/netv2.py, with the      *)
(* second PLL of the asynchronous modes.  tx_cdr, rx_io, tx_io and sync    *)
(* are left out: they are reset and clocked like rx_cdr and usb.           *)
(***************************************************************************)
EXTENDS Integers

VARIABLES pll, mmcm, pll2, \* the LOCKED pins
          released         \* of each domain's ResetSynchronizer, edges since reset fell

clockVars == <<pll, mmcm, pll2, released>>

Domains == {"usb", "rx_cdr", "tx_async", "idelay_ref"}
Stages == 2

\* Mutant of pll2_reset: the second PLL has its own lock only.
pll2_reset_None == FALSE
pll2_reset == ~mmcm
mmcm_reset == ~pll
fabric_locked == pll2

\* Mutant of arst: each domain is reset from its own generator.
arst_OwnGenerator(d) == CASE d = "idelay_ref" -> ~pll [] d = "tx_async" -> ~pll2 [] OTHER -> ~mmcm
arst(d) == IF d = "idelay_ref" THEN ~pll ELSE ~fabric_locked

up(d) == released[d] = Stages

ClocksInit ==
  /\ pll = FALSE /\ mmcm = FALSE /\ pll2 = FALSE
  /\ released = [d \in Domains |-> 0]

\* A generator locks and loses lock at any time; in reset it has none.
Lock ==
  /\ pll' \in BOOLEAN
  /\ mmcm' \in IF mmcm_reset' THEN {FALSE} ELSE BOOLEAN
  /\ pll2' \in IF pll2_reset' THEN {FALSE} ELSE BOOLEAN

\* With edges[d] edges of each clock; those before the reset falls do not count.
Clocks(edges) ==
  /\ Lock
  /\ \E late \in SUBSET {d \in Domains : arst(d) /\ ~arst(d)'} :
       released' = [d \in Domains |->
         IF arst(d)' \/ d \in late THEN 0
         ELSE IF released[d] + edges[d] < Stages THEN released[d] + edges[d] ELSE Stages]

-----------------------------------------------------------------------------

(* No domain is out of reset while a generator in front of its clock, or of
   the clock of a domain it shares a FIFO with, is not locked: "the last LOCKED
   pin implies all of them". *)
RunsLocked ==
  \A d \in Domains :
    up(d) => pll /\ (d # "idelay_ref" => mmcm /\ pll2)
=============================================================================
