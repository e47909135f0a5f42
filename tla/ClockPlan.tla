------------------------------ MODULE ClockPlan ------------------------------
(***************************************************************************)
(* The settings of the clock generators: the solver of                     *)
(* usb2soft/clock/params.py and the plan of usb2soft/clock/netv2.py that   *)
(* asks it.  Frequencies are in MHz, phases in degrees; quotients are      *)
(* compared by products, which is exact where the code allows for 1e-9.    *)
(***************************************************************************)
EXTENDS Integers, Sequences, FiniteSetsExt

\* Of speed grade -2, the board's.
LIMITS ==
  [mmcm |-> [vco |-> <<600, 1440>>, fin |-> 10..800, divclk |-> 1..106],
   pll |-> [vco |-> <<800, 1866>>, fin |-> 19..800, divclk |-> 1..56]]
mult_range == 2..64
out_divide == 1..128

\* The division of setting s by which output o gets its frequency, 0 if there is none.
divide(fin, s, o) ==
  LET unit == s.divclk * o.freq
      d == (fin * s.mult) \div unit
  IN  IF (fin * s.mult) % unit = 0 /\ d \in out_divide THEN d ELSE 0

\* Phases are quantised to an eighth of a VCO period.
Representable(d, phase) == (phase * d * 8) % 360 = 0

NoSolution == [divclk |-> 0, mult |-> 0]

\* outputs is a sequence, as the code tries them; vco = 0 leaves the VCO open.  A phase
\* that some setting cannot give is refused, whatever the other settings can.
solve(kind, fin, outputs, vco) ==
  LET lim == LIMITS[kind]
      settings == {s \in [divclk : lim.divclk, mult : mult_range] :
                     /\ lim.vco[1] * s.divclk <= fin * s.mult
                     /\ fin * s.mult <= lim.vco[2] * s.divclk
                     /\ vco # 0 => fin * s.mult = vco * s.divclk}
      Divides(s, n) == \A i \in 1..n : divide(fin, s, outputs[i]) # 0
      Refused(s) == \E n \in DOMAIN outputs :
        Divides(s, n) /\ ~Representable(divide(fin, s, outputs[n]), outputs[n].phase)
      candidates == {s \in settings : Divides(s, Len(outputs))}
  IN  IF fin \notin lim.fin \/ candidates = {} \/ \E s \in settings : Refused(s)
      THEN NoSolution
      ELSE CHOOSE s \in candidates : \A t \in candidates :
             s.divclk < t.divclk \/ (s.divclk = t.divclk /\ s.mult >= t.mult)

-----------------------------------------------------------------------------

crystal == 50
Plain(freqs) == [i \in DOMAIN freqs |-> [freq |-> freqs[i], phase |-> 0]]

PLL_OUTPUTS == Plain(<<60, 300>>)          \* mmcm_ref, idelay_ref
MMCM_OUTPUTS == Plain(<<480, 240, 120, 60>>) \* rx_io, tx_io, cdr, usb
pll_sol == solve("pll", crystal, PLL_OUTPUTS, 1200)
mmcm_sol == solve("mmcm", PLL_OUTPUTS[1].freq, MMCM_OUTPUTS, 960)

\* What an output of a setting makes of fin, as a fraction.
Output(fin, s, d) == <<fin * s.mult, s.divclk * d>>
cdr_clk == Output(PLL_OUTPUTS[1].freq, mmcm_sol, divide(PLL_OUTPUTS[1].freq, mmcm_sol, MMCM_OUTPUTS[3]))
usb_clk == Output(PLL_OUTPUTS[1].freq, mmcm_sol, divide(PLL_OUTPUTS[1].freq, mmcm_sol, MMCM_OUTPUTS[4]))

\* The second PLL, which bypasses the solver.
ASYNC_TX == {[divclk |-> 2, mult |-> 53, divide |-> 11], [divclk |-> 2, mult |-> 43, divide |-> 9]}
tx_async_clk(cfg) == Output(crystal, cfg, cfg.divide)

\* The ratio of two clocks in lowest terms.
Ratio(f, g) ==
  LET n == f[1] * g[2]
      d == f[2] * g[1]
      common == Max({k \in 1..d : n % k = 0 /\ d % k = 0})
  IN  <<n \div common, d \div common>>
=============================================================================
