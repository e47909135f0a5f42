---------------------------- MODULE MCAsyncLoopback ----------------------------
(***************************************************************************)
(* The loopback with the two offsets of the clock plan: 120.4545 MHz and,  *)
(* slower, 119.4444 MHz against 120 MHz.                                   *)
(***************************************************************************)
EXTENDS AsyncLoopback

Plan == INSTANCE ClockPlan

MCRates == {Plan!Ratio(Plan!tx_async_clk(cfg), Plan!cdr_clk) : cfg \in Plan!ASYNC_TX}
=============================================================================
