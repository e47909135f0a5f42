----------------------------- MODULE MCNetV2Run -----------------------------
(***************************************************************************)
(* Two runs on one Pi with both services, any number of times each.        *)
(* MCNetV2RunRestart has one run only, which meets no other.               *)
(***************************************************************************)
EXTENDS NetV2Run

CONSTANTS r1, r2

MCRuns == {r1, r2}
MCOneRun == {r1}
MCServices == <<"getty", "pm2">>
MCSymmetry == Permutations(MCRuns)
MCNoise == {<<"motd", "active", "now">>, <<"pm2">>}
=============================================================================
