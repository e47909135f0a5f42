---------------------------- MODULE AsyncLoopback ----------------------------
(***************************************************************************)
(* The asynchronous internal loopback of usb2soft/applets/link_test.py:    *)
(* the clock generators, the resampler from tx_async to rx_cdr, and the    *)
(* FIFO of the transmit path from usb to tx_async.  A step is a cycle of   *)
(* rx_cdr.  Bytes are numbered; the source sends as soon as it is out of   *)
(* reset, and an entry is seen in the next cycle: later would only help.   *)
(***************************************************************************)
EXTENDS AsyncResampler

CONSTANT MaxBytes \* bound on the source

\* The two clocks are offset from each other, not of another kind.
ASSUME OffsetAssumption == \A r \in Rates : 2 * r[2] <= 3 * r[1] /\ r[1] <= 2 * r[2]

VARIABLES usb_next, \* the usb clock has its edge in this step
          sent,     \* bytes written since the last reset
          inner,    \* the FIFO's storage
          register, \* its output register, <<>> when empty
          delivered \* history: the bytes the encoder took

byteVars == <<sent, inner, register, delivered>>
allVars == <<clockVars, resamplerVars, usb_next, byteVars>>

LoopbackInit ==
  /\ ResamplerInit /\ usb_next \in BOOLEAN
  /\ sent = 0 /\ inner = <<>> /\ register = <<>> /\ delivered = <<>>

edges == [usb |-> IF usb_next THEN 1 ELSE 0, rx_cdr |-> 1,
          tx_async |-> in_edges, idelay_ref |-> 2]

Runs(d) == up(d) /\ ~arst(d)' /\ edges[d] > 0

\* The writer's reset empties the storage; the reader's clears the register only,
\* into which entries go on moving.
Writes == Runs("usb") /\ sent < MaxBytes
Moves == edges["tx_async"] > 0 /\ inner # <<>>
ByteFifo ==
  /\ sent' = IF arst("usb")' THEN 0 ELSE sent + (IF Writes THEN 1 ELSE 0)
  /\ inner' = IF arst("usb")' THEN <<>>
              ELSE (IF Moves THEN Tail(inner) ELSE inner) \o (IF Writes THEN <<sent + 1>> ELSE <<>>)
  /\ register' = CASE ~up("tx_async") \/ arst("tx_async")' -> <<>>
                   [] OTHER -> IF Moves THEN <<Head(inner)>> ELSE IF edges["tx_async"] > 0 THEN <<>> ELSE register
  /\ delivered' = CASE arst("usb")' -> <<>>
                [] ~arst("usb")' /\ Runs("tx_async") -> delivered \o register
                [] OTHER -> delivered

LoopbackNext == Clocks(edges) /\ Resample /\ ByteFifo /\ usb_next' = ~usb_next

LoopbackSpec == LoopbackInit /\ [][LoopbackNext]_allVars

-----------------------------------------------------------------------------

(* Every byte handed over since the last reset reaches the encoder, in order:
   the domains leave reset so that none is written before it can be read,
   whichever generator locks when, and whichever loses its lock. *)
StartUpLosesNothing == delivered \o register \o inner = [i \in 1..sent |-> i]
=============================================================================
