----------------------------- MODULE UARTReceiver -----------------------------
(***************************************************************************)
(* The 8N1 receiver of usb2soft/io/uart.py.  A receiver is a record of its *)
(* registers and UartStep what one clock cycle makes of it, so that a lane *)
(* can have two of them.  A byte is the sequence of its bits, least        *)
(* significant first; bits holds those of the byte under way, so its       *)
(* length is bit_index.  The error strobe has no reader and is left out.   *)
(***************************************************************************)
EXTENDS Naturals, Sequences

CONSTANTS divisor, \* cycles per bit
          NoByte   \* data while valid is low

\* A byte on the line.
Character == [1..8 -> {0, 1}]

ASSUME DivisorAssumption == divisor \in Nat /\ divisor >= 4
ASSUME NoByteAssumption == NoByte \notin Character

UartReset ==
  [meta |-> 1, rx |-> 1, state |-> "IDLE", baud |-> 0, bits |-> <<>>, data |-> NoByte]

\* Mutant of half: bits are sampled where they change.
half_Whole == divisor - 1
half == (divisor \div 2) - 1

ByteOver(u) == IF u.rx = 1 THEN u.bits ELSE NoByte

UartStep(u, line) ==
  LET v == [u EXCEPT !.meta = line, !.rx = u.meta, !.data = NoByte]
  IN  CASE u.state = "IDLE" ->
             IF u.rx = 1 THEN v ELSE [v EXCEPT !.state = "START", !.baud = half]
        [] u.state # "IDLE" /\ u.baud > 0 -> [v EXCEPT !.baud = @ - 1]
        [] u.state = "START" /\ u.baud = 0 ->
             IF u.rx = 1 THEN [v EXCEPT !.state = "IDLE"]
             ELSE [v EXCEPT !.state = "DATA", !.baud = divisor - 1]
        [] u.state = "DATA" /\ u.baud = 0 ->
             [v EXCEPT !.state = IF Len(u.bits) = 7 THEN "STOP" ELSE "DATA",
                       !.baud = divisor - 1, !.bits = Append(@, u.rx)]
        [] u.state = "STOP" /\ u.baud = 0 ->
             [v EXCEPT !.state = "IDLE", !.bits = <<>>, !.data = ByteOver(u)]
=============================================================================
