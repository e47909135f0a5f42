------------------------------ MODULE AsyncFifo ------------------------------
(***************************************************************************)
(* The clock-domain-crossing FIFO (amaranth's AsyncFIFOBuffered) that both *)
(* UTMI bridges use, external to the repository.  The bridges rely on this *)
(* much of it: entries come out in the order they went in, an entry shows  *)
(* up at the read side some cycles after it was written, a slot shows up   *)
(* as free at the write side some cycles after it was read, and it never   *)
(* holds more than Depth entries.  How many cycles is left open.           *)
(***************************************************************************)
EXTENDS Naturals, Sequences

CONSTANT Depth   \* entries it can hold

ASSUME DepthAssumption == Depth \in Nat \ {0}

VARIABLES flying,  \* written, not yet visible to the reader
          visible, \* what the reader may take, oldest first
          unseen   \* slots read, not yet known free to the writer

fifoVars == <<flying, visible, unseen>>

FifoInit == flying = <<>> /\ visible = <<>> /\ unseen = 0

WRdy == Len(flying) + Len(visible) + unseen < Depth
RRdy == visible # <<>>

Contents == visible \o flying

\* A write edge with w_en high on a FIFO with room.
Write(entry) ==
  WRdy /\ flying' = Append(flying, entry) /\ UNCHANGED <<visible, unseen>>

\* A read edge with r_en high on a FIFO showing an entry.
Read ==
  RRdy /\ visible' = Tail(visible) /\ unseen' = unseen + 1 /\ UNCHANGED flying

\* The pointers cross the clock domains.
ShowEntry ==
  /\ flying # <<>>
  /\ visible' = Append(visible, Head(flying)) /\ flying' = Tail(flying)
  /\ UNCHANGED unseen

ShowSlot == unseen > 0 /\ unseen' = unseen - 1 /\ UNCHANGED <<flying, visible>>
=============================================================================
