--------------------------- MODULE MCRxUTMIBridge ---------------------------
(***************************************************************************)
(* Bounded instance of the receive bridge, with what was said to it and    *)
(* what was heard behind it: a FIFO small enough to overflow, to be full   *)
(* and to be empty in all orders.                                          *)
(***************************************************************************)
EXTENDS RxUTMIBridge, SequencesExt

CONSTANT MaxBytes \* bytes the decoder reports in a behaviour

VARIABLES said, \* history: the bytes of words without an error
          heard \* history: the bytes rx_valid has pulsed for

mcvars == <<vars, said, heard>>

MCInit == Init /\ said = <<>> /\ heard = <<>>

Say ==
  /\ said' = IF data' # NoData /\ event' # "ERROR" THEN Append(said, data') ELSE said
  /\ Len(said') <= MaxBytes /\ UNCHANGED heard

MCCdrEdge == CdrEdge /\ Say
MCUsbEdge ==
  /\ UsbEdge /\ UNCHANGED said
  /\ heard' = IF rx_valid' # NoData THEN Append(heard, rx_valid') ELSE heard
MCCrossEntry == CrossEntry /\ UNCHANGED <<said, heard>>
MCCrossSlot == CrossSlot /\ UNCHANGED <<said, heard>>

MCNext == MCCdrEdge \/ MCUsbEdge \/ MCCrossEntry \/ MCCrossSlot

MCSpec ==
  /\ MCInit /\ [][MCNext]_mcvars
  /\ WF_mcvars(MCCdrEdge) /\ WF_mcvars(MCUsbEdge)
  /\ WF_mcvars(MCCrossEntry) /\ WF_mcvars(MCCrossSlot)

\* The byte an entry will make rx_valid pulse for.
ByteOf(entry) ==
  IF entry.data # NoData /\ entry.event # "ERROR" THEN <<entry.data>> ELSE <<>>
BytesOf(entries) == FlattenSeq([k \in DOMAIN entries |-> ByteOf(entries[k])])

(* While no entry has been lost, every byte of a word without an error is
   emitted once and in order, or still on its way. *)
BytesDelivered == ~overflow => said = heard \o BytesOf(Pending)
=============================================================================
