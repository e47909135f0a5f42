----------------------------- MODULE MCHostLite -----------------------------
(***************************************************************************)
(* Bounded instance of the host: SET_ADDRESS, then GET_DESCRIPTOR with a   *)
(* two-byte reply in a loop; idx counts modulo four, so that a long reply  *)
(* wraps it.                                                               *)
(***************************************************************************)
EXTENDS HostLite

CONSTANT PID \* first byte of a data packet

\* The default script from SET_ADDRESS on, with its loop.
MCScript ==
  [SubSeq(enumeration_script(<<PID, ACK>>, <<PID>>), 7, 16) EXCEPT ![10].target = 5]

\* Bytes and errors the host does not look at are not told apart.
Unheard == state' = "RECEIVE" \/ (rx_valid' \in {NoData, ACK} /\ ~rx_error')

MCNext == Next /\ Unheard

MCSpec ==
  /\ Init /\ [][MCNext]_vars /\ WF_vars(MCNext)
  /\ WF_vars(SendByte /\ Background /\ Unheard)
  /\ WF_vars(Cycle /\ Background /\ Close /\ Unheard)
=============================================================================
