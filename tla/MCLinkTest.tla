----------------------------- MODULE MCLinkTest -----------------------------
(***************************************************************************)
(* Bounded instance of the link test: short payloads, from reset and over  *)
(* the wrap of the sequence number.                                        *)
(***************************************************************************)
EXTENDS LinkTest

MCBytes == 0..255
MCLengths == <<1, 3, 2>>
MCNoise == {<<>>, <<0, 0, 0>>}
=============================================================================
