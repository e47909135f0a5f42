----------------------------- MODULE UTMIReceive -----------------------------
(***************************************************************************)
(* The UTMI receive signals as their users rely on them: usb2soft/rx/      *)
(* bridge.py drives them, hostlite.py and the applets read them.  A step   *)
(* is a cycle of the usb clock.                                            *)
(***************************************************************************)
CONSTANTS Bytes, NoData

VARIABLES rx_active, \* a packet is being received
          rx_valid,  \* rx_data in a cycle with rx_valid high, else NoData
          rx_error   \* pulse: the packet that just ended was bad

utmiVars == <<rx_active, rx_valid, rx_error>>

UtmiInit == rx_active = FALSE /\ rx_valid = NoData /\ rx_error = FALSE

Quiescent == rx_valid' = NoData /\ rx_error' = FALSE /\ UNCHANGED rx_active
Open == ~rx_active /\ rx_active' = TRUE /\ rx_valid' = NoData /\ rx_error' = FALSE
Receive == rx_active /\ rx_active' = TRUE /\ rx_valid' \in Bytes /\ rx_error' = FALSE
Close == rx_active /\ rx_active' = FALSE /\ rx_valid' = NoData /\ rx_error' \in BOOLEAN

UtmiNext == Quiescent \/ Open \/ Receive \/ Close
=============================================================================
