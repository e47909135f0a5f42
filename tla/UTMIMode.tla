------------------------------- MODULE UTMIMode -------------------------------
(***************************************************************************)
(* The UTMI operation mode, LUNA's register, which usb2soft/phy/utmi.py    *)
(* and usb2soft/phy/linestate.py both read.  The other two of its four     *)
(* values are normal to them.                                              *)
(***************************************************************************)

VARIABLE op_mode

OP_NON_DRIVING == 1
OP_CHIRP == 2
=============================================================================
