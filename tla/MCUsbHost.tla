----------------------------- MODULE MCUsbHost ------------------------------
(***************************************************************************)
(* Two device addresses, three plugs, one failing transfer, one spurious   *)
(* interrupt: a device may be replaced at every point of the enumeration   *)
(* of the one before, and an attempt may leave a record behind.            *)
(***************************************************************************)
EXTENDS UsbHost

CONSTANT a, d      \* two keys
MCKeys == {a, d}
=============================================================================
