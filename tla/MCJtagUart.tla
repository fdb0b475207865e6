----------------------------- MODULE MCJtagUart ------------------------------
(***************************************************************************)
(* A transmit buffer of three bytes, which writes of two fill, wrap around *)
(* and overflow, and which holds more than the FIFO may have room for; a   *)
(* receive FIFO of two, which interrupts only when it is full or the host  *)
(* pauses; a host that is taken for absent after two alarms.  The bytes    *)
(* are numbered modulo four, so that a slot does not hold the same number  *)
(* each time around.                                                       *)
(***************************************************************************)
EXTENDS JtagUart
=============================================================================
