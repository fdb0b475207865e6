-------------------------------- MODULE MCSpi --------------------------------
(* The SPI driver with accesses of up to eight bytes, a SETUP packet, and    *)
(* two restarts: the second may cut off the write that continues the         *)
(* selection which the first left behind.                                    *)
EXTENDS Spi
=============================================================================
