--------------------------------- MODULE Spi ---------------------------------
(***************************************************************************)
(* One access to the registers of the MAX3421E: MAXreg_wr, MAXbytes_wr,    *)
(* MAXreg_rd and MAXbytes_rd (MAX3421E.c) call alt_avalon_spi_command,     *)
(* which feeds the SPI master a byte at a time while the master shifts at  *)
(* its own pace.                                                           *)
(*                                                                         *)
(* A byte is its number in the access; the chip's answer to the n-th byte  *)
(* after its selection is n.  A reset by the debugger restarts the         *)
(* processor and leaves the SPI master as it is: rst_controller, which     *)
(* resets the master, does not listen to debug_reset_request               *)
(* (lab62soc.v:127).  A chip that was selected stays selected, and the     *)
(* first access of MAX3421E_init, made before it resets the chip, goes     *)
(* on with that selection.                                                 *)
(***************************************************************************)
EXTENDS Integers, Sequences

CONSTANTS MaxBytes,     \* bound: data bytes of one access; the FIFOs hold 64
          MaxRestarts   \* bound: restarts of the processor

ASSUME SpiAssumption == MaxBytes \in Nat \ {0} /\ MaxRestarts \in Nat

VARIABLES
  \* MAX3421E_init: the chip was not reset since the processor started
  starting, restarts,
  \* alt_avalon_spi_command
  pc, write_length, read_length,
  write_data,                  \* bytes taken from the caller's buffer
  write_zeros, read_ignore, credits,
  read_data,                   \* bytes stored for the caller
  status_TRDY, status_RRDY,    \* as they were read
  \* the SPI master
  transmitting, shift_reg,
  tx_holding_primed, tx_holding_reg,
  RRDY, rx_holding_reg, ROE, TOE,
  SSO,                         \* the chip is selected
  \* the MAX3421E: bytes since it was selected
  cut_off,                     \* of accesses that a restart cut off
  heard                        \* of the last access

caller == <<starting, restarts, write_length, read_length>>
command == <<write_data, write_zeros, read_ignore, credits, read_data>>
status == <<status_TRDY, status_RRDY>>
shifter == <<transmitting, shift_reg, tx_holding_primed, tx_holding_reg, TOE>>
receiver == <<RRDY, rx_holding_reg, ROE>>
selection == <<SSO, cut_off, heard>>
spiVars == <<pc, caller, command, status, shifter, receiver, selection>>

\* Power-up, on the way to MAX3421E_init.
SpiInit ==
  /\ starting = TRUE /\ restarts = 0
  /\ pc = "boot" /\ write_length = 0 /\ read_length = 0
  /\ write_data = 0 /\ write_zeros = 0 /\ read_ignore = 0
  /\ credits = 0 /\ read_data = <<>>
  /\ status_TRDY = FALSE /\ status_RRDY = FALSE
  /\ transmitting = FALSE /\ shift_reg = 0
  /\ tx_holding_primed = FALSE /\ tx_holding_reg = 0
  /\ RRDY = FALSE /\ rx_holding_reg = 0 /\ ROE = FALSE /\ TOE = FALSE
  /\ SSO = FALSE /\ cut_off = <<>> /\ heard = <<>>

-----------------------------------------------------------------------------
(* The master.  A byte written while it shifts waits in the holding        *)
(* register; otherwise it is shifted from the next clock on, before the    *)
(* processor's next access.                                                *)

TRDY == ~(transmitting /\ tx_holding_primed)
TMT == ~transmitting /\ ~tx_holding_primed

Transmit(byte) ==
  /\ transmitting' = TRUE
  /\ shift_reg' = IF transmitting THEN shift_reg ELSE byte
  /\ tx_holding_primed' = transmitting
  /\ tx_holding_reg' = IF transmitting /\ TRDY THEN byte ELSE tx_holding_reg
  /\ TOE' = (TOE \/ ~TRDY)

\* The last bit was shifted: an answer that was not read is overwritten.
ByteDone ==
  /\ transmitting
  /\ heard' = Append(heard, shift_reg)
  /\ rx_holding_reg' = Len(cut_off) + Len(heard')
  /\ RRDY' = TRUE /\ ROE' = (ROE \/ RRDY)
  /\ transmitting' = tx_holding_primed
  /\ shift_reg' = IF tx_holding_primed THEN tx_holding_reg ELSE shift_reg
  /\ tx_holding_primed' = FALSE
  /\ UNCHANGED <<pc, caller, command, status, tx_holding_reg, TOE, SSO, cut_off>>

-----------------------------------------------------------------------------
(* The accesses: the first byte names the register.                        *)

Call(w, r) ==
  /\ pc' = "select"
  /\ write_length' = w /\ read_length' = r
  /\ UNCHANGED <<starting, restarts, command, status, shifter, receiver, selection>>

MAXreg_wr == Call(2, 0)
MAXreg_rd == Call(1, 1)
MAXbytes_wr == \E nbytes \in 0..MaxBytes : Call(nbytes + 1, 0)
MAXbytes_rd == \E nbytes \in 0..MaxBytes : Call(1, nbytes)

Access == /\ pc = "idle"
          /\ MAXreg_wr \/ MAXreg_rd \/ MAXbytes_wr \/ MAXbytes_rd

-----------------------------------------------------------------------------
(* alt_avalon_spi_command.                                                 *)

\* Mutant of Credits: two bytes on the way.
TwoCredits == 2

Credits == 1

Select ==
  /\ pc = "select" /\ pc' = "discard"
  /\ write_data' = 0 /\ read_data' = <<>>
  /\ write_zeros' = read_length /\ read_ignore' = write_length
  /\ credits' = Credits
  /\ SSO' = TRUE
  /\ cut_off' = IF SSO THEN cut_off \o heard ELSE <<>>
  /\ heard' = <<>>
  /\ UNCHANGED <<caller, status, shifter, receiver>>

\* Mutant of Discard: an answer to an interrupted access stays.
DiscardNothing ==
  /\ pc = "discard" /\ pc' = "poll"
  /\ UNCHANGED <<caller, command, status, shifter, receiver, selection>>

Discard ==
  /\ pc = "discard" /\ pc' = "poll"
  /\ RRDY' = FALSE
  /\ UNCHANGED <<caller, command, status, shifter, rx_holding_reg, ROE, selection>>

\* The loop around the status register, until there is something to do.
Poll ==
  /\ pc = "poll"
  /\ pc' = IF (TRDY /\ credits # 0) \/ RRDY THEN "send" ELSE "poll"
  /\ status_TRDY' = TRDY /\ status_RRDY' = RRDY
  /\ UNCHANGED <<caller, command, shifter, receiver, selection>>

MaySend == status_TRDY /\ credits > 0

SendData ==
  /\ MaySend /\ write_data < write_length
  /\ Transmit(write_data + 1)
  /\ write_data' = write_data + 1 /\ credits' = credits - 1
  /\ UNCHANGED write_zeros

SendZero ==
  /\ MaySend /\ write_data >= write_length /\ write_zeros > 0
  /\ Transmit(0)
  /\ write_zeros' = write_zeros - 1 /\ credits' = credits - 1
  /\ UNCHANGED write_data

\* All is sent (a credit is left only if nothing is awaited), or it must wait.
SendNothing ==
  /\ ~MaySend \/ (write_data >= write_length /\ write_zeros = 0)
  /\ credits' = IF MaySend THEN -1024 ELSE credits
  /\ UNCHANGED <<shifter, write_data, write_zeros>>

Send ==
  /\ pc = "send" /\ pc' = "receive"
  /\ SendData \/ SendZero \/ SendNothing
  /\ UNCHANGED <<caller, read_ignore, read_data, status, receiver, selection>>

Complete == read_ignore = 0 /\ Len(read_data) = read_length

\* Mutant of Receive: an answer that is ignored gives no credit back.
ReceiveUncredited ==
  /\ pc = "receive" /\ status_RRDY
  /\ RRDY' = FALSE
  /\ \/ /\ read_ignore > 0
        /\ read_ignore' = read_ignore - 1
        /\ UNCHANGED <<read_data, credits>>
     \/ /\ read_ignore = 0
        /\ read_data' = Append(read_data, rx_holding_reg)
        /\ credits' = credits + 1
        /\ UNCHANGED read_ignore
  /\ UNCHANGED <<caller, write_data, write_zeros, status, shifter,
                 rx_holding_reg, ROE, selection>>
  /\ pc' = IF Complete' THEN "drain" ELSE "poll"

Receive ==
  /\ pc = "receive" /\ status_RRDY
  /\ RRDY' = FALSE
  /\ \/ /\ read_ignore > 0
        /\ read_ignore' = read_ignore - 1
        /\ UNCHANGED read_data
     \/ /\ read_ignore = 0
        /\ read_data' = Append(read_data, rx_holding_reg)
        /\ UNCHANGED read_ignore
  /\ credits' = credits + 1
  /\ UNCHANGED <<caller, write_data, write_zeros, status, shifter,
                 rx_holding_reg, ROE, selection>>
  /\ pc' = IF Complete' THEN "drain" ELSE "poll"

ReceiveNothing ==
  /\ pc = "receive" /\ ~status_RRDY
  /\ pc' = "poll"
  /\ UNCHANGED <<caller, command, status, shifter, receiver, selection>>

Drain ==
  /\ pc = "drain" /\ TMT /\ pc' = "release"
  /\ UNCHANGED <<caller, command, status, shifter, receiver, selection>>

Release ==
  /\ pc = "release" /\ pc' = IF starting THEN "reset" ELSE "idle"
  /\ SSO' = FALSE
  /\ UNCHANGED <<caller, command, status, shifter, receiver, cut_off, heard>>

Command == \/ Select \/ Discard \/ Poll \/ Send \/ Receive \/ ReceiveNothing
           \/ Drain \/ Release

-----------------------------------------------------------------------------
(* A restart of the processor, whose locals are dead, at any point.        *)

Restart ==
  /\ restarts < MaxRestarts /\ restarts' = restarts + 1
  /\ starting' = TRUE /\ pc' = "boot"
  /\ write_length' = 0 /\ read_length' = 0
  /\ write_data' = 0 /\ write_zeros' = 0 /\ read_ignore' = 0
  /\ credits' = 0 /\ read_data' = <<>>
  /\ status_TRDY' = FALSE /\ status_RRDY' = FALSE
  /\ UNCHANGED <<shifter, receiver, selection>>

(* MAX3421E_init.                                                          *)

\* rPINCTL is written first, to a chip that may still be selected.  The way
\* to main and its first printf outlast a byte that was being shifted.
SetPins == pc = "boot" /\ TMT /\ MAXreg_wr

\* MAX3421E_reset holds the chip in reset for a second.
ResetChip ==
  /\ pc = "reset" /\ pc' = "idle"
  /\ starting' = FALSE
  /\ UNCHANGED <<restarts, write_length, read_length, command, status, shifter,
                 receiver, selection>>

Boot == SetPins \/ ResetChip

SpiNext == Access \/ Command \/ ByteDone \/ Restart \/ Boot

\* The processor runs and the master shifts; the firmware need not call.
SpiSpec == /\ SpiInit /\ [][SpiNext]_spiVars
           /\ WF_spiVars(Command) /\ WF_spiVars(ByteDone) /\ WF_spiVars(Boot)
-----------------------------------------------------------------------------
Flags == {starting, status_TRDY, status_RRDY, transmitting, tx_holding_primed, RRDY, ROE, TOE,
          SSO} \subseteq BOOLEAN

Ranges ==
  /\ pc \in {"idle", "select", "discard", "poll", "send", "receive", "drain",
             "release", "boot", "reset"}
  /\ restarts \in 0..MaxRestarts
  /\ write_length \in 0..MaxBytes + 1 /\ read_length \in 0..MaxBytes
  /\ write_data \in 0..MaxBytes + 1 /\ write_zeros \in 0..MaxBytes
  /\ read_ignore \in 0..MaxBytes + 1 /\ credits \in 0..1
  /\ {shift_reg, tx_holding_reg, rx_holding_reg} \subseteq Nat
  /\ {read_data, cut_off, heard} \subseteq Seq(Nat)

SpiTypeOK == Flags /\ Ranges

\* No answer is overwritten before it is read and no byte before it is sent,
\* however slow the processor is and also when it was restarted
\* (altera_avalon_spi.c:53-57,76).
NothingOverrun == ~ROE /\ ~TOE

\* The chip is selected by the access; the byte it will have heard next.
InAccess == pc \in {"discard", "poll", "send", "receive", "drain", "release"}
Shifting == IF transmitting THEN <<shift_reg>> ELSE <<>>

\* Once the chip is reset, every access sends its bytes and gets its answers,
\* each once, in order and in one selection of the chip; answers to an access
\* that a restart cut off are given to nobody.  Before, there is only the write
\* of rPINCTL, whose bytes the chip hears behind those of the access cut off
\* (altera_avalon_spi.c:71-76,106-115,130; MAX3421E.c:241-242).
Chip == INSTANCE ChipAccess
  WITH access <- IF InAccess THEN <<write_length, read_length>> ELSE <<>>,
       heard <- IF InAccess THEN cut_off ELSE cut_off \o heard \o Shifting,
       read <- IF InAccess THEN <<>> ELSE read_data,
       selected <- SSO
AccessesChip == Chip!Spec

\* An access and the start-up end: with one credit the loop never waits for a
\* byte that it cannot send, and it stops asking once all is sent
\* (altera_avalon_spi.c:86,101).
AccessReturns == pc # "idle" ~> pc = "idle"
=============================================================================
