------------------------------ MODULE JtagUart -------------------------------
(***************************************************************************)
(* The console, on which the firmware prints: the interrupt-driven driver  *)
(* of the JTAG UART.  write copies bytes into a circular buffer, from      *)
(* which the interrupt handler moves them to the FIFO of the UART; an      *)
(* alarm notices, once a second, when no host reads them.  Characters that *)
(* are typed at the host fill a circular buffer that nobody empties: the   *)
(* firmware never reads, and rx_out stays 0.                               *)
(*                                                                         *)
(* There is one thread and no nesting of interrupts.  The writer can be    *)
(* interrupted between any two accesses to what it shares with the         *)
(* handler, and the host works while the handler runs.                     *)
(***************************************************************************)
EXTENDS Integers

CONSTANTS BufLen,      \* 2048
          Fifo,        \* 64, the depth of the UART's FIFOs
          ReadThreshold,   \* 8: so few slots left in the receive FIFO, or
          WriteThreshold,  \* 8: so few bytes left to send, raise an interrupt
          Timeout,     \* 10 alarms
          MaxCount,    \* bound: bytes of one write
          Numbers      \* bound: bytes are numbered modulo Numbers

ASSUME UartAssumption ==
  /\ BufLen \in Nat /\ BufLen > 1
  /\ Fifo \in Nat /\ ReadThreshold \in 0..Fifo - 1 /\ WriteThreshold \in 0..Fifo - 1
  /\ Timeout \in Nat \ {0} /\ MaxCount \in Nat \ {0}
  /\ Numbers \in Nat /\ BufLen <= Numbers

VARIABLES tx_buf, tx_in, tx_out, rx_in,
          RE, WE,              \* irq_enable, as in the control register
          host_inactive,
          wfifo, rfifo,        \* the UART: bytes in its FIFOs,
          AC, pause_irq,       \* host activity, a pause after typing
          write, count, n, out,   \* the writer and its locals
          irq, space, ravail,     \* the handler and its locals
          accepted, delivered     \* history: numbers of the next bytes

driver == <<tx_buf, tx_in, tx_out, rx_in, RE, WE, host_inactive>>
uart == <<wfifo, rfifo, AC, pause_irq>>
writer == <<write, count, n, out>>
handler == <<irq, space, ravail>>
history == <<accepted, delivered>>
uartVars == <<driver, uart, writer, handler, history>>

Slots == 0..BufLen - 1

\* Initialised by alt_sys_init, after the timer whose alarm it needs.
UartInit == /\ tx_buf = [i \in Slots |-> 0]
            /\ tx_in = 0 /\ tx_out = 0 /\ rx_in = 0
            /\ RE = TRUE /\ WE = FALSE /\ host_inactive = 0
            /\ wfifo = 0 /\ rfifo = 0 /\ AC = FALSE /\ pause_irq = FALSE
            /\ write = "idle" /\ count = 0 /\ n = 0 /\ out = 0
            /\ irq = "idle" /\ space = 0 /\ ravail = FALSE
            /\ accepted = 0 /\ delivered = 0

-----------------------------------------------------------------------------
\* The writer: altera_avalon_jtag_uart_write, in blocking mode.
Thread == /\ irq = "idle"
          /\ UNCHANGED <<tx_out, rx_in, RE, host_inactive, uart, handler, delivered>>

Call == /\ write = "idle"
        /\ count' \in 1..MaxCount
        /\ write' = "plan"
        /\ UNCHANGED <<tx_buf, tx_in, WE, n, out, accepted>>

\* Mutant of Free: the slot before the first one is taken as well.
FreeAll(in, o) == IF in < o THEN o - 1 - in ELSE BufLen - in

\* The free slots after in that are next to each other; one slot stays free.
Free(in, o) == IF in < o THEN o - 1 - in
               ELSE IF o > 0 THEN BufLen - in ELSE BufLen - 1 - in

Smaller(a, b) == IF a < b THEN a ELSE b

\* The head of the copying loop: all copied or no room, or a part to copy.
Plan == /\ write = "plan"
        /\ out' = IF count > 0 THEN tx_out ELSE out
        /\ n' = IF count > 0 THEN Smaller(Free(tx_in, tx_out), count) ELSE 0
        /\ write' = IF n' = 0 THEN "kick" ELSE "copy"
        /\ UNCHANGED <<tx_buf, tx_in, WE, count, accepted>>

Copy == /\ write = "copy"
        /\ tx_buf' = [i \in Slots |-> IF i \in tx_in..tx_in + n - 1
                                      THEN (accepted + i - tx_in) % Numbers
                                      ELSE tx_buf[i]]
        /\ count' = count - n
        /\ write' = "publish"
        /\ UNCHANGED <<tx_in, WE, n, out, accepted>>

Publish == /\ write = "publish"
           /\ tx_in' = (tx_in + n) % BufLen
           /\ accepted' = (accepted + n) % Numbers
           /\ write' = "plan"
           /\ UNCHANGED <<tx_buf, WE, count, n, out>>

Kick == /\ write = "kick"
        /\ WE' = TRUE
        /\ write' = IF count > 0 THEN "wait" ELSE "idle"
        /\ UNCHANGED <<tx_buf, tx_in, count, n, out, accepted>>

\* Some room again, or no host any more: what is left of the text is given up
\* when the host was silent at the last alarm.
Wait == /\ write = "wait"
        /\ out # tx_out \/ host_inactive >= Timeout
        /\ write' = IF host_inactive > 0 THEN "idle" ELSE "plan"
        /\ UNCHANGED <<tx_buf, tx_in, WE, count, n, out, accepted>>

Write == Thread /\ (Call \/ Plan \/ Copy \/ Publish \/ Kick \/ Wait)
Running == Thread /\ (Plan \/ Copy \/ Publish \/ Kick \/ Wait)

-----------------------------------------------------------------------------
\* The interrupts, as the UART raises them: few slots are left for what is
\* typed, or the host paused; few bytes are left to send.
RI == RE /\ (pause_irq \/ Fifo - rfifo <= ReadThreshold)
WI == WE /\ wfifo <= WriteThreshold

\* The control register is read: both causes are dealt with as they are now,
\* and of the receive FIFO it is assumed that there is something in it.
Dispatch == /\ irq' = IF RI THEN "read" ELSE IF WI THEN "write" ELSE "idle"
            /\ space' = IF WI THEN Fifo - wfifo ELSE 0
            /\ ravail' = RI
            /\ UNCHANGED <<driver, uart, history>>

Interrupt == irq = "idle" /\ (RI \/ WI) /\ Dispatch
Again == irq = "top" /\ Dispatch

RxFull == (rx_in + 1) % BufLen = 0

\* A read of the data register ends the host's pause.
RxByte == /\ irq = "read" /\ ~RxFull /\ rfifo > 0
          /\ rx_in' = (rx_in + 1) % BufLen
          /\ rfifo' = rfifo - 1 /\ pause_irq' = FALSE
          /\ ravail' = (rfifo > 1)
          /\ UNCHANGED <<tx_buf, tx_in, tx_out, RE, WE, host_inactive, wfifo, AC, irq, space, history>>

\* With the FIFO empty the read is not valid, but RAVAIL, a cycle later, is not
\* 0 if a byte arrives meanwhile.
RxEmpty == /\ ~RxFull /\ rfifo = 0
           /\ rfifo' \in {0, 1} /\ pause_irq' = FALSE
           /\ AC' = (AC \/ rfifo' = 1)

\* Mutant of RxDone: the interrupt stays enabled.
RxDoneOnly == /\ irq = "read"
              /\ RxEmpty \/ (RxFull /\ UNCHANGED <<rfifo, AC, pause_irq>>)
              /\ irq' = IF space > 0 THEN "write" ELSE "top"
              /\ ravail' = FALSE
              /\ UNCHANGED <<driver, wfifo, space, history>>

\* No room, or nothing to read: with data left the interrupt is disabled.  The
\* code takes this for a full buffer, but see RxEmpty.
RxDone == /\ irq = "read"
          /\ \/ /\ RxEmpty
                /\ RE' = IF rfifo' > 0 THEN FALSE ELSE RE
             \/ /\ RxFull
                /\ RE' = IF ravail THEN FALSE ELSE RE
                /\ UNCHANGED <<rfifo, AC, pause_irq>>
          /\ irq' = IF space > 0 THEN "write" ELSE "top"
          /\ ravail' = FALSE
          /\ UNCHANGED <<tx_buf, tx_in, tx_out, rx_in, WE, host_inactive, wfifo, space, history>>

TxByte == /\ irq = "write" /\ space > 0 /\ tx_out # tx_in
          /\ wfifo' = wfifo + 1
          /\ delivered' = (tx_buf[tx_out] + 1) % Numbers
          /\ tx_out' = (tx_out + 1) % BufLen
          /\ space' = space - 1
          /\ UNCHANGED <<tx_buf, tx_in, rx_in, RE, WE, host_inactive, rfifo, AC, pause_irq,
                         irq, ravail, accepted>>

\* Mutant of TxDone: the interrupt is disabled with the FIFO full, too.
TxDoneAlways == /\ irq = "write" /\ (space = 0 \/ tx_out = tx_in)
                /\ WE' = FALSE
                /\ irq' = "top" /\ space' = 0
                /\ UNCHANGED <<tx_buf, tx_in, tx_out, rx_in, RE, host_inactive, uart, ravail, history>>

\* With room left in the FIFO there is nothing to write.
TxDone == /\ irq = "write" /\ (space = 0 \/ tx_out = tx_in)
          /\ WE' = IF space > 0 THEN FALSE ELSE WE
          /\ irq' = "top" /\ space' = 0
          /\ UNCHANGED <<tx_buf, tx_in, tx_out, rx_in, RE, host_inactive, uart, ravail, history>>

Handler == /\ Interrupt \/ Again \/ RxByte \/ RxDone \/ TxByte \/ TxDone
           /\ UNCHANGED writer

-----------------------------------------------------------------------------
\* altera_avalon_jtag_uart_timeout, called by the timer's handler; the count
\* stops at a bound.
Alarm == /\ irq = "idle"
         /\ AC' = FALSE
         /\ host_inactive' = IF AC THEN 0 ELSE Smaller(host_inactive + 1, Timeout)
         /\ UNCHANGED <<tx_buf, tx_in, tx_out, rx_in, RE, WE, wfifo, rfifo, pause_irq,
                        writer, handler, history>>

\* The host reads the output, types, and pauses, as it does when it has nothing
\* to type; typing and pausing are its activity.
HostRead == /\ wfifo > 0
            /\ wfifo' = wfifo - 1
            /\ UNCHANGED <<driver, rfifo, AC, pause_irq, writer, handler, history>>

HostType == /\ rfifo' = Smaller(rfifo + 1, Fifo)
            /\ AC' = TRUE
            /\ UNCHANGED <<driver, wfifo, pause_irq, writer, handler, history>>

HostPause == /\ AC' = TRUE
             /\ pause_irq' = (pause_irq \/ rfifo > 0)
             /\ UNCHANGED <<driver, wfifo, rfifo, writer, handler, history>>

UartNext == Write \/ Handler \/ Alarm \/ HostRead \/ HostType \/ HostPause

\* The processor runs, interrupts are taken and the timer never stops.  The
\* host may, the firmware need not print again.
UartSpec == /\ UartInit /\ [][UartNext]_uartVars
            /\ WF_uartVars(Running) /\ WF_uartVars(Handler) /\ WF_uartVars(Alarm)
-----------------------------------------------------------------------------
Flags == {RE, WE, AC, pause_irq, ravail} \subseteq BOOLEAN

Ranges == /\ tx_buf \in [Slots -> 0..Numbers - 1]
          /\ tx_in \in Slots /\ tx_out \in Slots /\ rx_in \in Slots
          /\ host_inactive \in 0..Timeout
          /\ wfifo \in 0..Fifo /\ rfifo \in 0..Fifo /\ space \in 0..Fifo
          /\ write \in {"idle", "plan", "copy", "publish", "kick", "wait"}
          /\ count \in 0..MaxCount /\ n \in 0..MaxCount /\ out \in Slots
          /\ irq \in {"idle", "top", "read", "write"}
          /\ accepted \in 0..Numbers - 1 /\ delivered \in 0..Numbers - 1

UartTypeOK == Flags /\ Ranges

\* No byte to send waits for an interrupt that is disabled: with the transmit
\* interrupt off the buffer is empty, unless the writer is about to enable it,
\* however its stores and the handler's are interleaved
\* (altera_avalon_jtag_uart_init.c:186, altera_avalon_jtag_uart_write.c:136-149).
NothingStranded ==
  ~WE => tx_in = tx_out \/ write \in {"plan", "copy", "publish", "kick"}

\* Every byte that write takes reaches the UART, once, in order and unchanged,
\* whatever part of the buffer is written while the handler reads another
\* (altera_avalon_jtag_uart_write.c:103, altera_avalon_jtag_uart_init.c:174).
Stream ==
  INSTANCE ByteStream WITH Capacity <- BufLen - 1
DeliversStream == Stream!Spec

\* A host that again and again types or asks for output also takes some: the
\* driver waits for a host that is active, whether it reads or not.
HostReads == []<>AC => []<>(wfifo <= WriteThreshold)

\* print ends, with a host that reads slowly, stops reading or was never there,
\* and however much is typed (altera_avalon_jtag_uart_write.c:183): the
\* handler's loops end and leave the processor to the writer.
WriteReturns == HostReads => (write # "idle" ~> write = "idle")
=============================================================================
