---------------------------- MODULE SettleTimer -----------------------------
(***************************************************************************)
(* The wait of USB_Task (transfer.c) between the attachment of a device    *)
(* and its bus reset, against the clock it reads.  The tick counter and    *)
(* the product by which the ticks become milliseconds are 32-bit words, so *)
(* the milliseconds start again at 0 long before the tick counter does.    *)
(***************************************************************************)
EXTENDS Integers

CONSTANTS Word,        \* 2^32
          Thousand,    \* 1000: milliseconds in a second
          Rate,        \* alt_ticks_per_second(): 1000
          Settle,      \* 200 milliseconds
          LoopTicks    \* bound: ticks from one USB_Task to the next

\* A tick is a millisecond, and a deadline fits in a word.
ASSUME TimerAssumption ==
  /\ Word \in Nat /\ Thousand \in Nat \ {0} /\ Rate = Thousand
  /\ Settle \in Nat /\ LoopTicks \in Nat \ {0}
  /\ Thousand < Word /\ (Word - 1) \div Rate + Settle < Word

VARIABLES nticks,           \* _alt_nticks
          usb_task_state,
          usb_delay,        \* the deadline
          idle,             \* ticks since the last USB_Task
          waited            \* history: ticks since the device was attached

vars == <<nticks, usb_task_state, usb_delay, idle, waited>>

\* (alt_nticks()*1000)/alt_ticks_per_second()
Milliseconds(ticks) == ((ticks * Thousand) % Word) \div Rate
now == Milliseconds(nticks)
LastMillisecond == (Word - 1) \div Rate
Longest == Settle + LoopTicks + 1       \* bound of waited

Init == /\ nticks = 0
        /\ usb_task_state = "WAIT_FOR_DEVICE"
        /\ usb_delay = 0
        /\ idle = 0 /\ waited = 0

-----------------------------------------------------------------------------
\* The connection interrupt, also of a device that is replaced.
Attached == /\ usb_task_state' = "ATTACHED"
            /\ waited' = 0
            /\ UNCHANGED <<nticks, usb_delay, idle>>

\* Mutant of StartSettle: the deadline is kept in the clock's range.
StartSettleInRange == /\ usb_task_state = "ATTACHED"
                      /\ usb_delay' = (now + Settle) % (LastMillisecond + 1)
                      /\ usb_task_state' = "SETTLE"

StartSettle == /\ usb_task_state = "ATTACHED"
               /\ usb_delay' = (now + Settle) % Word
               /\ usb_task_state' = "SETTLE"

\* Mutant of Expired: only the first millisecond after the deadline counts.
ExpiredExactly == now = usb_delay + 1

Expired == now > usb_delay

Settled == /\ usb_task_state = "SETTLE" /\ Expired
           /\ usb_task_state' = "RESET_DEVICE"
           /\ UNCHANGED usb_delay

\* Still settling, or in a state that does not look at the clock.
NotYet == /\ \/ usb_task_state = "SETTLE" /\ ~Expired
             \/ usb_task_state \in {"WAIT_FOR_DEVICE", "RESET_DEVICE"}
          /\ UNCHANGED <<usb_task_state, usb_delay>>

USB_Task == /\ StartSettle \/ Settled \/ NotYet
            /\ idle' = 0
            /\ waited' = IF usb_task_state = "ATTACHED" THEN 0 ELSE waited
            /\ UNCHANGED nticks

alt_tick == /\ idle < LoopTicks
            /\ nticks' = (nticks + 1) % Word
            /\ idle' = idle + 1
            /\ waited' = IF waited < Longest THEN waited + 1 ELSE waited
            /\ UNCHANGED <<usb_task_state, usb_delay>>

Next == Attached \/ USB_Task \/ alt_tick

Spec == Init /\ [][Next]_vars
-----------------------------------------------------------------------------
TypeOK == /\ nticks \in 0..Word - 1
          /\ usb_task_state \in {"WAIT_FOR_DEVICE", "ATTACHED", "SETTLE", "RESET_DEVICE"}
          /\ usb_delay \in 0..LastMillisecond + Settle
          /\ idle \in 0..LoopTicks
          /\ waited \in 0..Longest

\* A device is never reset before its settle time is over, wherever the clock
\* starts again (transfer.c:277-284).
NotResetEarly ==
  [][usb_task_state = "SETTLE" /\ usb_task_state' = "RESET_DEVICE" => waited > Settle]_vars

\* The settle time ends with the first look at the clock after the deadline,
\* unless the deadline is so late that the clock may start again before that:
\* a word is no whole number of seconds, and the clock does not come to its
\* last millisecond every time.
SettlesInTime ==
  usb_task_state = "SETTLE" /\ usb_delay + LoopTicks < LastMillisecond
    => waited <= Settle + LoopTicks
=============================================================================
