----------------------------- MODULE SystemClock -----------------------------
(***************************************************************************)
(* The system clock and what hangs on it: the settle time of SettleTimer,  *)
(* which compares milliseconds, and the alarm of the console (JtagUart),   *)
(* which compares ticks.  Both have to come to terms with a tick counter   *)
(* that starts again at 0.                                                 *)
(*                                                                         *)
(* One alarm is ever started, by the console's driver, and its callback    *)
(* always asks for another second.                                         *)
(***************************************************************************)
EXTENDS SettleTimer

\* The alarm's time and one more tick fit in a word.
ASSUME AlarmAssumption == Rate \in Nat /\ Rate + 1 < Word

VARIABLES started,           \* the alarm is in alt_alarm_list
          time, rollover,
          due,               \* history: ticks that were asked for,
          elapsed            \* history: and have passed since then

alarm == <<started, time, rollover, due, elapsed>>
clock == <<vars, alarm>>

ClockInit == /\ Init
             /\ started = FALSE /\ time = 0 /\ rollover = FALSE
             /\ due = 0 /\ elapsed = 0

\* One tick more than asked for: the current one has begun.
alt_alarm_start == /\ ~started /\ started' = TRUE
                   /\ time' = (Rate + nticks + 1) % Word
                   /\ rollover' = (time' < nticks)
                   /\ due' = Rate + 1 /\ elapsed' = 0
                   /\ UNCHANGED vars

\* Mutant of Expires: the flag is looked at before it is cleared.
ExpiresBefore == started /\ time <= nticks' /\ ~rollover

\* The flag is cleared when the counter starts again.
Expires == started /\ time <= nticks' /\ (rollover => nticks' = 0)

\* altera_avalon_jtag_uart_timeout, which returns a second.
Callback == /\ time' = (time + Rate) % Word
            /\ rollover' = (time' < nticks')
            /\ due' = Rate /\ elapsed' = 0
            /\ UNCHANGED started

NoCallback == /\ rollover' = (rollover /\ nticks' # 0)
              /\ elapsed' = IF started THEN elapsed + 1 ELSE 0
              /\ UNCHANGED <<started, time, due>>

Tick == /\ alt_tick
        /\ \/ Expires /\ Callback
           \/ ~Expires /\ NoCallback

ClockNext == \/ alt_alarm_start
             \/ Tick
             \/ (Attached \/ USB_Task) /\ UNCHANGED alarm

ClockSpec == ClockInit /\ [][ClockNext]_clock
-----------------------------------------------------------------------------
\* The console looks for its host every second, neither early nor late nor
\* never, wherever the tick counter starts again (alt_tick.c:109-137,
\* alt_alarm_start.c:82-96).
AlarmOnTime ==
  [][Tick /\ started => (Expires <=> elapsed + 1 = due)]_clock
=============================================================================
