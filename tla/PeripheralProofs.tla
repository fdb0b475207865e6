-------------------------- MODULE PeripheralProofs --------------------------
(***************************************************************************)
(* The parts around the game that keep time or talk to the console, for    *)
(* words, pictures and buffers of every size: the system clock, the        *)
(* counter behind the player's mouth and the driver of the JTAG UART.      *)
(***************************************************************************)
EXTENDS SystemClock, MouthCounter, JtagUart, TLAPS

-----------------------------------------------------------------------------
(* The system clock: its two waits.                                        *)

LEMMA Sizes ==
  /\ Word \in Nat \ {0} /\ Rate \in Nat \ {0} /\ Thousand = Rate /\ Rate + 1 < Word
  /\ Settle \in Nat /\ LoopTicks \in Nat \ {0}
  /\ LastMillisecond + Settle < Word
BY TimerAssumption, AlarmAssumption DEF LastMillisecond

-----------------------------------------------------------------------------
LEMMA Remainder == ASSUME NEW w \in Nat \ {0}, NEW x \in Nat PROVE x % w \in 0..w - 1
OBVIOUS

LEMMA NextRemainder ==
  ASSUME NEW w \in Nat \ {0}, NEW x \in Nat, NEW y \in 0..w - 1
  PROVE  (x + y) % w = (x % w) + y \/ (x + y) % w = (x % w) + y - w
<1>1. x = w * (x \div w) + (x % w) /\ x \div w \in Nat /\ x % w \in 0..w - 1
  OBVIOUS
<1>2. x + y = w * ((x + y) \div w) + ((x + y) % w) /\ (x + y) \div w \in Nat /\ (x + y) % w \in 0..w - 1
  OBVIOUS
<1> DEFINE q == x \div w
           Q == (x + y) \div w
<1>3. \A a, b \in Nat : a < b => (w * a) + w <= w * b
  <2> SUFFICES ASSUME NEW a \in Nat, NEW b \in Nat, a < b PROVE (w * a) + w <= w * b
    OBVIOUS
  <2>1. w * (b - a - 1) >= 0 /\ w * (b - a - 1) = (w * b) - (w * a) - w
    OBVIOUS
  <2>2. w * a \in Int /\ w * b \in Int
    OBVIOUS
  <2> QED  BY <2>1, <2>2
<1>4. w * q \in Nat /\ w * Q \in Nat /\ w * (q + 1) = (w * q) + w /\ q + 1 \in Nat
  BY <1>1, <1>2
<1> HIDE DEF q, Q
<1>5. Q = q \/ Q = q + 1
  <2>1. ~(Q < q)
    BY <1>1, <1>2, <1>3, <1>4 DEF q, Q
  <2>2. ~(q + 1 < Q)
    BY <1>1, <1>2, <1>3, <1>4 DEF q, Q
  <2> QED  BY <1>1, <1>2, <2>1, <2>2 DEF q, Q
<1> QED  BY <1>1, <1>2, <1>4, <1>5 DEF q, Q

LEMMA Quotient ==
  ASSUME NEW w \in Nat \ {0}, NEW x \in Nat, NEW y \in Nat, x <= y
  PROVE  x \div w \in Nat /\ x \div w <= y \div w
OBVIOUS

LEMMA NextQuotient ==
  ASSUME NEW w \in Nat \ {0}, NEW x \in Nat
  PROVE  (x + w) \div w = (x \div w) + 1
OBVIOUS

\* A tick is a millisecond, or the milliseconds start again, from one of the
\* last two.
LEMMA OneMillisecond ==
  ASSUME NEW t \in Nat
  PROVE  /\ Milliseconds(t) \in 0..LastMillisecond
         /\ Milliseconds(t + 1) \in {0, Milliseconds(t) + 1}
         /\ Milliseconds(t + 1) = Milliseconds(t) + 1 \/ Milliseconds(t) >= LastMillisecond - 1
<1> USE Sizes
<1> DEFINE p == t * Rate
<1>1. p \in Nat /\ (t + 1) * Rate = p + Rate
  OBVIOUS
<1> HIDE DEF p
<1>2. p % Word \in 0..Word - 1
  BY <1>1, Remainder
<1> Word \in Nat \ {0} /\ Rate \in 0..Word - 1
  OBVIOUS
<1>3. (p + Rate) % Word = (p % Word) + Rate \/ (p + Rate) % Word = (p % Word) + Rate - Word
  BY <1>1, NextRemainder
<1>4. Milliseconds(t) = (p % Word) \div Rate
  BY DEF Milliseconds, p
<1>5. Milliseconds(t + 1) = ((p + Rate) % Word) \div Rate
  BY <1>1 DEF Milliseconds
<1>6. Milliseconds(t) \in 0..LastMillisecond
  BY <1>2, <1>4, Quotient DEF LastMillisecond
<1>7. CASE (p + Rate) % Word = (p % Word) + Rate
  <2>1. p % Word \in Nat
    BY <1>2
  <2>2. ((p % Word) + Rate) \div Rate = ((p % Word) \div Rate) + 1
    BY <2>1, NextQuotient
  <2> QED  BY <1>4, <1>5, <1>6, <1>7, <2>2
<1>8. CASE (p + Rate) % Word = (p % Word) + Rate - Word
  <2>1. (p + Rate) % Word \in 0..Rate - 1
    BY <1>1, <1>2, <1>8, Remainder
  <2>2. ((p + Rate) % Word) \div Rate = 0
    BY <2>1
  <2>3. Word - 1 - Rate \in Nat /\ Word - 1 - Rate <= p % Word /\ p % Word \in Nat
    BY <1>2, <1>8, <2>1
  <2>4. LastMillisecond = ((Word - 1 - Rate) \div Rate) + 1
    <3>1. ((Word - 1 - Rate) + Rate) \div Rate = ((Word - 1 - Rate) \div Rate) + 1
      BY <2>3, NextQuotient
    <3> QED  BY <3>1 DEF LastMillisecond
  <2>5. (Word - 1 - Rate) \div Rate \in Nat /\ (Word - 1 - Rate) \div Rate <= (p % Word) \div Rate
    BY <2>3, Quotient
  <2>6. Milliseconds(t) >= LastMillisecond - 1
    BY <1>4, <1>6, <2>4, <2>5
  <2> QED  BY <1>5, <1>6, <2>2, <2>6
<1> QED  BY <1>3, <1>6, <1>7, <1>8
-----------------------------------------------------------------------------
\* The clock is at most as far from the time at which the deadline was set as
\* the ticks are: it starts again, but it never jumps ahead.
Late == usb_task_state = "SETTLE" =>
          waited > Settle \/ now - (usb_delay - Settle) <= waited

\* With a deadline that is early enough, the clock has not started again when
\* the loop comes to look at it.
Soon == usb_task_state = "SETTLE" /\ usb_delay + LoopTicks < LastMillisecond =>
          now <= usb_delay + idle /\ waited = now - (usb_delay - Settle)

ClockInv == TypeOK /\ Late /\ Soon

\* The alarm's time is due, in ticks that start again: the flag says whether
\* the counter does before.
Due == started =>
         /\ due \in {Rate, Rate + 1} /\ elapsed \in 0..due - 1
         /\ IF nticks + due - elapsed < Word
            THEN time = nticks + due - elapsed /\ ~rollover
            ELSE time = nticks + due - elapsed - Word /\ rollover

IInv == ClockInv /\ Due

-----------------------------------------------------------------------------
LEMMA NowMoves ==
  ASSUME nticks \in 0..Word - 1, nticks' = (nticks + 1) % Word
  PROVE  /\ now \in 0..LastMillisecond /\ now' \in {0, now + 1}
         /\ now' = now + 1 \/ now >= LastMillisecond - 1
         /\ nticks' = IF nticks + 1 < Word THEN nticks + 1 ELSE 0
<1> USE Sizes
<1>1. nticks' = IF nticks + 1 < Word THEN nticks + 1 ELSE 0
  OBVIOUS
<1>2. now = Milliseconds(nticks) /\ now' = Milliseconds(nticks')
  BY DEF now, Milliseconds
<1>3. CASE nticks + 1 < Word
  BY <1>1, <1>2, <1>3, OneMillisecond
<1>4. CASE nticks + 1 >= Word
  <2>1. Milliseconds(0) = 0
    BY DEF Milliseconds
  <2>2. nticks + 1 = Word /\ (Word * Rate) % Word = 0
    BY <1>4
  <2>3. Milliseconds(nticks + 1) = 0
    BY <2>2 DEF Milliseconds
  <2> QED  BY <1>1, <1>2, <1>4, <2>1, <2>3, OneMillisecond
<1> QED  BY <1>1, <1>3, <1>4

LEMMA TickKeeps == ASSUME ClockInv, alt_tick PROVE ClockInv'
<1> USE Sizes
<1>1. /\ nticks \in 0..Word - 1 /\ idle \in 0..LoopTicks /\ waited \in 0..Longest
      /\ usb_delay \in 0..LastMillisecond + Settle
  BY DEF ClockInv, TypeOK
<1>2. /\ now \in 0..LastMillisecond /\ now' \in {0, now + 1} /\ nticks' \in 0..Word - 1
  BY <1>1, NowMoves DEF alt_tick
<1>3. Longest = Settle + LoopTicks + 1 /\ Longest' = Longest
  BY DEF Longest
<1>4. TypeOK'
  BY <1>1, <1>2, <1>3 DEF ClockInv, TypeOK, alt_tick, LastMillisecond
<1>5. Late'
  <2> SUFFICES ASSUME usb_task_state' = "SETTLE"
               PROVE  waited' > Settle \/ now' - (usb_delay' - Settle) <= waited'
    BY DEF Late
  <2>1. /\ usb_delay' = usb_delay
        /\ waited > Settle \/ now - (usb_delay - Settle) <= waited
    BY DEF alt_tick, ClockInv, Late
  <2>2. waited' = waited + 1 \/ waited' = Longest
    BY <1>1, <1>3 DEF alt_tick
  <2>3. now' <= now + 1 /\ now' \in Nat
    BY <1>2
  <2> QED  BY <1>1, <1>2, <1>3, <2>1, <2>2, <2>3
<1>6. Soon'
  <2> SUFFICES ASSUME usb_task_state' = "SETTLE", usb_delay' + LoopTicks < LastMillisecond
               PROVE  now' <= usb_delay' + idle' /\ waited' = now' - (usb_delay' - Settle)
    BY <1>3 DEF Soon, LastMillisecond
  <2>1. /\ usb_task_state = "SETTLE" /\ usb_delay' = usb_delay
        /\ idle < LoopTicks /\ idle' = idle + 1
        /\ waited' = IF waited < Longest THEN waited + 1 ELSE waited
    BY DEF alt_tick
  <2>2. now <= usb_delay + idle /\ waited = now - (usb_delay - Settle)
    BY <2>1 DEF ClockInv, Soon
  <2>3. now + 1 < LastMillisecond
    <3>1. LastMillisecond \in Int /\ usb_delay \in Int /\ idle \in Int /\ LoopTicks \in Int
      BY <1>1 DEF LastMillisecond
    <3>2. now \in Int /\ now <= usb_delay + idle /\ idle < LoopTicks
      BY <1>2, <2>1, <2>2
    <3>3. usb_delay + LoopTicks < LastMillisecond
      BY <2>1
    <3> HIDE DEF now, LastMillisecond
    <3> QED  BY <3>1, <3>2, <3>3
  <2>4. now' = now + 1
    <3>1. now' = now + 1 \/ now >= LastMillisecond - 1
      BY <1>1, NowMoves DEF alt_tick
    <3>2. now \in Int /\ LastMillisecond \in Int
      BY <1>2, <2>3 DEF LastMillisecond
    <3> QED  BY <2>3, <3>1, <3>2
  <2>5. waited < Longest
    BY <1>1, <1>2, <1>3, <2>1, <2>2
  <2> QED  BY <1>1, <1>2, <2>1, <2>2, <2>4, <2>5
<1> QED  BY <1>4, <1>5, <1>6 DEF ClockInv

LEMMA LoopKeeps ==
  ASSUME ClockInv, Attached \/ USB_Task
  PROVE  ClockInv' /\ (usb_task_state = "SETTLE" /\ usb_task_state' = "RESET_DEVICE" => waited > Settle)
<1> USE Sizes
<1>1. /\ nticks \in 0..Word - 1 /\ idle \in 0..LoopTicks /\ waited \in 0..Longest
      /\ usb_delay \in 0..LastMillisecond + Settle /\ Longest \in Nat /\ LastMillisecond \in Nat
      /\ usb_task_state \in {"WAIT_FOR_DEVICE", "ATTACHED", "SETTLE", "RESET_DEVICE"}
  BY DEF ClockInv, TypeOK, Longest, LastMillisecond
<1>2. now \in 0..LastMillisecond
  BY <1>1, OneMillisecond DEF now
<1>3. nticks' = nticks /\ now' = now /\ LastMillisecond' = LastMillisecond /\ Longest' = Longest
  BY DEF Attached, USB_Task, now, Milliseconds, LastMillisecond, Longest
<1>4. CASE Attached
  <2>1. TypeOK'
    BY <1>1, <1>3, <1>4 DEF Attached, TypeOK
  <2> QED  BY <1>4, <2>1 DEF Attached, ClockInv, Late, Soon
<1>5. CASE USB_Task /\ StartSettle
  <2>1. usb_delay' = now + Settle
    <3>1. now + Settle \in 0..Word - 1
      <4> HIDE DEF now, LastMillisecond
      <4> QED  BY <1>1, <1>2
    <3> QED  BY <1>5, <3>1 DEF StartSettle
  <2>2. usb_task_state = "ATTACHED" /\ usb_task_state' = "SETTLE" /\ idle' = 0 /\ waited' = 0
    BY <1>5 DEF StartSettle, USB_Task
  <2>3. TypeOK'
    BY <1>1, <1>2, <1>3, <2>1, <2>2 DEF TypeOK
  <2>4. now' - (usb_delay' - Settle) <= waited'
    BY <1>2, <1>3, <2>1, <2>2
  <2>5. now' <= usb_delay' + idle' /\ waited' = now' - (usb_delay' - Settle)
    BY <1>2, <1>3, <2>1, <2>2
  <2> QED  BY <2>2, <2>3, <2>4, <2>5 DEF ClockInv, Late, Soon
<1>6. CASE USB_Task /\ Settled
  <2>1. /\ usb_task_state = "SETTLE" /\ usb_task_state' = "RESET_DEVICE"
        /\ idle' = 0 /\ waited' = waited /\ usb_delay' = usb_delay /\ now > usb_delay
    BY <1>6 DEF Settled, Expired, USB_Task
  <2>2. TypeOK'
    BY <1>1, <1>3, <2>1 DEF TypeOK
  <2>3. waited > Settle
    BY <1>1, <1>2, <2>1 DEF ClockInv, Late
  <2> QED  BY <2>1, <2>2, <2>3 DEF ClockInv, Late, Soon
<1>7. CASE USB_Task /\ NotYet
  <2>1. /\ usb_task_state' = usb_task_state /\ idle' = 0 /\ usb_delay' = usb_delay
        /\ usb_task_state # "ATTACHED" /\ waited' = waited
    BY <1>7 DEF NotYet, USB_Task
  <2>2. TypeOK'
    BY <1>1, <1>3, <2>1 DEF TypeOK
  <2>3. usb_task_state = "SETTLE" => now <= usb_delay
    BY <1>1, <1>2, <1>7 DEF NotYet, Expired
  <2>4. Soon'
    BY <1>1, <1>2, <1>3, <2>1, <2>3 DEF ClockInv, Soon
  <2> QED  BY <1>3, <2>1, <2>2, <2>4 DEF ClockInv, Late
<1> QED  BY <1>4, <1>5, <1>6, <1>7 DEF USB_Task

LEMMA AlarmKeeps ==
  ASSUME nticks \in 0..Word - 1, Due, Tick
  PROVE  Due' /\ (started => (Expires <=> elapsed + 1 = due))
<1> USE Sizes
<1>1. nticks' = IF nticks + 1 < Word THEN nticks + 1 ELSE 0
  BY NowMoves DEF Tick, alt_tick
<1>2. CASE ~started
  <2>1. ~started'
    BY Zenon, <1>2 DEF Tick, Expires, NoCallback, Callback
  <2> QED  BY <1>2, <2>1 DEF Due
<1>3. CASE started
  <2>1. /\ due \in {Rate, Rate + 1} /\ elapsed \in 0..due - 1
        /\ IF nticks + due - elapsed < Word
           THEN time = nticks + due - elapsed /\ ~rollover
           ELSE time = nticks + due - elapsed - Word /\ rollover
    BY <1>3 DEF Due
  <2>2. Expires <=> elapsed + 1 = due
    BY <1>1, <1>3, <2>1 DEF Expires
  <2>3. CASE Expires
    <3>1. /\ time' = (time + Rate) % Word /\ (rollover' <=> time' < nticks')
          /\ due' = Rate /\ elapsed' = 0
      BY <2>3 DEF Tick, Callback
    <3>2. time = nticks'
      BY <1>1, <2>1, <2>2, <2>3
    <3>3. time' = IF time + Rate < Word THEN time + Rate ELSE time + Rate - Word
      BY <1>1, <3>1, <3>2
    <3>4. Due'
      BY <1>1, <3>1, <3>2, <3>3 DEF Due
    <3> QED  BY <2>2, <3>4
  <2>4. CASE ~Expires
    <3>1. /\ (rollover' <=> rollover /\ nticks' # 0) /\ elapsed' = elapsed + 1
          /\ time' = time /\ due' = due
      BY <1>3, <2>4 DEF Tick, NoCallback
    <3>2. elapsed' \in 0..due' - 1
      BY <2>1, <2>2, <2>4, <3>1
    <3>3. Due'
      BY <1>1, <2>1, <3>1, <3>2 DEF Due
    <3> QED  BY <2>2, <3>3
  <2> QED  BY <2>3, <2>4
<1> QED  BY <1>2, <1>3

LEMMA StartKeeps ==
  ASSUME nticks \in 0..Word - 1, alt_alarm_start
  PROVE  Due'
<1> USE Sizes
<1>1. /\ time' = (Rate + nticks + 1) % Word /\ (rollover' <=> time' < nticks)
      /\ due' = Rate + 1 /\ elapsed' = 0 /\ nticks' = nticks
  BY DEF alt_alarm_start, vars
<1>2. time' = IF Rate + nticks + 1 < Word THEN Rate + nticks + 1 ELSE Rate + nticks + 1 - Word
  BY <1>1
<1> QED  BY <1>1, <1>2 DEF Due

-----------------------------------------------------------------------------
LEMMA Step ==
  ASSUME IInv, [ClockNext]_clock
  PROVE  IInv'
<1>1. nticks \in 0..Word - 1
  BY DEF IInv, ClockInv, TypeOK
<1>2. CASE alt_alarm_start
  <2>1. ClockInv'
    BY <1>2 DEF alt_alarm_start, vars, IInv, ClockInv, TypeOK, Late, Soon, now, Milliseconds,
       LastMillisecond, Longest
  <2> QED  BY <1>1, <1>2, <2>1, StartKeeps DEF IInv
<1>3. CASE Tick
  BY <1>1, <1>3, TickKeeps, AlarmKeeps DEF IInv, Tick
<1>4. CASE (Attached \/ USB_Task) /\ UNCHANGED alarm
  <2>1. nticks' = nticks
    BY <1>4 DEF Attached, USB_Task
  <2>2. Due'
    BY <1>4, <2>1 DEF IInv, Due, alarm
  <2> QED  BY <1>4, <2>2, LoopKeeps DEF IInv
<1>5. CASE UNCHANGED clock
  BY <1>5 DEF clock, alarm, vars, IInv, ClockInv, TypeOK, Late, Soon, now, Milliseconds,
     LastMillisecond, Longest, Due
<1> QED  BY <1>2, <1>3, <1>4, <1>5 DEF ClockNext

\* The clock, the deadline and the alarm, for words of every size.
THEOREM Invariance == ClockSpec => []IInv
<1>1. ClockInit => IInv
  BY Sizes DEF ClockInit, Init, IInv, ClockInv, TypeOK, Late, Soon, Due, LastMillisecond, Longest
<1> QED  BY <1>1, Step, PTL DEF ClockSpec

\* Ticks and deadlines keep their ranges.
THEOREM TypeCorrect == ClockSpec => []TypeOK
<1>1. IInv => TypeOK
  BY DEF IInv, ClockInv
<1> QED  BY <1>1, Invariance, PTL

\* No device is reset early, for words of every size and every settle time.
THEOREM SettleTimeKept == ClockSpec => NotResetEarly
<1>1. IInv /\ [ClockNext]_clock =>
        [usb_task_state = "SETTLE" /\ usb_task_state' = "RESET_DEVICE" => waited > Settle]_vars
  <2> SUFFICES ASSUME IInv, [ClockNext]_clock,
                      usb_task_state = "SETTLE", usb_task_state' = "RESET_DEVICE"
               PROVE  waited > Settle
    OBVIOUS
  <2>1. Attached \/ USB_Task
    BY DEF ClockNext, alt_alarm_start, Tick, alt_tick, clock, vars
  <2> QED  BY <2>1, LoopKeeps DEF IInv
<1> QED  BY <1>1, Invariance, PTL DEF ClockSpec, NotResetEarly

\* The settle time ends with the first look at the clock after the deadline,
\* for words of every size, unless the deadline is at the end of the clock.
THEOREM SettleTimeEnds == ClockSpec => []SettlesInTime
<1>1. IInv => SettlesInTime
  <2> SUFFICES ASSUME IInv, usb_task_state = "SETTLE",
                      usb_delay + LoopTicks < LastMillisecond
               PROVE  waited <= Settle + LoopTicks
    BY DEF SettlesInTime
  <2>1. now <= usb_delay + idle /\ waited = now - (usb_delay - Settle)
    BY DEF IInv, ClockInv, Soon
  <2>2. /\ nticks \in Nat /\ idle \in 0..LoopTicks /\ waited \in Nat
        /\ usb_delay \in 0..LastMillisecond + Settle
    BY Sizes DEF IInv, ClockInv, TypeOK, Longest
  <2>3. now \in Nat /\ usb_delay \in Int
    BY <2>2, OneMillisecond DEF now
  <2> QED  BY Sizes, <2>1, <2>2, <2>3
<1> QED  BY <1>1, Invariance, PTL

\* The alarm rings when it is due, for words of every size.
THEOREM RingsOnTime == ClockSpec => AlarmOnTime
<1>1. IInv /\ [ClockNext]_clock => [Tick /\ started => (Expires <=> elapsed + 1 = due)]_clock
  BY AlarmKeeps DEF IInv, ClockInv, TypeOK
<1> QED  BY <1>1, Invariance, PTL DEF ClockSpec, AlarmOnTime

-----------------------------------------------------------------------------
(* The VGA timing and the mouth.                                           *)

\* The sync pulse, as the counters see it one pixel after it was computed.
InPulse == \/ vc = VSyncFirst - 1 /\ hc > 0
           \/ vc = VSyncFirst
           \/ vc = VSyncFirst + 1 /\ hc = 0

\* The place of the beam before the first pixel, before the first pulse is
\* over, and in the frames after it.
Fresh == hc = 0 /\ vc = 0 /\ ~vs /\ counter = 0 /\ lines = 0

FirstFrame == /\ vc <= VSyncFirst \/ (vc = VSyncFirst + 1 /\ hc = 0)
              /\ lines = vc

LaterFrames == IF vc > VSyncFirst + 1 \/ (vc = VSyncFirst + 1 /\ hc > 0)
               THEN lines = vc - (VSyncFirst + 1)
               ELSE lines = vc + FrameLines - (VSyncFirst + 1)

\* Lines counted since the last frame edge give the beam's place, and the sync
\* signal follows it: with it the next edge can only come at its place.
MouthInv == /\ MouthTypeOK
            /\ ticks = 0 => Fresh
            /\ ticks > 0 => (vs <=> ~InPulse)
            /\ ticks = 1 => FirstFrame
            /\ ticks = 2 => LaterFrames

-----------------------------------------------------------------------------
LEMMA Arithmetic ==
  /\ hpixels \in Nat /\ vlines \in Nat /\ HDisplay \in Nat /\ VDisplay \in Nat
  /\ VSyncFirst \in Nat /\ Frames \in 1..15
  /\ hpixels > 2 /\ VDisplay + 1 < VSyncFirst /\ VSyncFirst + 1 < vlines
BY TimingAssumption, FramesAssumption

LEMMA MouthStart ==
  ASSUME clkdiv = FALSE, hc = 0, vc = 0, hs = FALSE, vs = FALSE,
         counter = 0, closePacman = FALSE, hasMoved = FALSE, ticks = 0, lines = 0
  PROVE  MouthInv
<1>1. {clkdiv, hs, vs, closePacman, hasMoved} \subseteq BOOLEAN /\ ~vs
  BY Zenon
<1>2. MouthTypeOK
  BY <1>1, Arithmetic DEF MouthTypeOK, FrameLines
<1> QED  BY <1>1, <1>2 DEF MouthInv, Fresh

LEMMA PixelPlace ==
  ASSUME MouthInv, Pixel
  PROVE  /\ hc' \in 0..hpixels /\ vc' \in 0..vlines
         /\ hs' \in BOOLEAN /\ vs' \in BOOLEAN
         /\ vs' <=> ~InPulse'
         /\ hc' = 0 <=> hc = hpixels
         /\ hc # hpixels => hc' = hc + 1 /\ vc' = vc
         /\ hc = hpixels => vc' = IF vc = vlines THEN 0 ELSE vc + 1
         /\ hc' = 0 => hc # 0
<1> USE Arithmetic
<1>1. hc \in 0..hpixels /\ vc \in 0..vlines
  BY DEF MouthInv, MouthTypeOK
<1>2. vs' <=> ~(vc + 1 = VSyncFirst \/ vc + 1 = VSyncFirst + 1)
  BY Zenon DEF Pixel, InVSync
<1>3. hs' \in BOOLEAN /\ vs' \in BOOLEAN
  BY Zenon DEF Pixel
<1>4. CASE hc = hpixels
  <2>1. hc' = 0 /\ vc' = IF vc = vlines THEN 0 ELSE vc + 1
    BY <1>4 DEF Pixel, Count
  <2>2. InPulse' <=> (vc + 1 = VSyncFirst \/ vc + 1 = VSyncFirst + 1)
    BY <1>1, <2>1 DEF InPulse
  <2> QED  BY <1>1, <1>2, <1>3, <1>4, <2>1, <2>2
<1>5. CASE hc # hpixels
  <2>1. hc' = hc + 1 /\ vc' = vc
    BY <1>5 DEF Pixel, Count
  <2>2. InPulse' <=> (vc + 1 = VSyncFirst \/ vc + 1 = VSyncFirst + 1)
    BY <1>1, <2>1 DEF InPulse
  <2> QED  BY <1>1, <1>2, <1>3, <1>5, <2>1, <2>2
<1> QED  BY <1>4, <1>5

\* Where a frame edge finds the beam.
LEMMA EdgePlace ==
  ASSUME MouthInv, Clk, FrameEdge
  PROVE  /\ Pixel /\ hc = 0 /\ hc' = 1
         /\ \/ ticks = 0 /\ vc = 0 /\ vc' = 0
            \/ ticks > 0 /\ vc = VSyncFirst + 1 /\ vc' = VSyncFirst + 1
<1> USE Arithmetic
<1>1. hc \in 0..hpixels /\ vc \in 0..vlines /\ ticks \in 0..2
  BY DEF MouthInv, MouthTypeOK
<1>2. Pixel
  BY Zenon DEF Clk, FrameEdge
<1>3. ~vs /\ ~InPulse'
  BY <1>2, PixelPlace DEF FrameEdge
<1>4. CASE ticks = 0
  <2>1. hc = 0 /\ vc = 0
    BY <1>4 DEF MouthInv, Fresh
  <2> QED  BY <1>2, <1>4, <2>1, PixelPlace
<1>5. CASE ticks > 0
  <2>1. InPulse
    BY <1>3, <1>5 DEF MouthInv
  <2>2. hc = 0 /\ vc = VSyncFirst + 1
    BY <1>1, <1>2, <1>3, <2>1, PixelPlace DEF InPulse
  <2> QED  BY <1>2, <1>5, <2>2, PixelPlace
<1> QED  BY <1>1, <1>4, <1>5

LEMMA TickPreserves == ASSUME MouthInv, Frame PROVE MouthInv'
<1> USE Arithmetic
<1>1. MouthInv /\ Clk /\ FrameEdge
  BY DEF Frame, MouthTick
<1>2. /\ hc = 0 /\ hc' = 1 /\ Pixel
      /\ \/ ticks = 0 /\ vc = 0 /\ vc' = 0
         \/ ticks > 0 /\ vc = VSyncFirst + 1 /\ vc' = VSyncFirst + 1
  BY <1>1, EdgePlace
<1>3. ticks \in 0..2 /\ counter \in 0..Frames /\ closePacman \in BOOLEAN
  BY DEF MouthInv, MouthTypeOK
<1>4. /\ ticks' = IF ticks < 2 THEN ticks + 1 ELSE ticks
      /\ lines' = 0 /\ hasMoved' \in BOOLEAN
  BY DEF Frame, MouthTick
<1>5. counter' \in 0..Frames
  <2>1. CASE counter = Frames /\ counter' = 0
    BY <2>1
  <2>2. CASE /\ counter # Frames
             /\ counter' = IF hasMoved THEN (counter + 1) % 16 ELSE counter
    <3>1. CASE hasMoved
      BY <1>3, <2>2, <3>1
    <3>2. CASE ~hasMoved
      BY <1>3, <2>2, <3>2
    <3> QED  BY <3>1, <3>2
  <2> QED  BY <2>1, <2>2 DEF Frame, MouthTick, Chew
<1>6. closePacman' \in BOOLEAN
  BY Zenon, <1>3 DEF Frame, MouthTick, Chew
<1>7. clkdiv' \in BOOLEAN /\ hs' \in BOOLEAN /\ vs' \in BOOLEAN
  BY Zenon, <1>2, PixelPlace DEF Frame, Clk
<1>8. MouthTypeOK'
  BY <1>2, <1>3, <1>4, <1>5, <1>6, <1>7, PixelPlace DEF MouthTypeOK, FrameLines
<1>9. vs' <=> ~InPulse'
  BY <1>2, PixelPlace
<1>10. ticks' = 1 => FirstFrame'
  BY <1>2, <1>3, <1>4 DEF FirstFrame
<1>11. ticks' = 2 => LaterFrames'
  BY <1>2, <1>3, <1>4 DEF LaterFrames
<1> QED  BY <1>3, <1>4, <1>8, <1>9, <1>10, <1>11 DEF MouthInv

LEMMA PixelPreserves == ASSUME MouthInv, Pixel, Clk, NoTick PROVE MouthInv'
<1> USE Arithmetic
<1>1. /\ hc \in 0..hpixels /\ vc \in 0..vlines /\ ticks \in 0..2
      /\ lines \in 0..FrameLines
  BY DEF MouthInv, MouthTypeOK
<1>2. /\ ticks' = ticks /\ counter' = counter /\ closePacman' = closePacman
      /\ hasMoved' = hasMoved
      /\ lines' = IF hc' = 0 /\ hc # 0 /\ lines <= FrameLines THEN lines + 1 ELSE lines
  BY DEF NoTick, mouth
<1>3. ticks > 0
  <2>1. SUFFICES ASSUME ticks = 0 PROVE FALSE
    BY <1>1
  <2>2. hc = 0 /\ vc = 0 /\ ~vs
    BY <2>1 DEF MouthInv, Fresh
  <2>3. vs'
    BY <2>2, PixelPlace DEF InPulse
  <2> QED  BY <2>2, <2>3 DEF NoTick, FrameEdge
<1>4. vs <=> ~InPulse
  BY <1>3 DEF MouthInv
<1>5. ~(vc = VSyncFirst + 1 /\ hc = 0)
  <2>1. SUFFICES ASSUME vc = VSyncFirst + 1, hc = 0 PROVE FALSE
    OBVIOUS
  <2>2. ~vs
    BY <1>4, <2>1 DEF InPulse
  <2>3. vs'
    BY <2>1, PixelPlace DEF InPulse
  <2> QED  BY <2>2, <2>3 DEF NoTick, FrameEdge
<1>6. ticks = 1 => FirstFrame' /\ lines' \in 0..FrameLines
  <2>1. SUFFICES ASSUME ticks = 1 PROVE FirstFrame' /\ lines' \in 0..FrameLines
    OBVIOUS
  <2>2. vc <= VSyncFirst /\ lines = vc
    BY <1>5, <2>1 DEF MouthInv, FirstFrame
  <2> QED  BY <1>1, <1>2, <2>2, PixelPlace DEF FirstFrame, FrameLines
<1>7. ticks = 2 => LaterFrames' /\ lines' \in 0..FrameLines
  <2>1. SUFFICES ASSUME ticks = 2 PROVE LaterFrames' /\ lines' \in 0..FrameLines
    OBVIOUS
  <2>2. LaterFrames
    BY <2>1 DEF MouthInv
  <2> QED  BY <1>1, <1>2, <1>5, <2>2, PixelPlace DEF LaterFrames, FrameLines
<1>8. clkdiv' \in BOOLEAN /\ hs' \in BOOLEAN /\ vs' \in BOOLEAN
  BY Zenon, PixelPlace DEF Clk
<1>9. MouthTypeOK'
  <2>1. counter \in 0..Frames /\ closePacman \in BOOLEAN /\ hasMoved \in BOOLEAN
    BY DEF MouthInv, MouthTypeOK
  <2> QED  BY <1>1, <1>2, <1>3, <1>6, <1>7, <1>8, <2>1, PixelPlace DEF MouthTypeOK
<1> QED  BY <1>2, <1>3, <1>6, <1>7, <1>9, PixelPlace DEF MouthInv

LEMMA IdlePreserves ==
  ASSUME MouthInv, clkdiv' \in BOOLEAN, UNCHANGED <<hc, vc, hs, vs>>, NoTick
  PROVE  MouthInv'
<1> USE Arithmetic
<1>1. hc \in 0..hpixels
  BY DEF MouthInv, MouthTypeOK
<1>2. UNCHANGED <<mouth, hasMoved, ticks, lines>>
  BY <1>1 DEF NoTick
<1> QED  BY <1>2 DEF MouthInv, MouthTypeOK, Fresh, InPulse, FirstFrame, LaterFrames, mouth

-----------------------------------------------------------------------------
\* The beam's place at every edge of VGA_VS, for every picture format.
THEOREM MouthInvariance == MouthSpec => []MouthInv
<1>1. MouthInit => MouthInv
  BY Zenon, MouthStart DEF MouthInit, VgaInit
<1>2. MouthInv /\ [MouthNext]_mouthVars => MouthInv'
  <2> SUFFICES ASSUME MouthInv, [MouthNext]_mouthVars PROVE MouthInv'
    OBVIOUS
  <2>1. CASE Reset
    <3>1. /\ ~clkdiv' /\ hc' = 0 /\ vc' = 0 /\ ~hs' /\ ~vs'
          /\ counter' = 0 /\ ~closePacman' /\ ~hasMoved' /\ ticks' = 0 /\ lines' = 0
      BY Zenon, <2>1 DEF Reset, VgaReset
    <3>2. {clkdiv', hs', vs', closePacman', hasMoved'} \subseteq BOOLEAN
      BY Zenon, <2>1 DEF Reset, VgaReset
    <3>3. MouthTypeOK'
      BY <3>1, <3>2, Arithmetic DEF MouthTypeOK, FrameLines
    <3> QED  BY <3>1, <3>3 DEF MouthInv, Fresh
  <2>2. CASE Frame
    BY <2>2, TickPreserves
  <2>3. CASE Clk /\ NoTick
    <3>1. CASE Pixel
      BY <2>3, <3>1, PixelPreserves
    <3>2. CASE UNCHANGED <<hc, vc, hs, vs>>
      <4>1. clkdiv' \in BOOLEAN
        BY Zenon, <2>3 DEF Clk
      <4> QED  BY <2>3, <3>2, <4>1, IdlePreserves
    <3> QED  BY <2>3, <3>1, <3>2 DEF Clk
  <2>4. CASE UNCHANGED mouthVars
    BY <2>4 DEF mouthVars, timing, mouth, MouthInv, MouthTypeOK, Fresh, InPulse, FirstFrame, LaterFrames
  <2> QED  BY <2>1, <2>2, <2>3, <2>4 DEF MouthNext, ClockEdge
<1> QED  BY <1>1, <1>2, PTL DEF MouthSpec

\* The counters of the picture and of the mouth keep their ranges.
THEOREM MouthTypeCorrect == MouthSpec => []MouthTypeOK
<1>1. MouthInv => MouthTypeOK
  BY DEF MouthInv
<1> QED  BY <1>1, MouthInvariance, PTL

\* The ticks of the game are a frame apart, but for the two after a Reset.
THEOREM FramesAreWhole == MouthSpec => FrameTime
<1> DEFINE A == Frame => /\ hc = 0
                         /\ ticks = 0 => vc = 0
                         /\ ticks = 1 => lines = VSyncFirst + 1
                         /\ ticks = 2 => lines = FrameLines
<1>1. MouthInv /\ [MouthNext]_mouthVars => [A]_mouthVars
  <2> SUFFICES ASSUME MouthInv, Frame
               PROVE  /\ hc = 0
                      /\ ticks = 0 => vc = 0
                      /\ ticks = 1 => lines = VSyncFirst + 1
                      /\ ticks = 2 => lines = FrameLines
    OBVIOUS
  <2>1. /\ hc = 0
        /\ \/ ticks = 0 /\ vc = 0
           \/ ticks > 0 /\ vc = VSyncFirst + 1
    BY EdgePlace DEF Frame, MouthTick
  <2>2. ticks = 1 => lines = vc
    BY DEF MouthInv, FirstFrame
  <2>3. ticks = 2 => LaterFrames
    BY DEF MouthInv
  <2> QED  BY <2>1, <2>2, <2>3, Arithmetic DEF LaterFrames, FrameLines
<1> QED  BY <1>1, MouthInvariance, PTL DEF MouthSpec, FrameTime

\* No picture is torn by the mouth, for every picture format.
THEOREM PicturesAreWhole == MouthSpec => SteadyPicture
<1> DEFINE A == ~Reset /\ closePacman' # closePacman => ~display /\ ~display'
<1>1. MouthInv /\ [MouthNext]_mouthVars => [A]_mouthVars
  <2> SUFFICES ASSUME MouthInv, [MouthNext]_mouthVars, ~Reset, closePacman' # closePacman
               PROVE  ~display /\ ~display'
    OBVIOUS
  <2>1. Frame
    BY DEF MouthNext, ClockEdge, NoTick, mouth, mouthVars
  <2>2. counter = Frames
    BY <2>1 DEF Frame, MouthTick, Chew
  <2>3. ticks # 0
    BY <2>2, Arithmetic DEF MouthInv, Fresh
  <2>4. vc = VSyncFirst + 1 /\ vc' = VSyncFirst + 1
    BY <2>1, <2>3, EdgePlace DEF Frame, MouthTick
  <2> QED  BY <2>4, Arithmetic DEF display
<1> QED  BY <1>1, MouthInvariance, PTL DEF MouthSpec, SteadyPicture

-----------------------------------------------------------------------------
(* The JTAG UART driver.                                                   *)

-----------------------------------------------------------------------------
\* Remainders of sums that exceed the modulus at most once.
LEMMA Wraps ==
  ASSUME NEW m \in Nat \ {0}, NEW a \in 0..m - 1, NEW b \in 0..m
  PROVE  (a + b) % m = IF a + b < m THEN a + b ELSE a + b - m
OBVIOUS

LEMMA WrapsBack ==
  ASSUME NEW m \in Nat \ {0}, NEW a \in 0..m - 1, NEW b \in 0..m - 1
  PROVE  (a - b) % m = IF a >= b THEN a - b ELSE a - b + m
OBVIOUS

LEMMA BufferSizes ==
  /\ BufLen \in Nat /\ BufLen > 1 /\ Numbers \in Nat /\ BufLen <= Numbers
  /\ Fifo \in Nat \ {0} /\ WriteThreshold \in 0..Fifo - 1
  /\ Timeout \in Nat \ {0} /\ MaxCount \in Nat \ {0}
BY UartAssumption

-----------------------------------------------------------------------------
\* Bytes in the buffer, and how far ahead of the handler a slot is.
Used == IF tx_out <= tx_in THEN tx_in - tx_out ELSE tx_in + BufLen - tx_out
Ahead(j) == IF tx_out <= j THEN j - tx_out ELSE j + BufLen - tx_out
Copied == IF write = "publish" THEN n ELSE 0
Number(x) == IF x < Numbers THEN x ELSE x - Numbers

LEMMA NumberWraps ==
  ASSUME NEW a \in 0..Numbers - 1, NEW b \in 0..Numbers
  PROVE  (a + b) % Numbers = Number(a + b) /\ Number(a + b) \in 0..Numbers - 1
<1> Numbers \in Nat \ {0}
  BY BufferSizes
<1>1. (a + b) % Numbers = IF a + b < Numbers THEN a + b ELSE a + b - Numbers
  BY Wraps
<1> QED  BY <1>1, BufferSizes DEF Number

LEMMA SlotWraps ==
  ASSUME NEW a \in Slots, NEW b \in 0..BufLen
  PROVE  (a + b) % BufLen = IF a + b < BufLen THEN a + b ELSE a + b - BufLen
<1> BufLen \in Nat \ {0} /\ a \in 0..BufLen - 1
  BY BufferSizes DEF Slots
<1> QED  BY Wraps

\* The handler never puts more into the FIFO than it saw room for.
RoomSeen == irq \in {"read", "write"} => space + wfifo <= Fifo

\* What the writer copies has room, also when the handler runs meanwhile.
Planned == /\ write \in {"copy", "publish"} =>
                /\ n > 0 /\ tx_in + n <= BufLen /\ Used + n < BufLen
           /\ write = "copy" => n <= count

\* The buffer holds the bytes on the way, and those copied but not published.
InOrder == /\ accepted = Number(delivered + Used)
           /\ \A j \in Slots : Ahead(j) < Used + Copied
                => tx_buf[j] = Number(delivered + Ahead(j))

UartInv == Ranges /\ RoomSeen /\ Planned /\ InOrder

-----------------------------------------------------------------------------
\* A step of the writer that leaves the buffer alone.
LEMMA WriterSteps ==
  ASSUME UartInv, Thread, Call \/ Plan \/ Kick \/ Wait
  PROVE  UartInv'
<1> USE BufferSizes
<1>1. /\ UNCHANGED <<tx_buf, tx_in, tx_out, rx_in, host_inactive, wfifo, rfifo,
                     irq, space, accepted, delivered>>
  BY DEF Thread, Call, Plan, Kick, Wait, uart, handler
<1>2. /\ write' \in {"idle", "plan", "copy", "kick", "wait"} /\ write # "publish"
  BY DEF Call, Plan, Kick, Wait
<1>3. /\ count' \in 0..MaxCount /\ n' \in 0..MaxCount /\ out' \in Slots
      /\ write' = "copy" => /\ n' > 0 /\ tx_in + n' <= BufLen /\ Used + n' < BufLen
                            /\ n' <= count'
  <2>1. CASE Call
    BY <2>1 DEF Call, UartInv, Ranges
  <2>2. CASE Plan
    <3>1. tx_in \in Slots /\ tx_out \in Slots /\ count \in 0..MaxCount /\ out \in Slots
      BY DEF UartInv, Ranges
    <3>2. count' = count
      BY <2>2 DEF Plan
    <3>3. CASE count = 0
      BY <2>2, <3>1, <3>2, <3>3 DEF Plan
    <3>4. CASE count > 0
      <4>1. n' = Smaller(Free(tx_in, tx_out), count) /\ out' = tx_out
        BY <2>2, <3>4 DEF Plan
      <4>2. /\ Free(tx_in, tx_out) \in Nat /\ tx_in + Free(tx_in, tx_out) <= BufLen
            /\ Used + Free(tx_in, tx_out) < BufLen
        BY <3>1 DEF Free, Used, Slots
      <4>3. n' \in 0..MaxCount /\ n' <= Free(tx_in, tx_out) /\ n' <= count
        BY <3>1, <3>4, <4>1, <4>2 DEF Smaller
      <4>4. write' = "copy" => n' # 0
        BY <2>2 DEF Plan
      <4>5. Used \in Nat
        BY <3>1 DEF Used, Slots
      <4> QED  BY <3>1, <3>2, <4>1, <4>2, <4>3, <4>4, <4>5 DEF Slots
    <3> QED  BY <3>1, <3>3, <3>4
  <2>3. CASE Kick \/ Wait
    BY <2>3 DEF Kick, Wait, UartInv, Ranges
  <2> QED  BY <2>1, <2>2, <2>3
<1>4. Ranges'
  BY <1>1, <1>2, <1>3 DEF UartInv, Ranges, Slots
<1>5. RoomSeen'
  BY <1>1 DEF UartInv, RoomSeen
<1>6. Used' = Used /\ Copied' = 0 /\ Copied = 0
  BY <1>1, <1>2 DEF Used, Copied
<1>7. Planned'
  BY <1>1, <1>2, <1>3, <1>6 DEF Planned
<1>8. InOrder'
  BY <1>1, <1>6 DEF UartInv, InOrder, Ahead, Number
<1> QED  BY <1>4, <1>5, <1>7, <1>8 DEF UartInv

\* The part that is copied is disjoint from the part in use.
LEMMA CopyStep == ASSUME UartInv, Thread, Copy PROVE UartInv'
<1> USE BufferSizes
<1>1. /\ UNCHANGED <<tx_in, tx_out, rx_in, host_inactive, wfifo, rfifo, n, out,
                     irq, space, accepted, delivered>>
      /\ write = "copy" /\ write' = "publish" /\ count' = count - n
  BY DEF Thread, Copy, uart, handler
<1>2. /\ tx_in \in Slots /\ tx_out \in Slots /\ n \in 0..MaxCount /\ count \in 0..MaxCount
      /\ accepted \in 0..Numbers - 1 /\ delivered \in 0..Numbers - 1
      /\ tx_buf \in [Slots -> 0..Numbers - 1]
  BY DEF UartInv, Ranges
<1>3. n > 0 /\ tx_in + n <= BufLen /\ Used + n < BufLen /\ n <= count
  BY <1>1 DEF UartInv, Planned
<1>4. \A j \in Slots : j \in tx_in..tx_in + n - 1
        => /\ Ahead(j) = Used + (j - tx_in)
           /\ (accepted + j - tx_in) % Numbers = Number(delivered + Ahead(j))
  <2> SUFFICES ASSUME NEW j \in Slots, j \in tx_in..tx_in + n - 1
               PROVE  /\ Ahead(j) = Used + (j - tx_in)
                      /\ (accepted + j - tx_in) % Numbers = Number(delivered + Ahead(j))
    OBVIOUS
  <2>1. Ahead(j) = Used + (j - tx_in) /\ Ahead(j) \in 0..BufLen - 1 /\ Used \in Nat
    BY <1>2, <1>3 DEF Ahead, Used, Slots
  <2>2. accepted = Number(delivered + Used)
    BY DEF UartInv, InOrder
  <2>3. j - tx_in \in 0..Numbers
    BY <1>2 DEF Slots
  <2>4. (accepted + (j - tx_in)) % Numbers = Number(accepted + (j - tx_in))
    BY <1>2, <2>3, NumberWraps
  <2>5. accepted + j - tx_in = accepted + (j - tx_in)
    BY <1>2 DEF Slots
  <2>6. Number(accepted + (j - tx_in)) = Number(delivered + Ahead(j))
    BY <1>2, <2>1, <2>2, <2>3 DEF Number
  <2> QED  BY <2>1, <2>4, <2>5, <2>6
<1>5. \A j \in Slots : /\ j \in tx_in..tx_in + n - 1 => Ahead(j) >= Used
                       /\ j \notin tx_in..tx_in + n - 1 /\ Ahead(j) < Used + n => Ahead(j) < Used
  BY <1>2, <1>3 DEF Ahead, Used, Slots
<1>6. \A j \in Slots : tx_buf'[j] = IF j \in tx_in..tx_in + n - 1
                                   THEN (accepted + j - tx_in) % Numbers ELSE tx_buf[j]
  BY DEF Copy
<1>7. tx_buf' \in [Slots -> 0..Numbers - 1]
  <2>1. \A j \in Slots : (accepted + j - tx_in) % Numbers \in 0..Numbers - 1
    BY <1>2 DEF Slots
  <2> QED  BY <1>2, <2>1 DEF Copy
<1>8. Ranges'
  BY <1>1, <1>2, <1>3, <1>7 DEF UartInv, Ranges, Slots
<1>9. RoomSeen' /\ Planned'
  BY <1>1, <1>3 DEF UartInv, RoomSeen, Planned, Used
<1>10. Used' = Used /\ Copied' = n /\ Copied = 0 /\ \A j \in Slots : Ahead(j)' = Ahead(j)
  BY <1>1 DEF Used, Copied, Ahead
<1>11. InOrder'
  <2>1. accepted' = Number(delivered + Used)'
    BY <1>1, <1>10 DEF UartInv, InOrder, Number
  <2>2. ASSUME NEW j \in Slots, Ahead(j) < Used + n
        PROVE  tx_buf'[j] = Number(delivered + Ahead(j))
    <3>1. CASE j \in tx_in..tx_in + n - 1
      BY <1>4, <1>6, <3>1
    <3>2. CASE j \notin tx_in..tx_in + n - 1
      <4>1. Ahead(j) < Used /\ Used \in Nat
        BY <1>2, <1>5, <2>2, <3>2 DEF Used, Slots
      <4>2. Ahead(j) < Used + Copied
        BY <1>10, <4>1
      <4> QED  BY <1>6, <3>2, <4>2 DEF UartInv, InOrder
    <3> QED  BY <3>1, <3>2
  <2> QED  BY <1>1, <1>10, <2>1, <2>2 DEF InOrder, Number
<1> QED  BY <1>8, <1>9, <1>11 DEF UartInv

LEMMA PublishStep ==
  ASSUME UartInv, Thread, Publish
  PROVE  UartInv' /\ Used' = Used + n /\ n \in 1..BufLen - 1 - Used
<1> USE BufferSizes
<1>1. /\ UNCHANGED <<tx_buf, tx_out, rx_in, host_inactive, wfifo, rfifo, count, n, out,
                     irq, space, delivered>>
      /\ write = "publish" /\ write' = "plan"
  BY DEF Thread, Publish, uart, handler
<1>2. /\ tx_in \in Slots /\ tx_out \in Slots /\ n \in 0..MaxCount
      /\ accepted \in 0..Numbers - 1 /\ delivered \in 0..Numbers - 1
  BY DEF UartInv, Ranges
<1>3. n > 0 /\ tx_in + n <= BufLen /\ Used + n < BufLen /\ n < BufLen /\ Used \in Nat
  BY <1>1, <1>2 DEF UartInv, Planned, Used, Slots
<1>4. tx_in' = (IF tx_in + n < BufLen THEN tx_in + n ELSE tx_in + n - BufLen)
  <2>1. n \in 0..BufLen
    BY <1>2, <1>3
  <2>2. (tx_in + n) % BufLen = IF tx_in + n < BufLen THEN tx_in + n ELSE tx_in + n - BufLen
    BY <1>2, <2>1, SlotWraps
  <2> QED  BY <2>2 DEF Publish
<1>5. accepted' = Number(accepted + n)
  <2>1. n \in 0..Numbers
    BY <1>2, <1>3
  <2>2. (accepted + n) % Numbers = Number(accepted + n)
    BY <1>2, <2>1, NumberWraps
  <2> QED  BY <2>2 DEF Publish
<1>6. Used' = Used + n
  BY <1>1, <1>2, <1>3, <1>4 DEF Used, Slots
<1>7. Ranges'
  BY <1>1, <1>2, <1>3, <1>4, <1>5 DEF UartInv, Ranges, Slots, Number
<1>8. RoomSeen' /\ Planned'
  BY <1>1 DEF UartInv, RoomSeen, Planned
<1>9. InOrder'
  <2>1. accepted = Number(delivered + Used)
    BY DEF UartInv, InOrder
  <2>2. accepted' = Number(delivered + (Used + n))
    BY <1>2, <1>3, <1>5, <2>1 DEF Number
  <2>3. Copied = n /\ Copied' = 0 /\ \A j \in Slots : Ahead(j)' = Ahead(j)
    BY <1>1 DEF Copied, Ahead
  <2>4. Used' + Copied' = Used + Copied
    BY <1>2, <1>3, <1>6, <2>3
  <2> QED  BY <1>1, <1>6, <2>2, <2>3, <2>4 DEF UartInv, InOrder, Number
<1> QED  BY <1>2, <1>3, <1>6, <1>7, <1>8, <1>9 DEF UartInv

-----------------------------------------------------------------------------
\* A step of the handler, the alarm or the host that moves no byte of the
\* transmit buffer.
LEMMA OtherSteps ==
  ASSUME UartInv, UNCHANGED <<tx_buf, tx_in, tx_out, writer, history>>,
         rx_in' \in Slots, host_inactive' \in 0..Timeout,
         wfifo' \in 0..Fifo, rfifo' \in 0..Fifo, space' \in 0..Fifo,
         irq' \in {"idle", "top", "read", "write"}, RoomSeen'
  PROVE  UartInv'
<1>1. UNCHANGED <<write, count, n, out, accepted, delivered>>
  BY DEF writer, history
<1>2. Ranges'
  BY <1>1 DEF UartInv, Ranges, Slots
<1>3. Planned' /\ InOrder'
  BY <1>1 DEF UartInv, Planned, InOrder, Used, Ahead, Copied, Number
<1> QED  BY <1>2, <1>3 DEF UartInv

\* The handler takes the byte whose turn it is.
LEMMA TxByteStep ==
  ASSUME UartInv, TxByte, UNCHANGED writer
  PROVE  /\ UartInv' /\ Used > 0
         /\ delivered' = Number(delivered + 1) /\ accepted' = accepted
<1> USE BufferSizes
<1>1. /\ UNCHANGED <<tx_buf, tx_in, rx_in, host_inactive, rfifo, irq, accepted, write, count, n, out>>
      /\ irq = "write" /\ space > 0 /\ tx_out # tx_in
      /\ wfifo' = wfifo + 1 /\ space' = space - 1
  BY DEF TxByte, writer
<1>2. /\ tx_in \in Slots /\ tx_out \in Slots /\ n \in 0..MaxCount
      /\ accepted \in 0..Numbers - 1 /\ delivered \in 0..Numbers - 1
      /\ wfifo \in 0..Fifo /\ space \in 0..Fifo
  BY DEF UartInv, Ranges
<1>3. tx_out' = IF tx_out + 1 < BufLen THEN tx_out + 1 ELSE 0
  <2>1. (tx_out + 1) % BufLen = IF tx_out + 1 < BufLen THEN tx_out + 1 ELSE tx_out + 1 - BufLen
    BY <1>2, SlotWraps
  <2> QED  BY <1>2, <2>1 DEF TxByte, Slots
<1>4. Used \in 1..BufLen - 1 /\ Used' = Used - 1
  BY <1>1, <1>2, <1>3 DEF Used, Slots
<1>5. Copied \in Nat /\ Copied' = Copied
  BY <1>1, <1>2 DEF Copied
<1>6. tx_buf[tx_out] = delivered
  <2>1. Ahead(tx_out) = 0
    BY <1>2 DEF Ahead, Slots
  <2>2. tx_buf[tx_out] = Number(delivered + Ahead(tx_out))
    BY <1>2, <1>4, <1>5, <2>1 DEF UartInv, InOrder
  <2> QED  BY <1>2, <2>1, <2>2 DEF Number
<1>7. delivered' = Number(delivered + 1)
  <2>1. (delivered + 1) % Numbers = Number(delivered + 1)
    BY <1>2, NumberWraps
  <2> QED  BY <1>6, <2>1 DEF TxByte
<1>8. space + wfifo <= Fifo
  BY <1>1 DEF UartInv, RoomSeen
<1>9. Ranges'
  BY <1>1, <1>2, <1>3, <1>7, <1>8 DEF UartInv, Ranges, Slots, Number
<1>10. RoomSeen'
  BY <1>1, <1>2, <1>8 DEF RoomSeen
<1>11. Planned'
  BY <1>1, <1>2, <1>4 DEF UartInv, Planned
<1>12. InOrder'
  <2>1. accepted' = Number(delivered' + Used')
    BY <1>1, <1>2, <1>4, <1>7 DEF UartInv, InOrder, Number
  <2>2. ASSUME NEW j \in Slots, Ahead(j)' < Used' + Copied'
        PROVE  tx_buf[j] = Number(delivered' + Ahead(j)')
    <3>1. j # tx_out /\ Ahead(j)' = Ahead(j) - 1 /\ Ahead(j) \in 1..BufLen - 1
      <4>1. Used + Copied <= BufLen - 1
        BY <1>1, <1>2, <1>4 DEF UartInv, Planned, Copied
      <4>2. j # tx_out
        BY <1>2, <1>3, <1>4, <1>5, <2>2, <4>1 DEF Ahead, Slots
      <4> QED  BY <1>2, <1>3, <4>2 DEF Ahead, Slots
    <3>2. Ahead(j) < Used + Copied
      BY <1>4, <1>5, <2>2, <3>1
    <3>3. tx_buf[j] = Number(delivered + Ahead(j))
      BY <3>2 DEF UartInv, InOrder
    <3> QED  BY <1>2, <1>7, <3>1, <3>3 DEF Number
  <2> QED  BY <1>1, <2>1, <2>2 DEF InOrder, Number
<1> QED  BY <1>1, <1>4, <1>7, <1>9, <1>10, <1>11, <1>12 DEF UartInv

LEMMA HandlerStep ==
  ASSUME UartInv, Handler, ~TxByte
  PROVE  UartInv' /\ UNCHANGED history
<1> USE BufferSizes
<1>1. UNCHANGED writer
  BY DEF Handler
<1>2. /\ rx_in \in Slots /\ host_inactive \in 0..Timeout
      /\ wfifo \in 0..Fifo /\ rfifo \in 0..Fifo /\ space \in 0..Fifo
  BY DEF UartInv, Ranges
<1>3. CASE Dispatch
  <2>1. UNCHANGED <<tx_buf, tx_in, tx_out, rx_in, host_inactive, wfifo, rfifo, history>>
    BY <1>3 DEF Dispatch, driver, uart
  <2>2. space' \in 0..Fifo /\ space' + wfifo' <= Fifo
    BY <1>2, <1>3, <2>1 DEF Dispatch
  <2>3. irq' \in {"idle", "top", "read", "write"}
    BY <1>3 DEF Dispatch
  <2> QED  BY <1>1, <1>2, <2>1, <2>2, <2>3, OtherSteps DEF RoomSeen
<1>4. CASE RxByte
  <2>1. /\ UNCHANGED <<tx_buf, tx_in, tx_out, host_inactive, wfifo, irq, space, history>>
        /\ rfifo' = rfifo - 1 /\ rfifo > 0 /\ rx_in' = (rx_in + 1) % BufLen
    BY <1>4 DEF RxByte
  <2>2. rx_in' \in Slots
    BY <1>2, <2>1, Wraps DEF Slots
  <2>3. RoomSeen' /\ irq' \in {"idle", "top", "read", "write"}
    BY <2>1 DEF UartInv, RoomSeen, Ranges
  <2> QED  BY <1>1, <1>2, <2>1, <2>2, <2>3, OtherSteps
<1>5. CASE RxDone \/ TxDone
  <2>1. /\ UNCHANGED <<tx_buf, tx_in, tx_out, rx_in, host_inactive, wfifo, history>>
        /\ irq' \in {"idle", "top", "read", "write"} /\ space' \in {space, 0}
        /\ irq' = "write" => irq = "read" /\ space' = space
        /\ irq' # "read"
        /\ rfifo' \in {rfifo, 0, 1}
    BY <1>5 DEF RxDone, RxEmpty, TxDone, uart
  <2>2. space' \in 0..Fifo /\ rfifo' \in 0..Fifo
    BY <1>2, <2>1
  <2>3. irq' = "write" => space' + wfifo' <= Fifo
    BY <2>1 DEF UartInv, RoomSeen
  <2>4. RoomSeen'
    BY <2>1, <2>3 DEF RoomSeen
  <2> QED  BY <1>1, <1>2, <2>1, <2>2, <2>4, OtherSteps
<1> QED  BY <1>3, <1>4, <1>5 DEF Handler, Interrupt, Again

LEMMA OutsideStep ==
  ASSUME UartInv, Alarm \/ HostRead \/ HostType \/ HostPause
  PROVE  UartInv' /\ UNCHANGED history
<1> USE BufferSizes
<1>1. /\ rx_in \in Slots /\ host_inactive \in 0..Timeout
      /\ wfifo \in 0..Fifo /\ rfifo \in 0..Fifo /\ space \in 0..Fifo
      /\ irq \in {"idle", "top", "read", "write"}
  BY DEF UartInv, Ranges
<1>2. UNCHANGED <<tx_buf, tx_in, tx_out, rx_in, irq, space, writer, history>>
  BY DEF Alarm, HostRead, HostType, HostPause, driver, handler
<1>3. host_inactive' \in 0..Timeout
  <2>1. CASE Alarm
    BY <1>1, <2>1 DEF Alarm, Smaller
  <2>2. CASE HostRead \/ HostType \/ HostPause
    BY <1>1, <2>2 DEF HostRead, HostType, HostPause, driver
  <2> QED  BY <2>1, <2>2
<1>4. wfifo' \in 0..Fifo /\ wfifo' <= wfifo /\ rfifo' \in 0..Fifo
  BY <1>1 DEF Alarm, HostRead, HostType, HostPause, Smaller
<1>5. irq \in {"read", "write"} => space + wfifo <= Fifo
  BY DEF UartInv, RoomSeen
<1>6. irq' \in {"read", "write"} => space' + wfifo' <= Fifo
  <2>1. irq' = irq /\ space' = space
    BY <1>2
  <2>2. \A a, b, c \in Int : b <= a /\ c + a <= Fifo => c + b <= Fifo
    OBVIOUS
  <2>3. {space, wfifo, wfifo'} \subseteq Int /\ wfifo' <= wfifo
    BY <1>1, <1>4
  <2>4. space + wfifo <= Fifo => space + wfifo' <= Fifo
    BY Zenon, <2>2, <2>3
  <2> QED  BY <1>5, <2>1, <2>4
<1>7. RoomSeen'
  BY <1>6 DEF RoomSeen
<1> QED  BY <1>1, <1>2, <1>3, <1>4, <1>7, OtherSteps

-----------------------------------------------------------------------------
LEMMA UartStart == UartInit => UartInv
<1> USE BufferSizes
<1> SUFFICES ASSUME UartInit PROVE UartInv
  OBVIOUS
<1>1. Ranges
  BY DEF UartInit, Ranges, Slots
<1>2. RoomSeen /\ Planned
  BY DEF UartInit, RoomSeen, Planned
<1>3. Used = 0 /\ Copied = 0 /\ \A j \in Slots : Ahead(j) = j
  BY DEF UartInit, Used, Copied, Ahead, Slots
<1>4. InOrder
  BY <1>3 DEF UartInit, InOrder, Number, Slots
<1> QED  BY <1>1, <1>2, <1>4 DEF UartInv

LEMMA UartStep == UartInv /\ [UartNext]_uartVars => UartInv'
<1> SUFFICES ASSUME UartInv, [UartNext]_uartVars PROVE UartInv'
  OBVIOUS
<1>1. CASE Write
  BY <1>1, WriterSteps, CopyStep, PublishStep DEF Write
<1>2. CASE Handler
  <2>1. CASE TxByte
    BY <1>2, <2>1, TxByteStep DEF Handler
  <2> QED  BY <1>2, <2>1, HandlerStep
<1>3. CASE Alarm \/ HostRead \/ HostType \/ HostPause
  BY <1>3, OutsideStep
<1>4. CASE UNCHANGED uartVars
  BY <1>4 DEF uartVars, driver, uart, writer, handler, history, UartInv, Ranges, RoomSeen,
     Planned, InOrder, Used, Copied, Ahead, Number
<1> QED  BY <1>1, <1>2, <1>3, <1>4 DEF UartNext

\* The buffer and the writer's plans, for every size of the buffer.
THEOREM UartInvariance == UartSpec => []UartInv
BY UartStart, UartStep, PTL DEF UartSpec

LEMMA FlagsStep == Flags /\ [UartNext]_uartVars => Flags'
<1> SUFFICES ASSUME Flags, [UartNext]_uartVars PROVE Flags'
  OBVIOUS
<1>1. {TRUE, FALSE, RE, WE, AC, pause_irq, ravail, RI} \subseteq BOOLEAN
  BY Zenon DEF Flags, RI
<1>2. RE' \in {RE, FALSE}
  BY Zenon DEF UartNext, Write, Thread, Handler, Interrupt, Again, Dispatch, RxByte, RxDone,
     TxByte, TxDone, Alarm, HostRead, HostType, HostPause, driver, uartVars
<1>3. WE' \in {WE, TRUE, FALSE}
  BY Zenon DEF UartNext, Write, Call, Plan, Copy, Publish, Kick, Wait, Handler, Interrupt, Again,
     Dispatch, RxByte, RxDone, TxByte, TxDone, Alarm, HostRead, HostType, HostPause, driver, uartVars
<1>4. AC' \in {AC, TRUE, FALSE} \/ AC' = (AC \/ rfifo' = 1)
  BY Zenon DEF UartNext, Write, Thread, Handler, Interrupt, Again, Dispatch, RxByte, RxDone,
     RxEmpty, TxByte, TxDone, Alarm, HostRead, HostType, HostPause, uart, uartVars
<1>5. pause_irq' \in {pause_irq, FALSE} \/ pause_irq' = (pause_irq \/ rfifo > 0)
  BY Zenon DEF UartNext, Write, Thread, Handler, Interrupt, Again, Dispatch, RxByte, RxDone,
     RxEmpty, TxByte, TxDone, Alarm, HostRead, HostType, HostPause, uart, uartVars
<1>6. ravail' \in {ravail, FALSE, RI} \/ ravail' = (rfifo > 1)
  BY Zenon DEF UartNext, Write, Thread, Handler, Interrupt, Again, Dispatch, RxByte, RxDone,
     TxByte, TxDone, Alarm, HostRead, HostType, HostPause, handler, uartVars
<1>7. /\ (AC \/ rfifo' = 1) \in BOOLEAN /\ (pause_irq \/ rfifo > 0) \in BOOLEAN
      /\ (rfifo > 1) \in BOOLEAN
  BY SMT
<1>8. RE' \in BOOLEAN /\ WE' \in BOOLEAN
  BY Zenon, <1>1, <1>2, <1>3
<1>9. AC' \in BOOLEAN /\ pause_irq' \in BOOLEAN /\ ravail' \in BOOLEAN
  BY Zenon, <1>1, <1>4, <1>5, <1>6, <1>7
<1> QED  BY Zenon, <1>8, <1>9 DEF Flags

\* The driver's registers and the UART's FIFOs keep their ranges.
THEOREM UartTypeCorrect == UartSpec => []UartTypeOK
<1>1. UartInit => Flags
  BY Zenon DEF UartInit, Flags
<1>2. UartSpec => []Flags
  BY <1>1, FlagsStep, PTL DEF UartSpec
<1>3. UartInv => Ranges
  BY DEF UartInv
<1> QED  BY <1>2, <1>3, UartInvariance, PTL DEF UartTypeOK

-----------------------------------------------------------------------------
\* No byte to send waits for an interrupt that is off.
THEOREM NothingWaits == UartSpec => []NothingStranded
<1>1. UartInit => NothingStranded
  BY DEF UartInit, NothingStranded
<1>2. NothingStranded /\ [UartNext]_uartVars => NothingStranded'
  <2> SUFFICES ASSUME NothingStranded, [UartNext]_uartVars PROVE NothingStranded'
    OBVIOUS
  <2>1. CASE Write
    BY <2>1 DEF NothingStranded, Write, Thread, Call, Plan, Copy, Publish, Kick, Wait
  <2>2. CASE Handler
    <3>1. UNCHANGED <<tx_in, write>>
      BY <2>2 DEF Handler, Interrupt, Again, Dispatch, RxByte, RxDone, TxByte, TxDone, driver, writer
    <3>2. ~WE' => tx_in' = tx_out' \/ write' \in {"plan", "copy", "publish", "kick"}
      <4>1. CASE TxByte
        BY <3>1, <4>1 DEF NothingStranded, TxByte
      <4>2. CASE TxDone
        BY <3>1, <4>2 DEF NothingStranded, TxDone
      <4>3. CASE Interrupt \/ Again \/ RxByte \/ RxDone
        BY <3>1, <4>3 DEF NothingStranded, Interrupt, Again, Dispatch, RxByte, RxDone, driver
      <4> QED  BY <2>2, <4>1, <4>2, <4>3 DEF Handler
    <3> QED  BY <3>2 DEF NothingStranded
  <2>3. CASE Alarm \/ HostRead \/ HostType \/ HostPause
    BY <2>3 DEF NothingStranded, Alarm, HostRead, HostType, HostPause, driver, writer
  <2>4. CASE UNCHANGED uartVars
    BY <2>4 DEF NothingStranded, uartVars, driver, writer
  <2> QED  BY <2>1, <2>2, <2>3, <2>4 DEF UartNext
<1> QED  BY <1>1, <1>2, PTL DEF UartSpec

-----------------------------------------------------------------------------
LEMMA OnTheWayIsUsed == ASSUME UartInv PROVE Stream!OnTheWay = Used
<1>1. /\ accepted = Number(delivered + Used) /\ Used \in 0..BufLen - 1
      /\ accepted \in 0..Numbers - 1 /\ delivered \in 0..Numbers - 1
  BY BufferSizes DEF UartInv, InOrder, Ranges, Used, Slots
<1>2. (accepted - delivered) % Numbers = Used
  BY <1>1, BufferSizes, WrapsBack DEF Number
<1> QED  BY <1>2 DEF Stream!OnTheWay

\* The console implements the stream of bytes, for buffers and writes of every
\* size.
THEOREM UartRefinement == UartSpec => DeliversStream
<1>1. UartInit => Stream!Init
  BY DEF UartInit, Stream!Init
<1>2. UartInv /\ [UartNext]_uartVars => [Stream!Accept \/ Stream!Deliver]_(Stream!stream)
  <2> SUFFICES ASSUME UartInv, [UartNext]_uartVars
               PROVE  Stream!Accept \/ Stream!Deliver \/ UNCHANGED history
    BY DEF Stream!stream, history
  <2>1. CASE Thread /\ Publish
    <3>1. n \in 1..BufLen - 1 - Stream!OnTheWay
      BY <2>1, PublishStep, OnTheWayIsUsed
    <3>2. accepted' = (accepted + n) % Numbers /\ UNCHANGED delivered
      BY <2>1 DEF Thread, Publish
    <3> QED  BY <3>1, <3>2 DEF Stream!Accept
  <2>2. CASE Write /\ ~Publish
    BY <2>2 DEF Write, Thread, Call, Plan, Copy, Kick, Wait, history
  <2>3. CASE Handler /\ TxByte
    <3>1. Used > 0 /\ delivered' = Number(delivered + 1) /\ accepted' = accepted
      BY <2>3, TxByteStep DEF Handler
    <3>2. delivered \in 0..Numbers - 1
      BY DEF UartInv, Ranges
    <3>3. delivered' = (delivered + 1) % Numbers
      BY <3>1, <3>2, BufferSizes, NumberWraps
    <3> QED  BY <3>1, <3>3, OnTheWayIsUsed DEF Stream!Deliver
  <2>4. CASE Handler /\ ~TxByte
    BY <2>4, HandlerStep
  <2>5. CASE Alarm \/ HostRead \/ HostType \/ HostPause
    BY <2>5, OutsideStep
  <2>6. CASE UNCHANGED uartVars
    BY <2>6 DEF uartVars
  <2> QED  BY <2>1, <2>2, <2>3, <2>4, <2>5, <2>6 DEF UartNext, Write
<1> QED  BY <1>1, <1>2, UartInvariance, PTL DEF UartSpec, DeliversStream, Stream!Spec

-----------------------------------------------------------------------------
(* The sizes that are shipped; LoopTicks and MaxCount are bounds.         *)

ShippedClock == INSTANCE SystemClock
  WITH Word <- 4294967296, Thousand <- 1000, Rate <- 1000, Settle <- 200
ShippedMouth == INSTANCE MouthCounter
  WITH hpixels <- 799, HDisplay <- 640, HSyncFirst <- 656, HSyncEnd <- 752,
       vlines <- 524, VDisplay <- 480, VSyncFirst <- 490, Frames <- 10
ShippedConsole == INSTANCE JtagUart
  WITH BufLen <- 2048, Fifo <- 64, ReadThreshold <- 8, WriteThreshold <- 8, Timeout <- 10,
       Numbers <- 2048

\* What the theorems of this module assume of sizes and times is true of the
\* shipped ones: a 32-bit tick counter of milliseconds (alt_nticks), the 800 x
\* 525 frame (VGA_controller.sv:38-39,84-99), ten frames to a bite (counter.sv)
\* and the driver's buffer and FIFOs (altera_avalon_jtag_uart.h:70, system.h).
THEOREM ShippedSizes ==
  /\ ShippedClock!TimerAssumption /\ ShippedClock!AlarmAssumption
  /\ ShippedMouth!TimingAssumption /\ ShippedMouth!FramesAssumption
  /\ ShippedConsole!UartAssumption
<1>1. ShippedClock!TimerAssumption /\ ShippedClock!AlarmAssumption
  BY TimerAssumption, SMT DEF ShippedClock!TimerAssumption, ShippedClock!AlarmAssumption
<1>2. ShippedMouth!TimingAssumption /\ ShippedMouth!FramesAssumption
  BY SMT DEF ShippedMouth!TimingAssumption, ShippedMouth!FramesAssumption
<1>3. ShippedConsole!UartAssumption
  BY UartAssumption, SMT DEF ShippedConsole!UartAssumption
<1> QED
  BY <1>1, <1>2, <1>3, SMT
=============================================================================
