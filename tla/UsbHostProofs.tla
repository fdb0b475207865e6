---------------------------- MODULE UsbHostProofs -----------------------------
(***************************************************************************)
(* The host in every order of the firmware's steps, the interrupts and the *)
(* user's plugs, for every number of addresses, plugs and faults.          *)
(***************************************************************************)
EXTENDS UsbHost, TLAPS

\* A bus reset that is being driven has raised no bus event yet.
ResetQuiet == busrst => /\ ~busevent
                        /\ pc \in {"probe", "ack"} => ~hirqBusEvent

\* What a probe of the bus left behind, until it is acknowledged.
Probed ==
  pc \in {"ack", "initack"} =>
    /\ usb_task_state \in {INITIALIZE, WAIT_FOR_DEVICE, ILLEGAL, ATTACHED, WAIT_RESET_COMPLETE}
    /\ line = "JK" /\ ~missed => usb_task_state \in {ATTACHED, WAIT_RESET_COMPLETE}

\* The hardware is not reset under a device that runs.
Restarting == pc \in {"reset", "initprobe"} => usb_task_state # RUNNING

\* main has looked at the device: the device runs, or was given up in this loop.
GivenUp == {2, WAIT_FOR_DEVICE, ILLEGAL, 5, SETTLE, RESET_DEVICE}
Flagged ==
  runningdebugflag =>
    /\ pc \notin {"reset", "initprobe", "initack"}
    /\ pc \in {"task", "probe"} => usb_task_state = RUNNING
    /\ pc = "ack" => usb_task_state \in {INITIALIZE, ILLEGAL, ATTACHED}
    /\ pc = "usb" => usb_task_state \in {RUNNING, INITIALIZE, 2, ILLEGAL, 5, ATTACHED, SETTLE}
    /\ pc = "main" => usb_task_state \in {RUNNING} \cup GivenUp

\* The last record of devtable.
Last(a) == /\ a \in Addresses /\ ~IsFree(a)
           /\ \A b \in Addresses : b > a => IsFree(b)

\* Records are taken from below.
NoGaps == \A a, b \in Addresses : b < a /\ ~IsFree(a) => ~IsFree(b)

Records ==
  /\ NoGaps
  /\ usb_task_state = CONFIGURING => Last(tmp_addr)
  /\ usb_task_state = RUNNING =>
       /\ Last(hid_addr) /\ epinfo[hid_addr] = "hid" /\ devclass[hid_addr] \in HidKinds
       /\ runningdebugflag => device = devclass[hid_addr]

\* ChangesAreNoticed at every place of the loop.
Noticed ==
  /\ usb_task_state = RUNNING => devaddr = hid_addr \/ condet
  /\ /\ pc \in {"task", "usb", "main"} /\ ~missed
     /\ line = "JK" /\ IsDetached(usb_task_state)
     => condet

\* The inductive invariant: what main relies on is left alone by a handler that
\* it does not see, for reasons that lie in the order of a loop's accesses.
IInv == /\ TypeOK /\ NoTransferInReset
        /\ ResetQuiet /\ Probed /\ Restarting /\ Flagged /\ Records /\ Noticed

-----------------------------------------------------------------------------
(* What a probe of the bus, and each other step, leaves of the invariant.   *)

LEMMA BusProbe ==
  ASSUME TypeOK, MAX_busprobe
  PROVE  /\ usb_task_state' \in {INITIALIZE, WAIT_FOR_DEVICE, ILLEGAL, ATTACHED,
                                 WAIT_RESET_COMPLETE}
         /\ usb_task_state' \in 0..255 /\ sofka' \in BOOLEAN
         /\ line = "JK" => usb_task_state' \in {ATTACHED, WAIT_RESET_COMPLETE}
         /\ usb_task_state = RUNNING => usb_task_state' \in {INITIALIZE, ILLEGAL, ATTACHED}
<1> USE DEF INITIALIZE, WAIT_FOR_DEVICE, ILLEGAL, ATTACHED, SETTLE, RESET_DEVICE, WAIT_RESET_COMPLETE, WAIT_SOF, GET_DESCRIPTOR_SIZE, ADDRESSING, CONFIGURING, RUNNING, ERROR
<1>1. sofka \in BOOLEAN
  BY DEF TypeOK
<1>2. ~IsDetached(RUNNING)
  BY DEF IsDetached, Class
<1>3. sofka' \in BOOLEAN
  BY <1>1 DEF MAX_busprobe, ProbeAttached, ProbeIllegal, ProbeDetached
<1>4. CASE ProbeAttached
  <2>1. line = "JK" /\ usb_task_state' \in {ATTACHED, WAIT_RESET_COMPLETE}
    BY <1>4 DEF ProbeAttached
  <2>2. usb_task_state = RUNNING => usb_task_state' = ATTACHED
    BY <1>4 DEF ProbeAttached
  <2> QED
    BY <1>3, <2>1, <2>2
<1>5. CASE ProbeIllegal
  BY <1>3, <1>5 DEF ProbeIllegal
<1>6. CASE ProbeDetached
  <2>1. line = "SE0" /\ usb_task_state' \in {INITIALIZE, WAIT_FOR_DEVICE}
    BY <1>6 DEF ProbeDetached
  <2>2. usb_task_state = RUNNING => usb_task_state' = INITIALIZE
    BY <1>2, <1>6 DEF ProbeDetached
  <2> QED
    BY <1>3, <2>1, <2>2
<1> QED
  BY <1>4, <1>5, <1>6 DEF MAX_busprobe

LEMMA TypeNext == TypeOK /\ Next => TypeOK'
<1> SUFFICES ASSUME TypeOK, Next PROVE TypeOK'
  OBVIOUS
<1> USE UsbAssumption DEF TypeOK, host, loop, chip, bus, GoTo, INITIALIZE, WAIT_FOR_DEVICE, ILLEGAL, ATTACHED, SETTLE, RESET_DEVICE, WAIT_RESET_COMPLETE, WAIT_SOF, GET_DESCRIPTOR_SIZE, ADDRESSING, CONFIGURING, RUNNING, ERROR
<1>1. CASE ResetChip
  BY <1>1 DEF ResetChip
<1>2. CASE InitProbe
  <2>1. usb_task_state' \in 0..255 /\ sofka' \in BOOLEAN
    BY <1>2, BusProbe DEF InitProbe
  <2>2. UNCHANGED <<epinfo, devclass, tmp_addr, hid_addr, keycode, settle, loop,
                    condet, busevent, busrst, sof, bus>>
    BY <1>2 DEF InitProbe, MAX_busprobe
  <2>3. pc' \in {"initack", "ack"}
    BY <1>2 DEF InitProbe
  <2> HIDE DEF MAX_busprobe
  <2> QED
    BY <2>1, <2>2, <2>3
<1>3. CASE InitAck
  BY <1>3 DEF InitAck, USB_init
<1>4. CASE Interrupt
  BY <1>4 DEF Interrupt
<1>5. CASE NoInterrupt
  BY <1>5 DEF NoInterrupt
<1>6. CASE Probe
  <2>1. usb_task_state' \in 0..255 /\ sofka' \in BOOLEAN
    BY <1>6, BusProbe DEF Probe
  <2>2. UNCHANGED <<epinfo, devclass, tmp_addr, hid_addr, keycode, settle, loop,
                    condet, busevent, busrst, sof, bus>>
    BY <1>6 DEF Probe, MAX_busprobe
  <2>3. pc' \in {"initack", "ack"}
    BY <1>6 DEF Probe
  <2> HIDE DEF MAX_busprobe
  <2> QED
    BY <2>1, <2>2, <2>3
<1>7. CASE Ack
  <2>1. usb_task_state' \in 0..255
    BY <1>7 DEF Ack
  <2>2. busevent' \in BOOLEAN
    BY <1>7, Zenon DEF Ack
  <2>3. /\ pc' = "usb" /\ condet' = FALSE
        /\ UNCHANGED <<epinfo, devclass, tmp_addr, hid_addr, keycode, settle, loop,
                       busrst, sofka, sof, bus>>
    BY <1>7 DEF Ack
  <2> QED
    BY <2>1, <2>2, <2>3
<1>8. CASE Initialize
  BY <1>8 DEF Initialize, USB_init, UsbStep
<1>9. CASE StartSettle
  BY <1>9 DEF StartSettle, UsbStep
<1>10. CASE Settled
  BY <1>10 DEF Settled, UsbStep
<1>11. CASE ResetDevice
  <2>1. UNCHANGED <<epinfo, devclass, tmp_addr, hid_addr, keycode, settle,
                    loop, condet, sofka, bus>>
    BY <1>11 DEF ResetDevice
  <2>2. pc' = "main" /\ usb_task_state' = WAIT_RESET_COMPLETE
    BY <1>11 DEF ResetDevice, UsbStep
  <2>3. busevent' = FALSE /\ busrst' = TRUE /\ sof' = FALSE
    BY <1>11, Zenon DEF ResetDevice
  <2>4. {hirqBusEvent, runningdebugflag, condet, busevent, busrst, sofka, sof, missed}'
          \subseteq BOOLEAN
    BY <2>1, <2>3
  <2> QED
    BY <2>1, <2>2, <2>4
<1>12. CASE ResetComplete
  BY <1>12 DEF ResetComplete, UsbStep
<1>13. CASE FirstSof
  BY <1>13 DEF FirstSof, UsbStep
<1>14. CASE UsbWait
  BY <1>14 DEF UsbWait, UsbStep
<1>15. CASE GetDescriptorSize
  BY <1>15 DEF GetDescriptorSize, TransferFails, Answers, UsbStep
<1>16. CASE Address
  BY <1>16 DEF Address, TransferFails, Answers, IsFree, UsbStep
<1>17. CASE NoAddress
  BY <1>17 DEF NoAddress, UsbStep
<1>18. CASE Configure
  <2>1. /\ epinfo' \in [Addresses -> {"null", "dev0", "hid"}]
        /\ devclass' \in [Addresses -> {"none"} \cup HidKinds]
        /\ hid_addr' \in {0} \cup Addresses
    BY <1>18 DEF Configure, Match
  <2>2. /\ pc' = "main" /\ usb_task_state' = RUNNING
        /\ UNCHANGED <<tmp_addr, keycode, settle, loop, chip, bus>>
    BY <1>18 DEF Configure, UsbStep
  <2> QED
    BY <2>1, <2>2
<1>19. CASE ConfigureFails
  BY <1>19 DEF ConfigureFails, Match, HidKinds, TransferFails, Answers, UsbStep
<1>20. CASE UsbIdle
  BY <1>20 DEF UsbIdle, UsbStep
<1>21. CASE GetDriverandReport
  BY <1>21 DEF GetDriverandReport, IsFree
<1>22. CASE Poll
  BY <1>22 DEF Poll, Polling, Answers
<1>23. CASE PollNothing
  BY <1>23 DEF PollNothing, Polling
<1>24. CASE Reinitialize
  BY <1>24 DEF Reinitialize
<1>25. CASE MainIdle
  BY <1>25 DEF MainIdle
<1>26. CASE BusResetDone
  BY <1>26 DEF BusResetDone
<1>27. CASE BusResetDetect
  BY <1>27 DEF BusResetDetect
<1>28. CASE Frame
  BY <1>28 DEF Frame
<1>29. CASE SettleElapses
  BY <1>29 DEF SettleElapses
<1>30. CASE PlugsIn
  BY <1>30 DEF PlugsIn, LineChanges
<1>31. CASE Unplug
  BY <1>31 DEF Unplug, LineChanges
<1>32. ASSUME NEW kind \in Kinds, Plug(kind) PROVE TypeOK'
  BY <1>32 DEF Plug, LineChanges
<1> QED
  BY <1>1, <1>2, <1>3, <1>4, <1>5, <1>6, <1>7, <1>8, <1>9, <1>10, <1>11, <1>12, <1>13, <1>14, <1>15, <1>16, <1>17, <1>18, <1>19, <1>20, <1>21, <1>22, <1>23, <1>24, <1>25, <1>26, <1>27, <1>28, <1>29, <1>30, <1>31, <1>32 DEF Next, Firmware, Environment, USB_Task

LEMMA ResetNext == IInv /\ Next /\ TypeOK' => NoTransferInReset' /\ ResetQuiet'
<1> SUFFICES ASSUME IInv, Next, TypeOK' PROVE NoTransferInReset' /\ ResetQuiet'
  OBVIOUS
<1> USE UsbAssumption DEF IInv, TypeOK, host, loop, chip, bus, GoTo, INITIALIZE, WAIT_FOR_DEVICE, ILLEGAL, ATTACHED, SETTLE, RESET_DEVICE, WAIT_RESET_COMPLETE, WAIT_SOF, GET_DESCRIPTOR_SIZE, ADDRESSING, CONFIGURING, RUNNING, ERROR, NoTransferInReset, ResetQuiet, Probed
<1>1. CASE ResetChip
  BY <1>1 DEF ResetChip
<1>2. CASE InitProbe
  BY <1>2, BusProbe DEF InitProbe, MAX_busprobe
<1>3. CASE InitAck
  BY <1>3 DEF InitAck, USB_init
<1>4. CASE Interrupt
  BY <1>4 DEF Interrupt
<1>5. CASE NoInterrupt
  BY <1>5 DEF NoInterrupt
<1>6. CASE Probe
  BY <1>6, BusProbe DEF Probe, MAX_busprobe
<1>7. CASE Ack
  BY <1>7 DEF Ack
<1>8. CASE Initialize
  BY <1>8 DEF Initialize, USB_init, UsbStep
<1>9. CASE StartSettle
  BY <1>9 DEF StartSettle, UsbStep
<1>10. CASE Settled
  BY <1>10 DEF Settled, UsbStep
<1>11. CASE ResetDevice
  BY <1>11 DEF ResetDevice, UsbStep
<1>12. CASE ResetComplete
  BY <1>12 DEF ResetComplete, UsbStep
<1>13. CASE FirstSof
  BY <1>13 DEF FirstSof, UsbStep
<1>14. CASE UsbWait
  BY <1>14 DEF UsbWait, UsbStep
<1>15. CASE GetDescriptorSize
  BY <1>15 DEF GetDescriptorSize, TransferFails, Answers, UsbStep
<1>16. CASE Address
  BY <1>16 DEF Address, TransferFails, Answers, IsFree, UsbStep
<1>17. CASE NoAddress
  BY <1>17 DEF NoAddress, UsbStep
<1>18. CASE Configure
  BY <1>18 DEF Configure, Match, HidKinds, Answers, UsbStep
<1>19. CASE ConfigureFails
  BY <1>19 DEF ConfigureFails, Match, HidKinds, TransferFails, Answers, UsbStep
<1>20. CASE UsbIdle
  BY <1>20 DEF UsbIdle, UsbStep
<1>21. CASE GetDriverandReport
  BY <1>21 DEF GetDriverandReport, IsFree
<1>22. CASE Poll
  BY <1>22 DEF Poll, Polling, Answers
<1>23. CASE PollNothing
  BY <1>23 DEF PollNothing, Polling
<1>24. CASE Reinitialize
  BY <1>24 DEF Reinitialize
<1>25. CASE MainIdle
  BY <1>25 DEF MainIdle
<1>26. CASE BusResetDone
  BY <1>26 DEF BusResetDone
<1>27. CASE BusResetDetect
  BY <1>27 DEF BusResetDetect
<1>28. CASE Frame
  BY <1>28 DEF Frame
<1>29. CASE SettleElapses
  BY <1>29 DEF SettleElapses
<1>30. CASE PlugsIn
  BY <1>30 DEF PlugsIn, LineChanges
<1>31. CASE Unplug
  BY <1>31 DEF Unplug, LineChanges
<1>32. ASSUME NEW kind \in Kinds, Plug(kind) PROVE NoTransferInReset' /\ ResetQuiet'
  BY <1>32 DEF Plug, LineChanges
<1> QED
  BY <1>1, <1>2, <1>3, <1>4, <1>5, <1>6, <1>7, <1>8, <1>9, <1>10, <1>11, <1>12, <1>13, <1>14, <1>15, <1>16, <1>17, <1>18, <1>19, <1>20, <1>21, <1>22, <1>23, <1>24, <1>25, <1>26, <1>27, <1>28, <1>29, <1>30, <1>31, <1>32 DEF Next, Firmware, Environment, USB_Task

LEMMA ProbedNext == IInv /\ Next /\ TypeOK' => Probed' /\ Restarting'
<1> SUFFICES ASSUME IInv, Next, TypeOK' PROVE Probed' /\ Restarting'
  OBVIOUS
<1> USE UsbAssumption DEF IInv, TypeOK, host, loop, chip, bus, GoTo, INITIALIZE, WAIT_FOR_DEVICE, ILLEGAL, ATTACHED, SETTLE, RESET_DEVICE, WAIT_RESET_COMPLETE, WAIT_SOF, GET_DESCRIPTOR_SIZE, ADDRESSING, CONFIGURING, RUNNING, ERROR, Probed, Restarting
<1>1. CASE ResetChip
  BY <1>1 DEF ResetChip
<1>2. CASE InitProbe
  BY <1>2, BusProbe DEF InitProbe, MAX_busprobe
<1>3. CASE InitAck
  BY <1>3 DEF InitAck, USB_init
<1>4. CASE Interrupt
  BY <1>4 DEF Interrupt
<1>5. CASE NoInterrupt
  BY <1>5 DEF NoInterrupt
<1>6. CASE Probe
  BY <1>6, BusProbe DEF Probe, MAX_busprobe
<1>7. CASE Ack
  BY <1>7 DEF Ack
<1>8. CASE Initialize
  BY <1>8 DEF Initialize, USB_init, UsbStep
<1>9. CASE StartSettle
  BY <1>9 DEF StartSettle, UsbStep
<1>10. CASE Settled
  BY <1>10 DEF Settled, UsbStep
<1>11. CASE ResetDevice
  BY <1>11 DEF ResetDevice, UsbStep
<1>12. CASE ResetComplete
  BY <1>12 DEF ResetComplete, UsbStep
<1>13. CASE FirstSof
  BY <1>13 DEF FirstSof, UsbStep
<1>14. CASE UsbWait
  BY <1>14 DEF UsbWait, UsbStep
<1>15. CASE GetDescriptorSize
  BY <1>15 DEF GetDescriptorSize, TransferFails, Answers, UsbStep
<1>16. CASE Address
  BY <1>16 DEF Address, TransferFails, Answers, IsFree, UsbStep
<1>17. CASE NoAddress
  BY <1>17 DEF NoAddress, UsbStep
<1>18. CASE Configure
  BY <1>18 DEF Configure, Match, HidKinds, Answers, UsbStep
<1>19. CASE ConfigureFails
  BY <1>19 DEF ConfigureFails, Match, HidKinds, TransferFails, Answers, UsbStep
<1>20. CASE UsbIdle
  BY <1>20 DEF UsbIdle, UsbStep
<1>21. CASE GetDriverandReport
  BY <1>21 DEF GetDriverandReport, IsFree
<1>22. CASE Poll
  BY <1>22 DEF Poll, Polling, Answers
<1>23. CASE PollNothing
  BY <1>23 DEF PollNothing, Polling
<1>24. CASE Reinitialize
  BY <1>24 DEF Reinitialize
<1>25. CASE MainIdle
  BY <1>25 DEF MainIdle
<1>26. CASE BusResetDone
  BY <1>26 DEF BusResetDone
<1>27. CASE BusResetDetect
  BY <1>27 DEF BusResetDetect
<1>28. CASE Frame
  BY <1>28 DEF Frame
<1>29. CASE SettleElapses
  BY <1>29 DEF SettleElapses
<1>30. CASE PlugsIn
  BY <1>30 DEF PlugsIn, LineChanges
<1>31. CASE Unplug
  BY <1>31 DEF Unplug, LineChanges
<1>32. ASSUME NEW kind \in Kinds, Plug(kind) PROVE Probed' /\ Restarting'
  BY <1>32 DEF Plug, LineChanges
<1> QED
  BY <1>1, <1>2, <1>3, <1>4, <1>5, <1>6, <1>7, <1>8, <1>9, <1>10, <1>11, <1>12, <1>13, <1>14, <1>15, <1>16, <1>17, <1>18, <1>19, <1>20, <1>21, <1>22, <1>23, <1>24, <1>25, <1>26, <1>27, <1>28, <1>29, <1>30, <1>31, <1>32 DEF Next, Firmware, Environment, USB_Task

LEMMA FlaggedNext == IInv /\ Next /\ TypeOK' => Flagged'
<1> SUFFICES ASSUME IInv, Next, TypeOK' PROVE Flagged'
  OBVIOUS
<1> USE UsbAssumption DEF IInv, TypeOK, host, loop, chip, bus, GoTo, INITIALIZE, WAIT_FOR_DEVICE, ILLEGAL, ATTACHED, SETTLE, RESET_DEVICE, WAIT_RESET_COMPLETE, WAIT_SOF, GET_DESCRIPTOR_SIZE, ADDRESSING, CONFIGURING, RUNNING, ERROR, Flagged, GivenUp
<1>1. CASE ResetChip
  BY <1>1 DEF ResetChip
<1>2. CASE InitProbe
  BY <1>2, BusProbe DEF InitProbe, MAX_busprobe
<1>3. CASE InitAck
  BY <1>3 DEF InitAck, USB_init
<1>4. CASE Interrupt
  BY <1>4 DEF Interrupt
<1>5. CASE NoInterrupt
  BY <1>5 DEF NoInterrupt
<1>6. CASE Probe
  BY <1>6, BusProbe DEF Probe, MAX_busprobe
<1>7. CASE Ack
  BY <1>7 DEF Ack
<1>8. CASE Initialize
  BY <1>8 DEF Initialize, USB_init, UsbStep
<1>9. CASE StartSettle
  BY <1>9 DEF StartSettle, UsbStep
<1>10. CASE Settled
  BY <1>10 DEF Settled, UsbStep
<1>11. CASE ResetDevice
  BY <1>11 DEF ResetDevice, UsbStep
<1>12. CASE ResetComplete
  BY <1>12 DEF ResetComplete, UsbStep
<1>13. CASE FirstSof
  BY <1>13 DEF FirstSof, UsbStep
<1>14. CASE UsbWait
  BY <1>14 DEF UsbWait, UsbStep
<1>15. CASE GetDescriptorSize
  BY <1>15 DEF GetDescriptorSize, TransferFails, Answers, UsbStep
<1>16. CASE Address
  BY <1>16 DEF Address, TransferFails, Answers, IsFree, UsbStep
<1>17. CASE NoAddress
  BY <1>17 DEF NoAddress, UsbStep
<1>18. CASE Configure
  BY <1>18 DEF Configure, Match, HidKinds, Answers, UsbStep
<1>19. CASE ConfigureFails
  BY <1>19 DEF ConfigureFails, Match, HidKinds, TransferFails, Answers, UsbStep
<1>20. CASE UsbIdle
  BY <1>20 DEF UsbIdle, UsbStep
<1>21. CASE GetDriverandReport
  BY <1>21 DEF GetDriverandReport, IsFree
<1>22. CASE Poll
  BY <1>22 DEF Poll, Polling, Answers
<1>23. CASE PollNothing
  BY <1>23 DEF PollNothing, Polling
<1>24. CASE Reinitialize
  BY <1>24 DEF Reinitialize
<1>25. CASE MainIdle
  BY <1>25 DEF MainIdle
<1>26. CASE BusResetDone
  BY <1>26 DEF BusResetDone
<1>27. CASE BusResetDetect
  BY <1>27 DEF BusResetDetect
<1>28. CASE Frame
  BY <1>28 DEF Frame
<1>29. CASE SettleElapses
  BY <1>29 DEF SettleElapses
<1>30. CASE PlugsIn
  BY <1>30 DEF PlugsIn, LineChanges
<1>31. CASE Unplug
  BY <1>31 DEF Unplug, LineChanges
<1>32. ASSUME NEW kind \in Kinds, Plug(kind) PROVE Flagged'
  BY <1>32 DEF Plug, LineChanges
<1> QED
  BY <1>1, <1>2, <1>3, <1>4, <1>5, <1>6, <1>7, <1>8, <1>9, <1>10, <1>11, <1>12, <1>13, <1>14, <1>15, <1>16, <1>17, <1>18, <1>19, <1>20, <1>21, <1>22, <1>23, <1>24, <1>25, <1>26, <1>27, <1>28, <1>29, <1>30, <1>31, <1>32 DEF Next, Firmware, Environment, USB_Task

LEMMA NoticedBusy ==
  ASSUME usb_task_state' \in {ADDRESSING, CONFIGURING, ERROR}
  PROVE  Noticed'
<1> DEFINE s == usb_task_state'
<1>1. s \in {32, 48, 255}
  BY DEF ADDRESSING, CONFIGURING, ERROR
<1> HIDE DEF s
<1>2. s \in Int /\ s > 31 /\ s < 256 /\ s # 64
  BY <1>1
<1>3. s \div 16 # 0
  BY <1>2
<1>4. ~IsDetached(usb_task_state') /\ usb_task_state' # RUNNING
  BY <1>2, <1>3 DEF IsDetached, Class, RUNNING, s
<1> QED
  BY <1>4, Zenon DEF Noticed, IsDetached

LEMMA AddressTakes ==
  ASSUME Address
  PROVE  \E a \in Addresses :
           /\ IsFree(a) /\ \A b \in Addresses : b < a => ~IsFree(b)
           /\ epinfo' = [epinfo EXCEPT ![a] = "dev0"]
           /\ \/ tmp_addr' = a /\ usb_task_state' = CONFIGURING
              \/ usb_task_state' = ERROR
BY DEF Address

LEMMA RecordsKept ==
  Records /\ UNCHANGED <<epinfo, devclass, tmp_addr, hid_addr>>
          /\ (usb_task_state' \in {CONFIGURING, RUNNING} => usb_task_state' = usb_task_state)
          /\ (runningdebugflag' => UNCHANGED <<runningdebugflag, device>>)
    => Records'
<1> SUFFICES ASSUME Records, UNCHANGED <<epinfo, devclass, tmp_addr, hid_addr>>,
                    usb_task_state' \in {CONFIGURING, RUNNING} => usb_task_state' = usb_task_state,
                    runningdebugflag' => UNCHANGED <<runningdebugflag, device>>
             PROVE  Records'
  OBVIOUS
<1>1. NoGaps'
  BY DEF Records, NoGaps, IsFree
<1>2. ASSUME NEW a, Last(a) PROVE Last(a)'
  BY <1>2 DEF Last, IsFree
<1>3. (usb_task_state = CONFIGURING => Last(tmp_addr))'
  <2> HAVE usb_task_state' = CONFIGURING
  <2>1. Last(tmp_addr)
    BY DEF Records
  <2>2. Last(tmp_addr)'
    BY <1>2, <2>1
  <2> QED
    BY <2>2
<1>4. (usb_task_state = RUNNING =>
        /\ Last(hid_addr) /\ epinfo[hid_addr] = "hid" /\ devclass[hid_addr] \in HidKinds
        /\ runningdebugflag => device = devclass[hid_addr])'
  <2> HAVE usb_task_state' = RUNNING
  <2>1. /\ Last(hid_addr) /\ epinfo[hid_addr] = "hid" /\ devclass[hid_addr] \in HidKinds
        /\ runningdebugflag => device = devclass[hid_addr]
    BY DEF Records
  <2>2. Last(hid_addr)'
    BY <1>2, <2>1
  <2>3. (epinfo[hid_addr] = "hid" /\ devclass[hid_addr] \in HidKinds)'
    BY <2>1
  <2>4. runningdebugflag' => device' = devclass'[hid_addr']
    BY <2>1
  <2> QED
    BY <2>2, <2>3, <2>4
<1> QED
  BY <1>1, <1>3, <1>4 DEF Records

LEMMA RecordsNext == IInv /\ Next => Records'
<1> SUFFICES ASSUME IInv, Next PROVE Records'
  OBVIOUS
<1>0. TypeOK /\ Records
  BY DEF IInv
<1> USE <1>0, UsbAssumption DEF IInv, host, loop, chip, bus, INITIALIZE, WAIT_FOR_DEVICE, ILLEGAL, ATTACHED, SETTLE, RESET_DEVICE, WAIT_RESET_COMPLETE, WAIT_SOF, GET_DESCRIPTOR_SIZE, ADDRESSING, CONFIGURING, RUNNING, ERROR
<1>1. CASE ResetChip
  BY <1>1, RecordsKept DEF ResetChip
<1>2. CASE InitProbe
  BY <1>2, RecordsKept, BusProbe DEF InitProbe, MAX_busprobe
<1>3. CASE InitAck
  <2>1. \A c \in Addresses : IsFree(c)'
    BY <1>3 DEF InitAck, USB_init, IsFree
  <2>2. usb_task_state' \notin {CONFIGURING, RUNNING}
    BY <1>3 DEF InitAck, Probed, UsbStep
  <2> QED
    BY <2>1, <2>2 DEF Records, NoGaps
<1>4. CASE Interrupt
  BY <1>4, RecordsKept DEF Interrupt
<1>5. CASE NoInterrupt
  BY <1>5, RecordsKept DEF NoInterrupt
<1>6. CASE Probe
  BY <1>6, RecordsKept, BusProbe DEF Probe, MAX_busprobe
<1>7. CASE Ack
  BY <1>7, RecordsKept DEF Ack, Probed
<1>8. CASE Initialize
  <2>1. \A c \in Addresses : IsFree(c)'
    BY <1>8 DEF Initialize, USB_init, IsFree
  <2>2. usb_task_state' \notin {CONFIGURING, RUNNING}
    BY <1>8 DEF Initialize, Probed, UsbStep
  <2> QED
    BY <2>1, <2>2 DEF Records, NoGaps
<1>9. CASE StartSettle
  BY <1>9, RecordsKept DEF StartSettle, UsbStep
<1>10. CASE Settled
  BY <1>10, RecordsKept DEF Settled, UsbStep
<1>11. CASE ResetDevice
  BY <1>11, RecordsKept DEF ResetDevice, UsbStep
<1>12. CASE ResetComplete
  BY <1>12, RecordsKept DEF ResetComplete, UsbStep
<1>13. CASE FirstSof
  BY <1>13, RecordsKept DEF FirstSof, UsbStep
<1>14. CASE UsbWait
  BY <1>14, RecordsKept DEF UsbWait, UsbStep
<1>15. CASE GetDescriptorSize
  BY <1>15, RecordsKept DEF GetDescriptorSize, UsbStep
<1>16. CASE Address
  <2>1. PICK a \in Addresses :
          /\ IsFree(a) /\ \A b \in Addresses : b < a => ~IsFree(b)
          /\ epinfo' = [epinfo EXCEPT ![a] = "dev0"]
          /\ \/ tmp_addr' = a /\ usb_task_state' = CONFIGURING
             \/ usb_task_state' = ERROR
    BY <1>16, AddressTakes
  <2>2. usb_task_state' \in {CONFIGURING, ERROR}
    BY <1>16 DEF Address
  <2>3. \A b \in Addresses : b > a => IsFree(b)
    BY <2>1 DEF Records, NoGaps
  <2>4. \A b \in Addresses : IsFree(b)' <=> b > a
    <3> TAKE b \in Addresses
    <3>1. epinfo'[b] = IF b = a THEN "dev0" ELSE epinfo[b]
      BY <2>1 DEF TypeOK
    <3>2. IsFree(b)' <=> b # a /\ IsFree(b)
      BY <3>1 DEF IsFree
    <3> QED
      BY <2>1, <2>3, <3>2 DEF Addresses
  <2>5. Last(a)' /\ NoGaps'
    BY <2>4 DEF Last, NoGaps, Addresses
  <2>6. (usb_task_state = CONFIGURING => Last(tmp_addr))'
    BY <2>1, <2>5
  <2> QED
    BY <2>2, <2>5, <2>6 DEF Records
<1>17. CASE NoAddress
  BY <1>17, RecordsKept DEF NoAddress, UsbStep
<1>18. CASE Configure
  <2>1. Last(tmp_addr) /\ tmp_addr \in Addresses
    BY <1>18 DEF Configure, UsbStep, Records, Last
  <2>2. /\ epinfo' = [epinfo EXCEPT ![tmp_addr] = "hid"]
        /\ devclass' = [devclass EXCEPT ![tmp_addr] = plugged]
        /\ hid_addr' = tmp_addr /\ plugged \in HidKinds
        /\ usb_task_state' = RUNNING
    BY <1>18 DEF Configure, Match
  <2>3. ~runningdebugflag'
    BY <1>18 DEF Configure, UsbStep, Flagged
  <2>4. \A b \in Addresses : IsFree(b)' <=> IsFree(b)
    BY <2>1, <2>2 DEF IsFree, Last, TypeOK
  <2>5. Last(hid_addr)' /\ NoGaps'
    BY <2>1, <2>2, <2>4 DEF Last, NoGaps, Records
  <2>6. epinfo'[hid_addr'] = "hid" /\ devclass'[hid_addr'] \in HidKinds
    BY <2>1, <2>2 DEF TypeOK
  <2> QED
    BY <2>2, <2>3, <2>5, <2>6 DEF Records
<1>19. CASE ConfigureFails
  <2>1. Last(tmp_addr) /\ tmp_addr \in Addresses
    BY <1>19 DEF ConfigureFails, UsbStep, Records, Last
  <2>2. \/ epinfo' = epinfo
        \/ epinfo' = [epinfo EXCEPT ![tmp_addr] = "hid"]
    BY <1>19 DEF ConfigureFails, Match
  <2>3. \A b \in Addresses : IsFree(b)' <=> IsFree(b)
    BY <2>1, <2>2 DEF IsFree, Last, TypeOK
  <2>4. NoGaps' /\ usb_task_state' = ERROR
    BY <1>19, <2>3 DEF NoGaps, Records, ConfigureFails
  <2> QED
    BY <2>4 DEF Records
<1>20. CASE UsbIdle
  BY <1>20, RecordsKept DEF UsbIdle, UsbStep
<1>21. CASE GetDriverandReport
  <2>1. Records /\ usb_task_state = RUNNING
    BY <1>21 DEF GetDriverandReport
  <2>2. UNCHANGED <<usb_task_state, epinfo, devclass, tmp_addr, hid_addr>>
    BY <1>21 DEF GetDriverandReport
  <2>3. PICK a \in Addresses :
          ~IsFree(a) /\ (\A b \in Addresses : b > a => IsFree(b)) /\ device' = devclass[a]
    BY <1>21 DEF GetDriverandReport
  <2>4. a = hid_addr
    BY <2>1, <2>3 DEF Records, Last, Addresses
  <2>5. NoGaps' /\ Last(hid_addr)'
    BY <2>1, <2>2 DEF Records, NoGaps, Last, IsFree
  <2>6. (epinfo[hid_addr] = "hid" /\ devclass[hid_addr] \in HidKinds)'
    BY <2>1, <2>2 DEF Records
  <2>7. device' = devclass'[hid_addr']
    BY <2>2, <2>3, <2>4
  <2> QED
    BY <2>1, <2>2, <2>5, <2>6, <2>7 DEF Records
<1>22. CASE Poll
  BY <1>22, RecordsKept DEF Poll
<1>23. CASE PollNothing
  BY <1>23, RecordsKept DEF PollNothing, Polling
<1>24. CASE Reinitialize
  BY <1>24, RecordsKept DEF Reinitialize
<1>25. CASE MainIdle
  BY <1>25, RecordsKept DEF MainIdle
<1>26. CASE BusResetDone
  BY <1>26, RecordsKept DEF BusResetDone
<1>27. CASE BusResetDetect
  BY <1>27, RecordsKept DEF BusResetDetect
<1>28. CASE Frame
  BY <1>28, RecordsKept DEF Frame
<1>29. CASE SettleElapses
  BY <1>29, RecordsKept DEF SettleElapses
<1>30. CASE PlugsIn
  BY <1>30, RecordsKept DEF PlugsIn, LineChanges
<1>31. CASE Unplug
  BY <1>31, RecordsKept DEF Unplug, LineChanges
<1>32. ASSUME NEW kind \in Kinds, Plug(kind) PROVE Records'
  BY <1>32, RecordsKept DEF Plug, LineChanges
<1> QED
  BY <1>1, <1>2, <1>3, <1>4, <1>5, <1>6, <1>7, <1>8, <1>9, <1>10, <1>11, <1>12, <1>13, <1>14, <1>15, <1>16, <1>17, <1>18, <1>19, <1>20, <1>21, <1>22, <1>23, <1>24, <1>25, <1>26, <1>27, <1>28, <1>29, <1>30, <1>31, <1>32 DEF Next, Firmware, Environment, USB_Task

LEMMA NoticedNext == IInv /\ Next /\ TypeOK' => Noticed'
<1> SUFFICES ASSUME IInv, Next, TypeOK' PROVE Noticed'
  OBVIOUS
<1> USE UsbAssumption DEF IInv, TypeOK, host, loop, chip, bus, GoTo, INITIALIZE, WAIT_FOR_DEVICE, ILLEGAL, ATTACHED, SETTLE, RESET_DEVICE, WAIT_RESET_COMPLETE, WAIT_SOF, GET_DESCRIPTOR_SIZE, ADDRESSING, CONFIGURING, RUNNING, ERROR, Noticed, IsDetached, Class
<1>1. CASE ResetChip
  BY <1>1 DEF ResetChip, Restarting
<1>2. CASE InitProbe
  BY <1>2, BusProbe DEF InitProbe, MAX_busprobe
<1>3. CASE InitAck
  BY <1>3 DEF InitAck, Probed
<1>4. CASE Interrupt
  BY <1>4 DEF Interrupt
<1>5. CASE NoInterrupt
  BY <1>5 DEF NoInterrupt
<1>6. CASE Probe
  BY <1>6, BusProbe DEF Probe, MAX_busprobe
<1>7. CASE Ack
  BY <1>7 DEF Ack, Probed
<1>8. CASE Initialize
  BY <1>8 DEF Initialize, USB_init, UsbStep
<1>9. CASE StartSettle
  BY <1>9 DEF StartSettle, UsbStep
<1>10. CASE Settled
  BY <1>10 DEF Settled, UsbStep
<1>11. CASE ResetDevice
  BY <1>11 DEF ResetDevice, UsbStep
<1>12. CASE ResetComplete
  BY <1>12 DEF ResetComplete, UsbStep
<1>13. CASE FirstSof
  BY <1>13 DEF FirstSof, UsbStep
<1>14. CASE UsbWait
  BY <1>14 DEF UsbWait, UsbStep
<1>15. CASE GetDescriptorSize
  <2>1. usb_task_state' \in {ADDRESSING, ERROR}
    BY <1>15 DEF GetDescriptorSize
  <2>2. usb_task_state' \in {ADDRESSING, CONFIGURING, ERROR}
    BY <2>1, Zenon
  <2> HIDE DEF IInv, TypeOK, Noticed
  <2> QED
    BY <2>2, NoticedBusy, Zenon
<1>16. CASE Address
  <2>1. usb_task_state' \in {CONFIGURING, ERROR}
    BY <1>16, AddressTakes
  <2>2. usb_task_state' \in {ADDRESSING, CONFIGURING, ERROR}
    BY <2>1, Zenon
  <2> HIDE DEF IInv, TypeOK, Noticed
  <2> QED
    BY <2>2, NoticedBusy, Zenon
<1>17. CASE NoAddress
  BY <1>17 DEF NoAddress, UsbStep
<1>18. CASE Configure
  BY <1>18 DEF Configure, Match, HidKinds, Answers, UsbStep
<1>19. CASE ConfigureFails
  BY <1>19 DEF ConfigureFails, Match, HidKinds, TransferFails, Answers, UsbStep
<1>20. CASE UsbIdle
  BY <1>20 DEF UsbIdle, UsbStep
<1>21. CASE GetDriverandReport
  BY <1>21 DEF GetDriverandReport, IsFree
<1>22. CASE Poll
  BY <1>22 DEF Poll, Polling, Answers
<1>23. CASE PollNothing
  BY <1>23 DEF PollNothing, Polling
<1>24. CASE Reinitialize
  BY <1>24 DEF Reinitialize
<1>25. CASE MainIdle
  BY <1>25 DEF MainIdle
<1>26. CASE BusResetDone
  BY <1>26 DEF BusResetDone, NoTransferInReset
<1>27. CASE BusResetDetect
  BY <1>27 DEF BusResetDetect
<1>28. CASE Frame
  BY <1>28 DEF Frame
<1>29. CASE SettleElapses
  BY <1>29 DEF SettleElapses
<1>30. CASE PlugsIn
  BY <1>30 DEF PlugsIn, LineChanges
<1>31. CASE Unplug
  BY <1>31 DEF Unplug, LineChanges
<1>32. ASSUME NEW kind \in Kinds, Plug(kind) PROVE Noticed'
  BY <1>32 DEF Plug, LineChanges
<1> QED
  BY <1>1, <1>2, <1>3, <1>4, <1>5, <1>6, <1>7, <1>8, <1>9, <1>10, <1>11, <1>12, <1>13, <1>14, <1>15, <1>16, <1>17, <1>18, <1>19, <1>20, <1>21, <1>22, <1>23, <1>24, <1>25, <1>26, <1>27, <1>28, <1>29, <1>30, <1>31, <1>32 DEF Next, Firmware, Environment, USB_Task

LEMMA InvNext == IInv /\ [Next]_vars => IInv'
<1> SUFFICES ASSUME IInv, [Next]_vars PROVE IInv'
  OBVIOUS
<1>1. CASE Next
  <2>1. TypeOK'
    BY <1>1, TypeNext DEF IInv
  <2>2. NoTransferInReset' /\ ResetQuiet'
    BY <1>1, <2>1, ResetNext
  <2>3. Probed' /\ Restarting'
    BY <1>1, <2>1, ProbedNext
  <2>4. Flagged'
    BY <1>1, <2>1, FlaggedNext
  <2>5. Records'
    BY <1>1, RecordsNext
  <2>6. Noticed'
    BY <1>1, <2>1, NoticedNext
  <2> QED
    BY <2>1, <2>2, <2>3, <2>4, <2>5, <2>6 DEF IInv
<1>2. CASE UNCHANGED vars
  <2>1. TypeOK' /\ NoTransferInReset'
    BY <1>2 DEF IInv, vars, host, loop, chip, bus, TypeOK, NoTransferInReset
  <2>2. ResetQuiet' /\ Probed' /\ Restarting' /\ Flagged'
    BY <1>2 DEF IInv, vars, host, loop, chip, bus, ResetQuiet, Probed, Restarting, Flagged
  <2>3. Records'
    BY <1>2, RecordsKept DEF IInv, vars, host, loop
  <2>4. Noticed'
    BY <1>2 DEF IInv, vars, host, chip, bus, Noticed, IsDetached, Class
  <2> QED
    BY <2>1, <2>2, <2>3, <2>4 DEF IInv
<1> QED
  BY <1>1, <1>2

LEMMA InvInit == Init => IInv
<1> SUFFICES ASSUME Init PROVE IInv
  OBVIOUS
<1> USE UsbAssumption DEF Init, INITIALIZE, WAIT_FOR_DEVICE, ILLEGAL, ATTACHED, SETTLE, RESET_DEVICE, WAIT_RESET_COMPLETE, WAIT_SOF, GET_DESCRIPTOR_SIZE, ADDRESSING, CONFIGURING, RUNNING, ERROR
<1>1. TypeOK
  <2>1. {hirqBusEvent, runningdebugflag, condet, busevent, busrst, sofka, sof, missed}
          \subseteq BOOLEAN
    OBVIOUS
  <2>2. usb_task_state \in 0..255 /\ devaddr \in {NotReset, 0} \cup Addresses
    OBVIOUS
  <2> QED
    BY <2>1, <2>2 DEF TypeOK
<1>2. NoTransferInReset /\ ResetQuiet /\ Probed /\ Restarting /\ Flagged
  BY DEF NoTransferInReset, ResetQuiet, Probed, Restarting, Flagged
<1>3. Records
  BY DEF Records, NoGaps, IsFree
<1>4. Noticed
  BY DEF Noticed
<1> QED
  BY <1>1, <1>2, <1>3, <1>4 DEF IInv

\* The host's registers, records and events agree with the firmware's place in
\* its loop, in every order of probes, interrupts, plugs and faults
\* (main.c:140-220, MAX3421E.c:160-297, transfer.c:257-390).
THEOREM Invariance == Spec => []IInv
<1> QED
  BY InvInit, InvNext, PTL DEF Spec

\* The state machine takes no state that is not one of its own, and every
\* record and counter keeps its range (transfer.h:31-53, transfer.c:257-390).
THEOREM TypeCorrect == Spec => []TypeOK
<1>1. IInv => TypeOK
  BY DEF IInv
<1> QED
  BY <1>1, Invariance, PTL

\* The firmware never goes on to frames and transfers while the bus is still
\* in reset, for every number of devices plugged in and out: the event that
\* ends the wait is the reset's own (transfer.c:281-296, MAX3421E.c:281-289).
THEOREM NoTransfers == Spec => []NoTransferInReset
<1>1. IInv => NoTransferInReset
  BY DEF IInv
<1> QED
  BY <1>1, Invariance, PTL

\* Whatever failed before, main polls an endpoint that the last probe filled
\* in, as the device that it found (main.c:33-40,150-190, HID.c:205-225).
THEOREM PollsAsProbed == Spec => []PolledAsProbed
<1>1. IInv => PolledAsProbed
  BY DEF IInv, Records, Last, PolledAsProbed, Polling
<1> QED
  BY <1>1, Invariance, PTL

\* No plug and no unplug is lost: until the host has caught up with the bus, a
\* connection interrupt is pending (MAX3421E.c:192-237,253-256,279-293).
THEOREM NoticesChanges == Spec => []ChangesAreNoticed
<1>1. IInv => ChangesAreNoticed
  BY DEF IInv, Noticed, ChangesAreNoticed
<1> QED
  BY <1>1, Invariance, PTL
=============================================================================
